-------------------------- MODULE Discovery_proofs --------------------------
(***************************************************************************)
(* Proofs about Discovery and Compiler for any planner, any number of      *)
(* steps, batch limit, rows of other runs, room in the topic and failing   *)
(* appends.                                                                *)
(***************************************************************************)
EXTENDS Discovery, FiniteSetTheorems, TLAPS

LEMMA ActionFact ==
    ASSUME NEW a \in Action \cup {EntryAction}
    PROVE  RedactAction(a).type = a.type /\ a.candidates \in Seq(Locator)
<1>1. CASE a \in Action
  <2>1. a \in ActionType
    BY <1>1, ConstantsAssumption
  <2> QED BY <2>1 DEF ActionType, RedactAction
<1>2. CASE a = EntryAction
  <2>1. EntryAction.candidates = <<>>
    BY DEF EntryAction
  <2>2. RedactAction(EntryAction).type = EntryAction.type
    BY DEF EntryAction, RedactAction
  <2> QED BY <1>2, <2>1, <2>2
<1> QED BY <1>1, <1>2

\* What it means for an event to be emitted.
LEMMA EmitFact ==
    ASSUME TypeOK, NEW type \in EventTypes, NEW a \in Action \cup {EntryAction},
           NEW used \in Locator \cup {NoLocator}, EmitEvent(type, a, used)
    PROVE  LET n == Len(events) + 1 IN
           /\ events' \in Seq(EventRow) /\ Len(events') = n
           /\ DOMAIN events = 1..Len(events) /\ DOMAIN events' = 1..n
           /\ \A r \in DOMAIN events : events'[r] = events[r]
           /\ events'[n].type = type /\ events'[n].step = step
           /\ events'[n].action.type = a.type
           /\ \A t : Emitted(t)' = IF t = type THEN Emitted(t) \cup {n} ELSE Emitted(t)
           /\ \A t : StepsOf(t)' = IF t = type THEN StepsOf(t) \cup {step} ELSE StepsOf(t)
<1> DEFINE n == Len(events) + 1
           e == [type |-> type, step |-> step, action |-> RedactAction(a),
                 used |-> Redact(used)]
<1>1. events \in Seq(EventRow) /\ Len(events) \in Nat /\ DOMAIN events = 1..Len(events)
  BY DEF TypeOK
<1>2. e \in EventRow
  BY DEF TypeOK, EventRow, Redact
<1>3. events' = Append(events, e)
  BY DEF EmitEvent
<1> HIDE DEF e
<1>4. /\ events' \in Seq(EventRow) /\ Len(events') = n /\ DOMAIN events' = 1..n
      /\ \A r \in DOMAIN events : events'[r] = events[r]
      /\ events'[n] = e
  BY <1>1, <1>2, <1>3
<1>5. events'[n].type = type /\ events'[n].step = step
      /\ events'[n].action.type = a.type
  BY <1>4, ActionFact DEF e
<1>6. ASSUME NEW t PROVE Emitted(t)' = IF t = type THEN Emitted(t) \cup {n} ELSE Emitted(t)
  BY <1>1, <1>4, <1>5 DEF Emitted
<1>7. ASSUME NEW t PROVE StepsOf(t)' = IF t = type THEN StepsOf(t) \cup {step} ELSE StepsOf(t)
  <2>1. \A r \in Emitted(t) : events'[r].step = events[r].step
    BY <1>4 DEF Emitted
  <2> QED BY <1>5, <1>6, <2>1 DEF StepsOf
<1> QED BY <1>1, <1>4, <1>5, <1>6, <1>7

\* Emitted and StepsOf of every type after an event of type `type' was emitted.
Grows(type) ==
    LET n == Len(events) + 1 IN
    /\ \A t \in EventTypes : Emitted(t)' = IF t = type THEN Emitted(t) \cup {n} ELSE Emitted(t)
    /\ \A t \in EventTypes : StepsOf(t)' = IF t = type THEN StepsOf(t) \cup {step} ELSE StepsOf(t)

\* What the run's invariants need to know of the event that was emitted.
Appended(type, a) ==
    LET n == Len(events) + 1 IN
    /\ events' \in Seq(EventRow) /\ Len(events') = n
    /\ \A r \in DOMAIN events : events'[r] = events[r]
    /\ events'[n].type = type /\ events'[n].step = step
    /\ events'[n].action.type = a.type
    /\ Grows(type)

LEMMA Emission ==
    ASSUME Inv, NEW type \in EventTypes, NEW a \in Action \cup {EntryAction},
           NEW used \in Locator \cup {NoLocator}, EmitEvent(type, a, used)
    PROVE  Appended(type, a)
BY EmitFact DEF Inv, Appended, Grows

LEMMA EmittedFact ==
    ASSUME TypeOK
    PROVE  /\ Len(events) \in Nat /\ step \in Nat /\ MaxSteps \in Nat
           /\ DOMAIN events = 1..Len(events)
           /\ \A t : Emitted(t) \subseteq 1..Len(events)
           /\ \A t : \A r \in Emitted(t) : events[r].step \in Nat /\ events[r].step \in StepsOf(t)
<1>1. Len(events) \in Nat /\ DOMAIN events = 1..Len(events) /\ events \in Seq(EventRow)
  BY DEF TypeOK
<1>2. step \in Nat /\ MaxSteps \in Nat
  BY ConstantsAssumption DEF TypeOK
<1>3. ASSUME NEW r \in DOMAIN events PROVE events[r].step \in Nat
  <2>1. events[r] \in EventRow
    BY <1>1
  <2> QED BY <1>2, <2>1 DEF EventRow
<1> QED BY <1>1, <1>2, <1>3 DEF Emitted, StepsOf

LEMMA DecideEntryRun == ASSUME Inv, DecideEntry PROVE RunInv'
<1>1. TypeOK /\ RunInv /\ action \in Action \cup {EntryAction}
  BY DEF Inv, TypeOK
<1>2. /\ pc = "entry" /\ pc' = "goto" /\ EmitEvent("ActionDecided", action, NoLocator)
      /\ UNCHANGED <<step, action>>
  BY DEF DecideEntry, Emit
<1>3. Appended("ActionDecided", action)
  BY <1>1, <1>2, Emission DEF EventTypes
<1>4. LengthInv'
  BY <1>1, <1>2, <1>3, EmittedFact
  DEF LengthInv, RunInv, Appended
<1>5. StepInv'
  BY <1>1, <1>2, <1>3, EmittedFact
  DEF StepInv, LengthInv, RunInv, Appended, Grows, EventTypes, Before
<1>6. OncePerStep'
  BY <1>1, <1>2, <1>3, EmittedFact
  DEF OncePerStep, StepInv, LengthInv, RunInv, Appended, Grows, EventTypes, Before
<1>7. DecidedInv'
  BY <1>1, <1>2, <1>3, EmittedFact
  DEF DecidedInv, StepInv, LengthInv, EndInv, RunInv, Appended, Grows, EventTypes,
     Before, After, Ends
<1>8. EndInv'
  BY <1>1, <1>2, <1>3, EmittedFact
  DEF EndInv, DecidedInv, StepInv, LengthInv, RunInv, Appended, Grows, EventTypes, Before,
     After, Ends, Stops
<1> QED BY <1>4, <1>5, <1>6, <1>7, <1>8 DEF RunInv

LEMMA GotoRun == ASSUME Inv, Goto PROVE RunInv'
<1>1. TypeOK /\ RunInv /\ action \in Action \cup {EntryAction}
  BY DEF Inv, TypeOK
<1>2. /\ pc = "goto" /\ pc' = "acted" /\ EmitEvent("ActionExecuted", action, NoLocator)
      /\ UNCHANGED <<step, action>>
  BY DEF Goto, Emit
<1>3. Appended("ActionExecuted", action)
  BY <1>1, <1>2, Emission DEF EventTypes
<1>4. LengthInv'
  BY <1>1, <1>2, <1>3, EmittedFact
  DEF LengthInv, RunInv, Appended
<1>5. StepInv'
  BY <1>1, <1>2, <1>3, EmittedFact
  DEF StepInv, LengthInv, RunInv, Appended, Grows, EventTypes, Before
<1>6. OncePerStep'
  BY <1>1, <1>2, <1>3, EmittedFact
  DEF OncePerStep, StepInv, LengthInv, RunInv, Appended, Grows, EventTypes, Before
<1>7. DecidedInv'
  BY <1>1, <1>2, <1>3, EmittedFact
  DEF DecidedInv, StepInv, LengthInv, EndInv, RunInv, Appended, Grows, EventTypes,
     Before, After, Ends
<1>8. EndInv'
  BY <1>1, <1>2, <1>3, EmittedFact
  DEF EndInv, DecidedInv, StepInv, LengthInv, RunInv, Appended, Grows, EventTypes, Before,
     After, Ends, Stops
<1> QED BY <1>4, <1>5, <1>6, <1>7, <1>8 DEF RunInv

LEMMA ObserveRun == ASSUME Inv, Observe PROVE RunInv'
<1>1. TypeOK /\ RunInv /\ action \in Action \cup {EntryAction}
  BY DEF Inv, TypeOK
<1>2. /\ pc = "observe" /\ pc' = "decide" /\ EmitEvent("ObservationCaptured", action, NoLocator)
      /\ UNCHANGED <<step, action>> /\ step < MaxSteps
  BY DEF Observe, Emit
<1>3. Appended("ObservationCaptured", action)
  BY <1>1, <1>2, Emission DEF EventTypes
<1>4. LengthInv'
  BY <1>1, <1>2, <1>3, EmittedFact
  DEF LengthInv, RunInv, Appended
<1>5. StepInv'
  BY <1>1, <1>2, <1>3, EmittedFact
  DEF StepInv, LengthInv, RunInv, Appended, Grows, EventTypes, Before
<1>6. OncePerStep'
  BY <1>1, <1>2, <1>3, EmittedFact
  DEF OncePerStep, StepInv, LengthInv, RunInv, Appended, Grows, EventTypes, Before
<1>7. DecidedInv'
  BY <1>1, <1>2, <1>3, EmittedFact
  DEF DecidedInv, StepInv, LengthInv, EndInv, RunInv, Appended, Grows, EventTypes,
     Before, After, Ends
<1>8. EndInv'
  BY <1>1, <1>2, <1>3, EmittedFact
  DEF EndInv, DecidedInv, StepInv, LengthInv, RunInv, Appended, Grows, EventTypes, Before,
     After, Ends, Stops
<1> QED BY <1>4, <1>5, <1>6, <1>7, <1>8 DEF RunInv

LEMMA BlockRun == ASSUME Inv, Block PROVE RunInv'
<1>1. TypeOK /\ RunInv /\ action \in Action \cup {EntryAction}
  BY DEF Inv, TypeOK
<1>2. /\ pc = "gate" /\ pc' = "ended" /\ EmitEvent("ActionBlocked", action, NoLocator)
      /\ UNCHANGED <<step, action>>
  BY DEF Block, Emit
<1>3. Appended("ActionBlocked", action)
  BY <1>1, <1>2, Emission DEF EventTypes
<1>4. LengthInv'
  BY <1>1, <1>2, <1>3, EmittedFact
  DEF LengthInv, RunInv, Appended
<1>5. StepInv'
  BY <1>1, <1>2, <1>3, EmittedFact
  DEF StepInv, LengthInv, RunInv, Appended, Grows, EventTypes, Before
<1>6. OncePerStep'
  BY <1>1, <1>2, <1>3, EmittedFact
  DEF OncePerStep, StepInv, LengthInv, RunInv, Appended, Grows, EventTypes, Before
<1>7. DecidedInv'
  BY <1>1, <1>2, <1>3, EmittedFact
  DEF DecidedInv, StepInv, LengthInv, EndInv, RunInv, Appended, Grows, EventTypes,
     Before, After, Ends
<1>8. EndInv'
  BY <1>1, <1>2, <1>3, EmittedFact
  DEF EndInv, DecidedInv, StepInv, LengthInv, RunInv, Appended, Grows, EventTypes, Before,
     After, Ends, Stops
<1> QED BY <1>4, <1>5, <1>6, <1>7, <1>8 DEF RunInv

LEMMA StepSucceededRun == ASSUME Inv, StepSucceeded PROVE RunInv'
<1>1. TypeOK /\ RunInv /\ action \in Action \cup {EntryAction}
  BY DEF Inv, TypeOK
<1>2. /\ pc = "acted" /\ pc' = "observe" /\ EmitEvent("StepSucceeded", action, NoLocator)
      /\ step' = step + 1
  BY DEF StepSucceeded, Emit
<1>3. Appended("StepSucceeded", action)
  BY <1>1, <1>2, Emission DEF EventTypes
<1>4. LengthInv'
  BY <1>1, <1>2, <1>3, EmittedFact
  DEF LengthInv, RunInv, Appended
<1>5. StepInv'
  <2>1. step \in Nat /\ StepsOf("StepSucceeded")' = 0..(step - 1) \cup {step}
    BY <1>1, <1>3, EmittedFact DEF StepInv, RunInv, Appended, Grows, EventTypes
  <2>2. \A type \in {"ActionDecided", "ActionExecuted"} :
           0..step \subseteq StepsOf(type)' /\ StepsOf(type)' \subseteq 0..step
    <3>1. ASSUME NEW type \in {"ActionDecided", "ActionExecuted"}
          PROVE  /\ 0..(step - 1) \subseteq StepsOf(type) /\ StepsOf(type) \subseteq 0..step
                 /\ step \in StepsOf(type) /\ StepsOf(type)' = StepsOf(type)
      BY <1>1, <1>2, <1>3 DEF StepInv, RunInv, Appended, Grows, EventTypes
    <3> QED BY <2>1, <3>1
  <2>3. /\ 0..(step - 1) \cup {step} = 0..step /\ step' = step + 1 /\ step' - 1 = step
        /\ step' \notin 0..step /\ 0..step \subseteq 0..step'
    BY <1>2, <2>1
  <2>4. StepsOf("StepSucceeded")' = 0..(step' - 1)
    BY <2>1, <2>3
  <2>5. \A type \in {"ActionDecided", "ActionExecuted"} :
           /\ step' \notin StepsOf(type)'
           /\ 0..(step' - 1) \subseteq StepsOf(type)' /\ StepsOf(type)' \subseteq 0..step'
    BY <2>2, <2>3
  <2> QED BY <1>2, <2>4, <2>5 DEF StepInv
<1>6. OncePerStep'
  BY <1>1, <1>2, <1>3, EmittedFact
  DEF OncePerStep, StepInv, LengthInv, RunInv, Appended, Grows, EventTypes, Before
<1>7. DecidedInv'
  BY <1>1, <1>2, <1>3, EmittedFact
  DEF DecidedInv, StepInv, LengthInv, EndInv, RunInv, Appended, Grows, EventTypes,
     Before, After, Ends
<1>8. EndInv'
  BY <1>1, <1>2, <1>3, EmittedFact
  DEF EndInv, DecidedInv, StepInv, LengthInv, RunInv, Appended, Grows, EventTypes, Before,
     After, Ends, Stops
<1> QED BY <1>4, <1>5, <1>6, <1>7, <1>8 DEF RunInv

LEMMA StepFailedRun == ASSUME Inv, StepFailed PROVE RunInv'
<1>1. TypeOK /\ RunInv /\ action \in Action \cup {EntryAction}
  BY DEF Inv, TypeOK
<1>2. /\ pc = "acted" /\ pc' = "ended" /\ EmitEvent("StepFailed", action, NoLocator)
      /\ UNCHANGED <<step, action>>
  BY DEF StepFailed, Emit
<1>3. Appended("StepFailed", action)
  BY <1>1, <1>2, Emission DEF EventTypes
<1>4. LengthInv'
  BY <1>1, <1>2, <1>3, EmittedFact
  DEF LengthInv, RunInv, Appended
<1>5. StepInv'
  BY <1>1, <1>2, <1>3, EmittedFact
  DEF StepInv, LengthInv, RunInv, Appended, Grows, EventTypes, Before
<1>6. OncePerStep'
  BY <1>1, <1>2, <1>3, EmittedFact
  DEF OncePerStep, StepInv, LengthInv, RunInv, Appended, Grows, EventTypes, Before
<1>7. DecidedInv'
  BY <1>1, <1>2, <1>3, EmittedFact
  DEF DecidedInv, StepInv, LengthInv, EndInv, RunInv, Appended, Grows, EventTypes,
     Before, After, Ends
<1>8. EndInv'
  BY <1>1, <1>2, <1>3, EmittedFact
  DEF EndInv, DecidedInv, StepInv, LengthInv, RunInv, Appended, Grows, EventTypes, Before,
     After, Ends, Stops
<1> QED BY <1>4, <1>5, <1>6, <1>7, <1>8 DEF RunInv

LEMMA RunFailedRun == ASSUME Inv, RunFailed PROVE RunInv'
<1>1. TypeOK /\ RunInv /\ action \in Action \cup {EntryAction}
  BY DEF Inv, TypeOK
<1>2. /\ pc = "ended" /\ pc' = "flush" /\ EmitEvent("RunFailed", action, NoLocator)
      /\ UNCHANGED <<step, action>>
  BY DEF RunFailed, Emit
<1>3. Appended("RunFailed", action)
  BY <1>1, <1>2, Emission DEF EventTypes
<1>4. LengthInv'
  BY <1>1, <1>2, <1>3, EmittedFact
  DEF LengthInv, RunInv, Appended
<1>5. StepInv'
  BY <1>1, <1>2, <1>3, EmittedFact
  DEF StepInv, LengthInv, RunInv, Appended, Grows, EventTypes, Before
<1>6. OncePerStep'
  BY <1>1, <1>2, <1>3, EmittedFact
  DEF OncePerStep, StepInv, LengthInv, RunInv, Appended, Grows, EventTypes, Before
<1>7. DecidedInv'
  BY <1>1, <1>2, <1>3, EmittedFact
  DEF DecidedInv, StepInv, LengthInv, EndInv, RunInv, Appended, Grows, EventTypes,
     Before, After, Ends
<1>8. EndInv'
  BY <1>1, <1>2, <1>3, EmittedFact
  DEF EndInv, DecidedInv, StepInv, LengthInv, RunInv, Appended, Grows, EventTypes, Before,
     After, Ends, Stops
<1> QED BY <1>4, <1>5, <1>6, <1>7, <1>8 DEF RunInv

LEMMA DecideRun == ASSUME Inv, Decide PROVE RunInv'
<1>1. TypeOK /\ RunInv
  BY DEF Inv, TypeOK
<1>2. /\ pc = "decide" /\ pc' = "gate" /\ step' = step /\ action' \in Action
      /\ EmitEvent("ActionDecided", action', NoLocator)
  BY DEF Decide, Emit
<1>3. Appended("ActionDecided", action')
  BY <1>1, <1>2, Emission DEF EventTypes
<1>4. LengthInv'
  BY <1>1, <1>2, <1>3, EmittedFact
  DEF LengthInv, RunInv, Appended
<1>5. StepInv'
  BY <1>1, <1>2, <1>3, EmittedFact
  DEF StepInv, LengthInv, RunInv, Appended, Grows, EventTypes, Before
<1>6. OncePerStep'
  BY <1>1, <1>2, <1>3, EmittedFact
  DEF OncePerStep, StepInv, LengthInv, RunInv, Appended, Grows, EventTypes, Before
<1>7. DecidedInv'
  BY <1>1, <1>2, <1>3, EmittedFact
  DEF DecidedInv, StepInv, LengthInv, EndInv, RunInv, Appended, Grows, EventTypes,
     Before, After, Ends
<1>8. EndInv'
  BY <1>1, <1>2, <1>3, EmittedFact
  DEF EndInv, DecidedInv, StepInv, LengthInv, RunInv, Appended, Grows, EventTypes, Before,
     After, Ends, Stops
<1> QED BY <1>4, <1>5, <1>6, <1>7, <1>8 DEF RunInv

LEMMA ActRun == ASSUME Inv, Act PROVE RunInv'
<1>1. TypeOK /\ RunInv /\ action \in Action \cup {EntryAction}
  BY DEF Inv, TypeOK
<1>2. /\ pc = "act" /\ pc' = "acted" /\ action.type # "finish"
      /\ UNCHANGED <<step, action>> /\ result' \in Results(action)
      /\ EmitEvent("ActionExecuted", action, result'.used)
  BY DEF Act, Emit
<1>3. Appended("ActionExecuted", action)
  <2>1. result'.used \in Locator \cup {NoLocator}
    BY <1>1, <1>2, ActionFact DEF Results
  <2> QED BY <1>1, <1>2, <2>1, Emission DEF EventTypes
<1>4. LengthInv'
  BY <1>1, <1>2, <1>3, EmittedFact
  DEF LengthInv, RunInv, Appended
<1>5. StepInv'
  BY <1>1, <1>2, <1>3, EmittedFact
  DEF StepInv, LengthInv, RunInv, Appended, Grows, EventTypes, Before
<1>6. OncePerStep'
  <2> DEFINE n == Len(events) + 1
  <2>1. /\ Emitted("ActionDecided")' = Emitted("ActionDecided")
        /\ Emitted("ActionExecuted")' = Emitted("ActionExecuted") \cup {n}
        /\ events'[n].step = step
    BY <1>3 DEF Appended, Grows, EventTypes
  <2>2. step \notin StepsOf("ActionExecuted")
    BY <1>1, <1>2 DEF RunInv, StepInv
  <2>3. \A t : \A r \in Emitted(t) : events'[r] = events[r] /\ events[r].step \in StepsOf(t)
    BY <1>1, <1>3, EmittedFact DEF Appended
  <2> HIDE DEF n
  <2>4. OncePerStep
    BY <1>1 DEF RunInv
  <2> QED BY <2>1, <2>2, <2>3, <2>4 DEF OncePerStep
<1>7. DecidedInv'
  BY <1>1, <1>2, <1>3, EmittedFact
  DEF DecidedInv, StepInv, LengthInv, EndInv, RunInv, Appended, Grows, EventTypes,
     Before, After, Ends
<1>8. EndInv'
  BY <1>1, <1>2, <1>3, EmittedFact
  DEF EndInv, DecidedInv, StepInv, LengthInv, RunInv, Appended, Grows, EventTypes, Before,
     After, Ends, Stops
<1> QED BY <1>4, <1>5, <1>6, <1>7, <1>8 DEF RunInv

\* The planner reports success, or an error and the run goes on to RunFailed.
LEMMA FinishRun == ASSUME Inv, Finish PROVE RunInv'
<1>1. TypeOK /\ RunInv /\ action \in Action \cup {EntryAction}
  BY DEF Inv, TypeOK
<1>2. /\ pc = "act" /\ action.type = "finish"
      /\ UNCHANGED <<step, action>>
  BY DEF Finish
<1>3. CASE pc' = "ended" /\ UNCHANGED events
  <2>1. \A t : Emitted(t)' = Emitted(t) /\ StepsOf(t)' = StepsOf(t)
    BY <1>3 DEF Emitted, StepsOf
  <2> QED BY <1>1, <1>2, <1>3, <2>1, EmittedFact
          DEF RunInv, LengthInv, StepInv, OncePerStep, DecidedInv, EndInv, Before, After, Ends,
              Stops
<1>4. CASE pc' = "flush" /\ Emit("RunSucceeded")
  <2>1. Appended("RunSucceeded", action)
    BY <1>1, <1>4, Emission DEF EventTypes, Emit
  <2>2. LengthInv'
    BY <1>1, <1>2, <1>4, <2>1, EmittedFact
    DEF LengthInv, RunInv, Appended
  <2>3. StepInv'
    BY <1>1, <1>2, <1>4, <2>1, EmittedFact
    DEF StepInv, LengthInv, RunInv, Appended, Grows, EventTypes, Before
  <2>4. OncePerStep'
    BY <1>1, <1>2, <1>4, <2>1, EmittedFact
    DEF OncePerStep, StepInv, LengthInv, RunInv, Appended, Grows, EventTypes, Before
  <2>5. DecidedInv'
    BY <1>1, <1>2, <1>4, <2>1, EmittedFact
    DEF DecidedInv, StepInv, LengthInv, EndInv, RunInv, Appended, Grows, EventTypes,
     Before, After, Ends
  <2>6. EndInv'
    BY <1>1, <1>2, <1>4, <2>1, EmittedFact
    DEF EndInv, DecidedInv, StepInv, LengthInv, RunInv, Appended, Grows, EventTypes, Before,
     After, Ends, Stops
  <2> QED BY <2>2, <2>3, <2>4, <2>5, <2>6 DEF RunInv
<1> QED BY <1>3, <1>4 DEF Finish

\* The gate, the end of the loop, of the flush, an exception: nothing is emitted.
LEMMA SilentRun ==
    ASSUME Inv, UNCHANGED <<step, action, events>>,
           \/ Gate \/ Exhausted \/ Die \/ Flush \/ Return
           \/ pc' = pc
    PROVE  RunInv'
<1>1. TypeOK /\ RunInv
  BY DEF Inv
<1>2. \A t : Emitted(t)' = Emitted(t) /\ StepsOf(t)' = StepsOf(t)
  BY DEF Emitted, StepsOf
<1>3. /\ LengthInv' /\ StepInv'
  BY <1>1, <1>2, EmittedFact DEF RunInv, LengthInv, StepInv, Before, Gate, Exhausted, Die, Flush, Return
<1>4. OncePerStep' /\ DecidedInv'
  BY <1>1, <1>2 DEF RunInv, OncePerStep, DecidedInv, Gate, Exhausted, Die, Flush, Return
<1>5. EndInv'
  BY <1>1, <1>2 DEF RunInv, EndInv, After, Ends, Stops, Gate, Exhausted, Die, Flush, Return
<1> QED BY <1>3, <1>4, <1>5 DEF RunInv

-----------------------------------------------------------------------------
\* The topic: what a delivery adds to it.
LEMMA DeliverFact ==
    ASSUME TypeOK, NEW r \in Row, Deliver(r)
    PROVE  /\ r \in DOMAIN events /\ r \notin ToSet(log)
           /\ log' \in Seq(DOMAIN events) /\ Len(log') = Len(log) + 1 /\ Len(log) \in Nat
           /\ DOMAIN log = 1..Len(log) /\ DOMAIN log' = 1..(Len(log) + 1)
           /\ \A q \in DOMAIN log : log'[q] = log[q]
           /\ log'[Len(log) + 1] = r
           /\ ToSet(log)' = ToSet(log) \cup {r}
           /\ \A q \in 1..(r - 1) : q \in excused \/ q \in ToSet(log)
           /\ UNCHANGED <<run, events, excused, room, due, crowd, artifact, served>>
<1>1. /\ log \in Seq(DOMAIN events) /\ Len(log) \in Nat /\ DOMAIN log = 1..Len(log)
  BY DEF TypeOK
<1>2. /\ r \in DOMAIN events /\ r \notin ToSet(log)
      /\ log' = Append(log, r)
      /\ UNCHANGED <<run, events, excused, room, due, crowd, artifact, served>>
  BY DEF Deliver, D!Deliver, D!Range, ToSet
<1>3. /\ log' \in Seq(DOMAIN events) /\ Len(log') = Len(log) + 1
      /\ DOMAIN log' = 1..(Len(log) + 1)
      /\ \A q \in DOMAIN log : log'[q] = log[q]
      /\ log'[Len(log) + 1] = r
  BY <1>1, <1>2
<1>4. ToSet(log)' = ToSet(log) \cup {r}
  BY <1>1, <1>3 DEF ToSet
<1>5. ASSUME NEW q \in 1..(r - 1) PROVE q \in excused \/ q \in ToSet(log)
  <2>1. q \in Row /\ q < r
    <3>1. MaxRows \in Nat
      BY ConstantsAssumption DEF MaxRows
    <3> QED BY <3>1 DEF Row
  <2>2. r \in Row /\ q \in Ahead[r]
    BY <1>2, <2>1 DEF Ahead
  <2> QED BY <2>1, <2>2 DEF Deliver, D!Deliver, D!Range, ToSet
<1> QED BY <1>1, <1>2, <1>3, <1>4, <1>5

LEMMA DeliveryFailsFact ==
    ASSUME NEW r \in Row, DeliveryFails(r)
    PROVE  /\ excused' = excused \cup {r} /\ r \in DOMAIN events
           /\ UNCHANGED <<run, events, log, room, due, crowd, artifact, served>>
BY DEF DeliveryFails, D!Excuse

\* There are rows for all that a run that has not ended may yet emit.
LEMMA RowLeft ==
    ASSUME Inv, pc \notin After \cup {"dead"}
    PROVE  Len(events) + 1 <= MaxRows
<1>1. TypeOK /\ LengthInv
  BY DEF Inv, RunInv
<1>2. Len(events) \in Nat /\ step \in Nat /\ MaxSteps \in Nat /\ step <= MaxSteps
  BY <1>1, ConstantsAssumption DEF TypeOK
<1>3. pc \in {"entry", "goto", "observe", "decide", "gate", "act", "acted", "ended"}
  BY <1>1 DEF TypeOK, After
<1>4. Len(events) <= 4 * step + 3
  <2>1. CASE pc \in {"entry", "goto"}
    <3>1. step = 0 /\ (Len(events) = 0 \/ Len(events) = 1)
      BY <1>1, <2>1 DEF LengthInv
    <3> QED BY <3>1
  <2>2. CASE pc \in {"observe", "decide", "gate", "act", "acted", "ended"}
    BY <1>1, <1>2, <2>2 DEF LengthInv
  <2> QED BY <1>3, <2>1, <2>2
<1> QED BY <1>2, <1>4 DEF MaxRows

\* No more rows than MAX_STEPS allow.
LEMMA TypeStep == Inv /\ [Next]_vars => TypeOK'
<1> SUFFICES ASSUME Inv, [Next]_vars PROVE TypeOK'
  OBVIOUS
<1> USE DEF Unmoved
<1>1. TypeOK /\ LengthInv
  BY DEF Inv, RunInv
<1>2. ASSUME NEW type, NEW a, Appended(type, a), UNCHANGED topic, pc \notin After \cup {"dead"}
      PROVE  /\ events' \in Seq(EventRow) /\ Len(events') <= MaxRows
             /\ log' \in Seq(DOMAIN events') /\ excused' \subseteq DOMAIN events'
             /\ room' \in Room /\ due' \subseteq DOMAIN events' /\ crowd' \in 0..BatchLimit
  <2>1. /\ events' \in Seq(EventRow) /\ Len(events') = Len(events) + 1
        /\ UNCHANGED <<log, excused, room, due, crowd>>
    BY <1>2 DEF Appended, topic
  <2>2. Len(events) + 1 <= MaxRows
    BY <1>2, RowLeft
  <2>3. DOMAIN events \subseteq DOMAIN events'
    BY <1>1, <2>1 DEF TypeOK
  <2> QED BY <1>1, <2>1, <2>2, <2>3 DEF TypeOK
<1>3. CASE DecideEntry \/ Goto \/ Observe \/ Block \/ StepFailed \/ RunFailed
  <2>1. PICK type \in EventTypes : Emit(type) /\ UNCHANGED topic
    BY <1>3 DEF DecideEntry, Goto, Observe, Block, StepFailed, RunFailed, EventTypes
  <2>2. Appended(type, action)
    BY <1>1, <2>1, Emission DEF Emit, TypeOK
  <2>3. pc \notin After \cup {"dead"}
    BY <1>3 DEF DecideEntry, Goto, Observe, Block, StepFailed, RunFailed, After
  <2> QED BY <1>1, <1>2, <1>3, <2>1, <2>2, <2>3
          DEF TypeOK, DecideEntry, Goto, Observe, Block, StepFailed, RunFailed
<1>4. CASE StepSucceeded
  <2>1. Appended("StepSucceeded", action) /\ UNCHANGED topic /\ pc \notin After \cup {"dead"}
    BY <1>1, <1>4, Emission DEF StepSucceeded, Emit, TypeOK, EventTypes, After
  <2>2. step' \in 0..MaxSteps
    BY <1>1, <1>4, ConstantsAssumption DEF StepSucceeded, TypeOK, LengthInv
  <2> QED BY <1>1, <1>2, <1>4, <2>1, <2>2 DEF TypeOK, StepSucceeded
<1>5. CASE Decide
  <2>1. Appended("ActionDecided", action') /\ UNCHANGED topic /\ pc \notin After \cup {"dead"}
        /\ action' \in Action
    BY <1>1, <1>5, Emission DEF Decide, TypeOK, EventTypes, After
  <2> QED BY <1>1, <1>2, <1>5, <2>1 DEF TypeOK, Decide
<1>6. CASE Act
  <2>1. result' \in [outcome : {"none", "success", "error"}, used : Locator \cup {NoLocator}]
    BY <1>1, <1>6, ActionFact DEF Act, TypeOK, Results
  <2>2. Appended("ActionExecuted", action) /\ UNCHANGED topic /\ pc \notin After \cup {"dead"}
    BY <1>1, <1>6, <2>1, Emission DEF Act, TypeOK, EventTypes, After
  <2> QED BY <1>1, <1>2, <1>6, <2>1, <2>2 DEF TypeOK, Act
<1>7. CASE Finish
  <2>1. CASE UNCHANGED events
    BY <1>1, <1>7, <2>1 DEF TypeOK, Finish, topic
  <2>2. CASE Emit("RunSucceeded")
    <3>1. Appended("RunSucceeded", action) /\ UNCHANGED topic /\ pc \notin After \cup {"dead"}
      BY <1>1, <1>7, <2>2, Emission DEF Finish, Emit, TypeOK, EventTypes, After
    <3> QED BY <1>1, <1>2, <1>7, <3>1 DEF TypeOK, Finish
  <2> QED BY <1>7, <2>1, <2>2 DEF Finish
<1>8. CASE PageMoves \/ Gate \/ Exhausted \/ Flush \/ Return \/ Die
  BY <1>1, <1>8, ConstantsAssumption DEF TypeOK, PageMoves, Gate, Exhausted, Flush, Return, Die, topic, Pending
<1>9. ASSUME NEW r \in Row, Deliver(r) PROVE TypeOK'
  BY <1>1, <1>9, DeliverFact DEF TypeOK, run
<1>10. ASSUME NEW r \in Row, DeliveryFails(r) PROVE TypeOK'
  BY <1>1, <1>10, DeliveryFailsFact DEF TypeOK, run
<1>11. CASE CompileCapability \/ ResolveForTenant \/ UNCHANGED vars
  BY <1>1, <1>11 DEF TypeOK, CompileCapability, ResolveForTenant, vars, run, topic
<1> QED BY <1>3, <1>4, <1>5, <1>6, <1>7, <1>8, <1>9, <1>10, <1>11 DEF Next, Execute

-----------------------------------------------------------------------------
\* The events of a topic that only grows, of a run that only adds to its own.
LEMMA FirstKept ==
    ASSUME TypeOK, \A q \in DOMAIN log : log'[q] = log[q],
           \A r \in DOMAIN events : events'[r] = events[r], NEW n \in 0..Len(log)
    PROVE  First(n)' = First(n)
<1>1. ASSUME NEW q \in 1..n PROVE events'[log'[q]] = events[log[q]]
  <2>1. q \in DOMAIN log /\ log[q] \in DOMAIN events
    BY DEF TypeOK
  <2> QED BY <2>1
<1> QED BY <1>1 DEF First

LEMMA ArtifactKept ==
    ASSUME TypeOK, ArtifactInv, \A q \in DOMAIN log : log'[q] = log[q], Len(log') \in Nat,
           Len(log') >= Len(log), \A r \in DOMAIN events : events'[r] = events[r],
           UNCHANGED <<artifact, served>>
    PROVE  ArtifactInv'
<1>1. Len(log) \in Nat
  BY DEF TypeOK
<1>2. ASSUME artifact # None
      PROVE  \E n \in 0..Len(log') : Compilable(First(n)') /\ artifact = Compile(First(n)')
  <2>1. PICK n \in 0..Len(log) : Compilable(First(n)) /\ artifact = Compile(First(n))
    BY <1>2 DEF ArtifactInv
  <2>2. First(n)' = First(n) /\ n \in 0..Len(log')
    BY <1>1, FirstKept
  <2> QED BY <2>1, <2>2
<1> QED BY <1>2 DEF ArtifactInv

\* A checkpoint has its step, in the artifact and in what any tenant is served.
LEMMA ChecksHaveSteps ==
    ASSUME NEW f
    PROVE  DOMAIN Compile(f).checkpoints \subseteq DOMAIN Compile(f).steps
BY DEF Compile, ReplayableSteps

LEMMA ResolvedHasSteps ==
    ASSUME NEW f, NEW o
    PROVE  LET s == Resolve(Compile(f), o) IN DOMAIN s.checkpoints \subseteq DOMAIN s.steps
<1> DEFINE a == Compile(f)
           steps == [i \in DOMAIN a.steps |-> OverlaidStep(a.steps[i], i, o)]
<1>1. DOMAIN a.checkpoints \subseteq DOMAIN a.steps
  BY ChecksHaveSteps
<1>2. {"steps", "checkpoints"} \subseteq DOMAIN a
  BY DEF Compile
<1>3. Resolve(a, o) = [a EXCEPT !.steps = steps]
  BY DEF Resolve
<1>4. DOMAIN steps = DOMAIN a.steps
  OBVIOUS
<1> HIDE DEF a, steps
<1>5. Resolve(a, o).steps = steps /\ Resolve(a, o).checkpoints = a.checkpoints
  BY <1>2, <1>3
<1> QED BY <1>1, <1>4, <1>5 DEF a

-----------------------------------------------------------------------------
LEMMA IntervalSize ==
    ASSUME NEW k \in Nat
    PROVE  IsFiniteSet(1..k) /\ Cardinality(1..k) = k
BY FS_Interval

\* A delivery appends a row that was not there, after all earlier ones that count.
LEMMA DeliverLog == ASSUME Inv, NEW r \in Row, Deliver(r) PROVE LogInv'
<1> DEFINE n == Len(log) + 1
<1>1. TypeOK /\ LogInv
  BY DEF Inv
<1>2. /\ r \notin ToSet(log) /\ Len(log) \in Nat /\ Len(log') = n
      /\ DOMAIN log = 1..Len(log) /\ DOMAIN log' = 1..n
      /\ \A q \in DOMAIN log : log'[q] = log[q]
      /\ log'[n] = r /\ ToSet(log)' = ToSet(log) \cup {r} /\ excused' = excused
      /\ \A q \in 1..(r - 1) : q \in excused \/ q \in ToSet(log)
  BY <1>1, DeliverFact
<1>3. \A p, q \in DOMAIN log' : log'[p] = log'[q] => p = q
  <2>1. \A p \in DOMAIN log : log'[p] \in ToSet(log) /\ log'[p] # log'[n]
    BY <1>2 DEF ToSet
  <2>2. \A p, q \in DOMAIN log : log'[p] = log'[q] => p = q
    BY <1>1, <1>2 DEF LogInv
  <2> QED BY <1>2, <2>1, <2>2
<1>4. Cardinality(ToSet(log))' = Len(log')
  <2>1. IsFiniteSet(ToSet(log))
    <3>1. ToSet(log) \subseteq 1..Len(events) /\ Len(events) \in Nat
      BY <1>1, <1>2 DEF TypeOK, ToSet
    <3>2. IsFiniteSet(1..Len(events))
      BY <3>1, IntervalSize
    <3> QED BY <3>1, <3>2, FS_Subset
  <2>2. Cardinality(ToSet(log) \cup {r}) = Cardinality(ToSet(log)) + 1
    BY <1>2, <2>1, FS_AddElement
  <2> QED BY <1>1, <1>2, <2>2 DEF LogInv
<1>5. ASSUME NEW p \in DOMAIN log', NEW q \in 1..(log'[p] - 1)
      PROVE  q \in excused' \/ \E o \in 1..(p - 1) : log'[o] = q
  <2>1. CASE p = n
    BY <1>2, <1>5, <2>1 DEF ToSet
  <2>2. CASE p # n
    <3>1. p \in DOMAIN log /\ log'[p] = log[p] /\ p <= Len(log)
      BY <1>2, <1>5, <2>2
    <3>2. q \in excused \/ \E o \in 1..(p - 1) : log[o] = q
      BY <1>1, <1>5, <3>1 DEF LogInv
    <3> QED BY <1>2, <3>1, <3>2
  <2> QED BY <2>1, <2>2
<1> QED BY <1>3, <1>4, <1>5 DEF LogInv

\* A batch that is large enough takes every row that is not in the topic yet.
LEMMA FlushAll ==
    ASSUME TypeOK, Flush, Len(events) + crowd' <= BatchLimit
    PROVE  DOMAIN events \subseteq due' \cup ToSet(log)
<1> SUFFICES ASSUME NEW r \in DOMAIN events, r \notin ToSet(log) PROVE r \in due'
  OBVIOUS
<1> DEFINE older == {q \in Pending : q < r}
<1>1. /\ Len(events) \in Nat /\ DOMAIN events = 1..Len(events) /\ BatchLimit \in Nat
      /\ crowd' \in Nat
  BY ConstantsAssumption DEF TypeOK, Flush
<1>2. r \in Pending /\ older \subseteq 1..(r - 1)
  BY <1>1 DEF Pending
<1>3. Cardinality(older) <= r - 1 /\ Cardinality(older) \in Nat
  <2>1. r - 1 \in Nat /\ r \in Nat
    BY <1>1
  <2>2. IsFiniteSet(1..(r - 1)) /\ Cardinality(1..(r - 1)) = r - 1
    BY <2>1, IntervalSize
  <2> QED BY <1>2, <2>2, FS_Subset, FS_CardinalityType
<1>4. Cardinality(older) < BatchLimit - crowd'
  BY <1>1, <1>3
<1> QED BY <1>2, <1>4 DEF Flush

\* What an event of the run does to the topic's part of the invariant: nothing.
LEMMA EmissionKeeps ==
    ASSUME Inv, NEW type, NEW a, Appended(type, a), pc \notin After \cup {"dead"},
           pc' \notin {"flushing", "returned"}, UNCHANGED <<topic, artifact, served>>
    PROVE  LogInv' /\ FlushInv' /\ ArtifactInv'
<1>1. TypeOK /\ LogInv /\ ArtifactInv
  BY DEF Inv
<1>2. UNCHANGED <<log, excused, artifact, served>> /\ \A r \in DOMAIN events : events'[r] = events[r]
  BY DEF topic, Appended
<1>3. LogInv'
  BY <1>1, <1>2 DEF LogInv
<1>4. FlushInv'
  BY DEF FlushInv
<1>5. ArtifactInv'
  <2>1. Len(log) \in Nat
    BY <1>1 DEF TypeOK
  <2> QED BY <1>1, <1>2, <2>1, ArtifactKept
<1> QED BY <1>3, <1>4, <1>5

\* Each step of the run that has an event emits one.
LEMMA EmittingStep ==
    ASSUME Inv,
           \/ DecideEntry \/ Goto \/ Observe \/ Block \/ StepSucceeded \/ StepFailed \/ RunFailed
           \/ Decide \/ Act \/ (Finish /\ Emit("RunSucceeded"))
    PROVE  /\ pc \notin After \cup {"dead"} /\ pc' \notin {"flushing", "returned"}
           /\ UNCHANGED <<topic, artifact, served>>
           /\ \E type \in EventTypes : \E a : Appended(type, a)
<1> USE DEF Unmoved
<1>1. TypeOK
  BY DEF Inv
<1>2. CASE DecideEntry \/ Goto \/ Observe \/ Block \/ StepSucceeded \/ StepFailed \/ RunFailed
  <2>1. PICK type \in EventTypes : Emit(type) /\ UNCHANGED <<topic, artifact, served>>
    BY <1>2 DEF DecideEntry, Goto, Observe, Block, StepSucceeded, StepFailed, RunFailed, EventTypes
  <2>2. Appended(type, action)
    BY <1>1, <2>1, Emission DEF Emit, TypeOK
  <2>3. pc \notin After \cup {"dead"} /\ pc' \notin {"flushing", "returned"}
    BY <1>2 DEF DecideEntry, Goto, Observe, Block, StepSucceeded, StepFailed, RunFailed, After
  <2> QED BY <2>1, <2>2, <2>3
<1>3. CASE Decide
  <2>1. Appended("ActionDecided", action')
    BY <1>1, <1>3, Emission DEF Decide, TypeOK, EventTypes
  <2> QED BY <1>3, <2>1 DEF Decide, After, EventTypes
<1>4. CASE Act
  <2>1. result'.used \in Locator \cup {NoLocator}
    BY <1>1, <1>4, ActionFact DEF Act, TypeOK, Results
  <2>2. Appended("ActionExecuted", action)
    BY <1>1, <1>4, <2>1, Emission DEF Act, TypeOK, EventTypes
  <2> QED BY <1>4, <2>2 DEF Act, After, EventTypes
<1>5. CASE Finish /\ Emit("RunSucceeded")
  <2>1. Appended("RunSucceeded", action)
    BY <1>1, <1>5, Emission DEF Finish, Emit, TypeOK, EventTypes
  <2> QED BY <1>5, <2>1 DEF Finish, After, EventTypes
<1> QED BY <1>2, <1>3, <1>4, <1>5

LEMMA TopicStep == Inv /\ [Next]_vars => LogInv' /\ FlushInv' /\ ArtifactInv'
<1> SUFFICES ASSUME Inv, [Next]_vars PROVE LogInv' /\ FlushInv' /\ ArtifactInv'
  OBVIOUS
<1> USE DEF Unmoved
<1>1. TypeOK /\ LogInv /\ FlushInv /\ ArtifactInv /\ Len(log) \in Nat
  BY DEF Inv, TypeOK
<1>2. CASE \/ DecideEntry \/ Goto \/ Observe \/ Block \/ StepSucceeded \/ StepFailed \/ RunFailed
           \/ Decide \/ Act \/ (Finish /\ Emit("RunSucceeded"))
  BY <1>2, EmittingStep, EmissionKeeps
\* Nothing but pc and due changes, or nothing at all.
<1>3. CASE \/ Exhausted \/ (Finish /\ UNCHANGED events) \/ Flush \/ Return \/ Die
           \/ Gate \/ PageMoves \/ UNCHANGED vars
  <2>1. UNCHANGED <<events, log, excused, artifact, served>>
    BY <1>3 DEF Gate, PageMoves, Exhausted, Finish, Flush, Return, Die, vars, topic
  <2>2. LogInv' /\ ArtifactInv'
    BY <1>1, <2>1, ArtifactKept DEF LogInv
  <2>3. FlushInv'
    <3>1. CASE Flush
      BY <1>1, <3>1, <2>1, FlushAll DEF FlushInv, Flush
    <3>2. CASE Return
      BY <1>1, <3>2, <2>1 DEF FlushInv, Return, topic
    <3>3. CASE Gate \/ Exhausted \/ (Finish /\ UNCHANGED events) \/ Die
      BY <3>3 DEF FlushInv, Gate, Exhausted, Finish, Die
    <3>5. CASE PageMoves
      BY <3>5 DEF FlushInv, PageMoves
    <3>4. CASE UNCHANGED vars
      BY <1>1, <3>4 DEF FlushInv, vars, run, topic
    <3> QED BY <1>3, <3>1, <3>2, <3>3, <3>4, <3>5
  <2> QED BY <2>2, <2>3
<1>4. ASSUME NEW r \in Row, Deliver(r) PROVE LogInv' /\ FlushInv' /\ ArtifactInv'
  <2>1. LogInv'
    BY <1>4, DeliverLog
  <2>2. FlushInv'
    BY <1>1, <1>4, DeliverFact DEF FlushInv, run
  <2>3. ArtifactInv'
    BY <1>1, <1>4, DeliverFact, ArtifactKept
  <2> QED BY <2>1, <2>2, <2>3
<1>5. ASSUME NEW r \in Row, DeliveryFails(r) PROVE LogInv' /\ FlushInv' /\ ArtifactInv'
  <2>1. /\ excused' = excused \cup {r}
        /\ UNCHANGED <<run, events, log, room, due, crowd, artifact, served>>
    BY <1>5, DeliveryFailsFact
  <2>2. LogInv'
    BY <1>1, <2>1 DEF LogInv
  <2>3. FlushInv'
    BY <1>1, <2>1 DEF FlushInv, run
  <2>4. ArtifactInv'
    BY <1>1, <2>1, ArtifactKept
  <2> QED BY <2>2, <2>3, <2>4
<1>6. CASE CompileCapability \/ ResolveForTenant
  <2>1. UNCHANGED <<run, events, topic>>
    BY <1>6 DEF CompileCapability, ResolveForTenant
  <2>2. LogInv' /\ FlushInv'
    BY <1>1, <2>1 DEF LogInv, FlushInv, run, topic
  <2>3. \A n \in 0..Len(log) : First(n)' = First(n)
    BY <2>1 DEF First, topic
  <2>4. CASE CompileCapability
    <3> DEFINE n == IF room < Len(log) THEN room ELSE Len(log)
    <3>1. n \in 0..Len(log)
      BY <1>1, ConstantsAssumption DEF TypeOK
    <3>2. Compilable(First(n)) /\ artifact' = Compile(First(n)) /\ served' = served
      BY <2>4 DEF CompileCapability, Fetched
    <3> HIDE DEF n
    <3>3. log' = log
      BY <2>1 DEF topic
    <3> QED BY <1>1, <2>2, <2>3, <3>1, <3>2, <3>3 DEF ArtifactInv
  <2>5. CASE ResolveForTenant
    <3>1. PICK n \in 0..Len(log) : Compilable(First(n)) /\ artifact = Compile(First(n))
      BY <1>1, <2>5 DEF ResolveForTenant, ArtifactInv
    <3>2. served' = Resolve(Compile(First(n)), Overlay) /\ artifact' = artifact /\ log' = log
      BY <2>1, <2>5, <3>1 DEF ResolveForTenant, topic
    <3>3. DOMAIN served'.checkpoints \subseteq DOMAIN served'.steps
      BY <3>2, ResolvedHasSteps
    <3> QED BY <2>2, <2>3, <3>1, <3>2, <3>3 DEF ArtifactInv
  <2> QED BY <1>6, <2>4, <2>5
<1>7. Finish => (Finish /\ UNCHANGED events) \/ (Finish /\ Emit("RunSucceeded"))
  BY DEF Finish
<1>8. CASE Execute
  BY <1>2, <1>3, <1>7, <1>8 DEF Execute
<1>9. CASE \E r \in Row : Deliver(r) \/ DeliveryFails(r)
  BY <1>4, <1>5, <1>9
<1> QED BY <1>3, <1>6, <1>8, <1>9 DEF Next

-----------------------------------------------------------------------------
LEMMA InitInv == Init => Inv
<1> SUFFICES ASSUME Init PROVE Inv
  OBVIOUS
<1>1. MaxSteps \in Nat /\ MaxSteps >= 1
  BY ConstantsAssumption
<1>2. events = <<>> /\ log = <<>> /\ DOMAIN events = {} /\ Len(events) = 0 /\ DOMAIN log = {}
      /\ Len(log) = 0
  BY DEF Init
<1>3. (\A t : Emitted(t) = {} /\ StepsOf(t) = {}) /\ ToSet(log) = {}
  BY <1>2 DEF Emitted, StepsOf, ToSet
<1>4. TypeOK
  <2>1. Len(events) <= MaxRows
    BY <1>1, <1>2 DEF MaxRows
  <2> QED BY <1>1, <1>2, <2>1, ConstantsAssumption DEF Init, Pages, TypeOK
<1>5. RunInv
  BY <1>1, <1>2, <1>3
  DEF Init, RunInv, LengthInv, StepInv, OncePerStep, DecidedInv, EndInv, After, Before, Ends, Stops
<1>6. LogInv
  BY <1>2, <1>3, FS_EmptySet DEF LogInv
<1>7. FlushInv /\ ArtifactInv
  BY <1>1 DEF Init, FlushInv, ArtifactInv
<1> QED BY <1>4, <1>5, <1>6, <1>7 DEF Inv

LEMMA NextInv == Inv /\ [Next]_vars => Inv'
<1> SUFFICES ASSUME Inv, [Next]_vars PROVE RunInv'
  BY TypeStep, TopicStep DEF Inv
<1> USE DEF Unmoved
<1>1. CASE \/ DecideEntry \/ Goto \/ Observe \/ Decide \/ Block \/ Finish \/ Act
           \/ StepSucceeded \/ StepFailed \/ RunFailed
  BY <1>1, DecideEntryRun, GotoRun, ObserveRun, DecideRun, BlockRun, FinishRun, ActRun,
     StepSucceededRun, StepFailedRun, RunFailedRun
<1>2. CASE Gate \/ Exhausted \/ Die \/ Flush \/ Return
  <2>1. UNCHANGED <<step, action, events>>
    BY <1>2 DEF Gate, Exhausted, Die, Flush, Return
  <2> QED BY <1>2, <2>1, SilentRun
<1>3. ASSUME NEW r \in Row, Deliver(r) \/ DeliveryFails(r) PROVE RunInv'
  <2>1. UNCHANGED <<pc, step, action, events>>
    BY <1>3 DEF Deliver, DeliveryFails, run
  <2> QED BY <2>1, SilentRun
<1>4. CASE PageMoves \/ CompileCapability \/ ResolveForTenant \/ UNCHANGED vars
  <2>1. UNCHANGED <<pc, step, action, events>>
    BY <1>4 DEF PageMoves, CompileCapability, ResolveForTenant, vars, run
  <2> QED BY <2>1, SilentRun
<1>5. CASE Execute
  BY <1>1, <1>2, <1>5 DEF Execute
<1> QED BY <1>2, <1>3, <1>4, <1>5 DEF Next

\* The run, its topic and what is compiled of it are, at any time, what the
\* named parts of Inv say, for every planner, page and dispatcher.
THEOREM Invariance == Spec => []Inv
BY InitInv, NextInv, PTL DEF Spec

\* Every variable has its type; no run takes more than MAX_STEPS steps, nor puts
\* more rows than those make into the outbox (loop.py:26, 99).
THEOREM TypeCorrect == Spec => []TypeOK
<1>1. Inv => TypeOK
  BY DEF Inv
<1> QED BY <1>1, Invariance, PTL

LEMMA InvTells == Inv => EventsTell
<1> SUFFICES ASSUME Inv PROVE EventsTell
  OBVIOUS
<1>1. TypeOK /\ StepInv /\ EndInv
  BY DEF Inv, RunInv
<1>2. ASSUME Emitted("RunSucceeded") # {}
      PROVE  StepsOf("ActionExecuted") = StepsOf("StepSucceeded") /\ Stops = {}
  <2>1. step \in Nat /\ step \notin StepsOf("ActionExecuted") /\ Stops = {}
    BY <1>1, <1>2, EmittedFact DEF EndInv
  <2>2. /\ 0..(step - 1) \subseteq StepsOf("ActionExecuted")
        /\ StepsOf("ActionExecuted") \subseteq 0..step
        /\ StepsOf("StepSucceeded") = 0..(step - 1)
    BY <1>1 DEF StepInv
  <2>3. 0..step \ {step} = 0..(step - 1)
    BY <2>1
  <2> QED BY <2>1, <2>2, <2>3
<1> QED BY <1>1, <1>2 DEF EventsTell, EndInv, Ends, Stops, After

\* What the events of a run say adds up: a run that has ended has one terminal
\* event, its last; a success has executed no step that did not succeed and was
\* not blocked; nothing is executed after a failure or a blocked action.
THEOREM EventsAddUp == Spec => []EventsTell
BY InvTells, Invariance, PTL

-----------------------------------------------------------------------------
\* What the compiler sees of a step is what the run has emitted of it.
LEMMA LastAtOnly ==
    ASSUME NEW f, NEW type, NEW i, NEW p \in Nat, At(f, type, i) = {p}
    PROVE  LastAt(f, type, i) = f[p]
<1>1. (CHOOSE q \in {p} : \A r \in {p} : r <= q) = p
  OBVIOUS
<1> QED BY <1>1 DEF LastAt

LEMMA FirstAt ==
    ASSUME Inv, NEW n \in 0..Len(log), NEW type \in {"ActionDecided", "ActionExecuted"}, NEW i,
           NEW p \in At(First(n), type, i)
    PROVE  /\ p \in 1..n /\ log[p] \in DOMAIN events
           /\ At(First(n), type, i) = {p} /\ At(events, type, i) = {log[p]}
           /\ LastAt(First(n), type, i) = LastAt(events, type, i)
<1>1. /\ Len(log) \in Nat /\ DOMAIN events = 1..Len(events)
      /\ \A q \in 1..n : q \in DOMAIN log /\ log[q] \in DOMAIN events
  BY DEF Inv, TypeOK
<1>2. DOMAIN First(n) = 1..n /\ \A q \in 1..n : First(n)[q] = events[log[q]]
  BY DEF First
<1>3. /\ \A q \in At(First(n), type, i) : q \in 1..n /\ log[q] \in At(events, type, i)
      /\ \A q, r \in At(events, type, i) : q = r
  <2>1. \A q \in At(First(n), type, i) : q \in 1..n /\ log[q] \in At(events, type, i)
    BY <1>1, <1>2 DEF At
  <2>2. OncePerStep
    BY DEF Inv, RunInv
  <2>3. \A q, r \in At(events, type, i) : q = r
    BY <2>2 DEF At, OncePerStep, Emitted
  <2> QED BY <2>1, <2>3
<1>4. At(events, type, i) = {log[p]}
  BY <1>3
<1>5. ASSUME NEW q \in At(First(n), type, i) PROVE q = p
  BY <1>1, <1>3 DEF Inv, LogInv
<1>6. At(First(n), type, i) = {p}
  BY <1>5
<1>7. p \in 1..n /\ log[p] \in DOMAIN events
  BY <1>1, <1>3
<1>8. p \in Nat /\ log[p] \in Nat
  BY <1>1, <1>7
<1>9. LastAt(First(n), type, i) = First(n)[p]
  BY <1>6, <1>8, LastAtOnly
<1>10. LastAt(events, type, i) = events[log[p]]
  <2> DEFINE r == log[p]
  <2>1. At(events, type, i) = {r} /\ r \in Nat
    BY <1>4, <1>8
  <2> HIDE DEF r
  <2>2. LastAt(events, type, i) = events[r]
    BY <2>1, LastAtOnly
  <2> QED BY <2>2 DEF r
<1> QED BY <1>2, <1>4, <1>6, <1>7, <1>9, <1>10

\* A topic that has RunSucceeded has all earlier rows, but those that failed.
LEMMA FirstHas ==
    ASSUME Inv, NEW n \in 0..Len(log), Compilable(First(n))
    PROVE  /\ Emitted("RunSucceeded") # {}
           /\ \A r \in DOMAIN events \ excused : \E p \in 1..n : log[p] = r
<1>1. /\ Len(log) \in Nat /\ Len(events) \in Nat /\ DOMAIN events = 1..Len(events)
      /\ \A q \in 1..n : q \in DOMAIN log /\ log[q] \in DOMAIN events
  BY DEF Inv, TypeOK
<1>2. PICK e \in 1..n : events[log[e]].type = "RunSucceeded"
  BY DEF Compilable, First
<1>3. log[e] \in Emitted("RunSucceeded")
  BY <1>1, <1>2 DEF Emitted
<1>4. log[e] = Len(events)
  BY <1>3 DEF Inv, RunInv, EndInv, Ends
<1>5. ASSUME NEW r \in DOMAIN events \ excused PROVE \E p \in 1..n : log[p] = r
  <2>1. CASE r = log[e]
    BY <2>1
  <2>2. CASE r # log[e]
    <3>1. r \in 1..(log[e] - 1) /\ e \in DOMAIN log
      BY <1>1, <1>4, <2>2
    <3>2. \E q \in 1..(e - 1) : log[q] = r
      BY <3>1 DEF Inv, LogInv
    <3> QED BY <3>2
  <2> QED BY <2>1, <2>2
<1> QED BY <1>3, <1>5

\* The steps of an artifact: those that the run executed with success.
LEMMA CompiledSteps ==
    ASSUME Inv, NEW n \in 0..Len(log), Compilable(First(n))
    PROVE  /\ ReplayableSteps(First(n)) \subseteq Replayable
           /\ \A i \in Replayable \ ReplayableSteps(First(n)) :
                 At(events, "ActionDecided", i) # {} /\ At(events, "ActionDecided", i) \subseteq excused
<1>1. /\ step \in Nat /\ StepInv /\ DecidedInv /\ Emitted("RunSucceeded") # {}
      /\ n \in Nat /\ DOMAIN First(n) = 1..n /\ \A p \in 1..n : First(n)[p] = events[log[p]]
  BY EmittedFact, FirstHas DEF Inv, RunInv, TypeOK, First
<1>2. ASSUME NEW i, At(First(n), "ActionDecided", i) # {}
      PROVE  /\ i \in DecidedSteps(First(n)) /\ DecidedAction(First(n), i) = DecidedAction(events, i)
             /\ i \in StepsOf("ActionDecided")
             /\ i = step => DecidedAction(events, i).type = "finish"
  <2>1. PICK p : p \in At(First(n), "ActionDecided", i)
    BY <1>2
  <2>2. /\ log[p] \in DOMAIN events /\ At(events, "ActionDecided", i) = {log[p]}
        /\ LastAt(First(n), "ActionDecided", i) = LastAt(events, "ActionDecided", i)
    BY <2>1, FirstAt
  <2>3. i \in DecidedSteps(First(n))
    BY <2>1 DEF At, DecidedSteps
  <2>4. log[p] \in Emitted("ActionDecided") /\ events[log[p]].step = i
    BY <2>2 DEF At, Emitted
  <2>5. LastAt(events, "ActionDecided", i) = events[log[p]]
    <3>1. log[p] \in Nat
      BY <2>2, EmittedFact DEF Inv
    <3> QED BY <2>2, <3>1, LastAtOnly
  <2>6. i = step => events[log[p]].action.type = "finish"
    BY <1>1, <2>4 DEF DecidedInv
  <2> QED BY <2>2, <2>3, <2>4, <2>5, <2>6 DEF DecidedAction, StepsOf
<1>3. ASSUME NEW i \in ReplayableSteps(First(n)) PROVE i \in Replayable
  <2>1. i \in DecidedSteps(First(n)) /\ DecidedAction(First(n), i).type # "finish"
    BY DEF ReplayableSteps
  <2>2. At(First(n), "ActionDecided", i) # {}
    BY <2>1 DEF DecidedSteps, At
  <2>3. i \in 0..step /\ i # step /\ DecidedAction(events, i).type # "finish"
    BY <1>1, <1>2, <2>1, <2>2 DEF StepInv
  <2> QED BY <1>1, <2>3 DEF Replayable, StepInv
<1>4. ASSUME NEW i \in Replayable, i \notin ReplayableSteps(First(n))
      PROVE  At(events, "ActionDecided", i) # {} /\ At(events, "ActionDecided", i) \subseteq excused
  <2>1. i \in StepsOf("ActionDecided") /\ DecidedAction(events, i).type # "finish"
    BY <1>1, <1>4 DEF Replayable, StepInv
  <2>2. At(events, "ActionDecided", i) # {}
    BY <2>1 DEF StepsOf, Emitted, At
  <2>3. ASSUME NEW r \in At(events, "ActionDecided", i), r \notin excused PROVE FALSE
    <3>1. r \in DOMAIN events \ excused
      BY <2>3 DEF At
    <3>2. PICK p \in 1..n : log[p] = r
      BY <3>1, FirstHas
    <3>3. p \in At(First(n), "ActionDecided", i)
      BY <1>1, <2>3, <3>2 DEF At
    <3> QED BY <1>2, <1>4, <2>1, <3>3 DEF ReplayableSteps
  <2> QED BY <2>2, <2>3
<1> QED BY <1>3, <1>4

\* The locator that worked is tried first, if the registry has heard of it.
LEMMA HeadOfChain ==
    ASSUME NEW f, NEW i, At(f, "ActionExecuted", i) # {},
           LastAt(f, "ActionExecuted", i).used # NoLocator
    PROVE  Head(Chain(f, i)) = LastAt(f, "ActionExecuted", i).used
<1> DEFINE u == LastAt(f, "ActionExecuted", i).used
           rest == Without(DecidedAction(f, i).candidates, u)
<1>1. Chain(f, i) = <<u>> \o rest
  BY DEF Chain
<1> HIDE DEF u, rest
<1>2. Head(<<u>> \o rest) = u
  OBVIOUS
<1> QED BY <1>1, <1>2 DEF u

LEMMA UsedFirst ==
    ASSUME Inv, NEW n \in 0..Len(log), Compilable(First(n)), NEW i \in Replayable,
           Used(i) # NoLocator, At(events, "ActionExecuted", i) \cap excused = {}
    PROVE  Head(Chain(First(n), i)) = Used(i)
<1>1. i \in StepsOf("ActionExecuted")
  BY DEF Inv, RunInv, StepInv, Replayable
<1>2. PICK r \in DOMAIN events : events[r].type = "ActionExecuted" /\ events[r].step = i
  BY <1>1 DEF StepsOf, Emitted
<1>3. r \notin excused
  BY <1>2 DEF At
<1>4. PICK p \in 1..n : log[p] = r
  BY <1>3, FirstHas
<1>5. p \in At(First(n), "ActionExecuted", i)
  BY <1>2, <1>4 DEF At, First
<1>6. LastAt(First(n), "ActionExecuted", i) = LastAt(events, "ActionExecuted", i)
  BY <1>5, FirstAt
<1> QED BY <1>5, <1>6, HeadOfChain DEF Used

LEMMA InvSound == Inv => CompiledSound
<1> SUFFICES ASSUME Inv, artifact # None PROVE CompiledSound
  BY DEF CompiledSound
<1>1. PICK n \in 0..Len(log) : Compilable(First(n)) /\ artifact = Compile(First(n))
  BY DEF Inv, ArtifactInv
<1> DEFINE f == First(n)
<1>2. /\ DOMAIN artifact.steps = ReplayableSteps(f)
      /\ \A i \in ReplayableSteps(f) : artifact.steps[i].strategy_chain = Chain(f, i)
  BY <1>1 DEF Compile, CompiledStep
<1>3. DOMAIN artifact.checkpoints \subseteq DOMAIN artifact.steps
  BY <1>1, ChecksHaveSteps
<1>4. served # None => DOMAIN served.checkpoints \subseteq DOMAIN served.steps
  BY DEF Inv, ArtifactInv
<1>5. /\ Emitted("RunSucceeded") # {}
      /\ ReplayableSteps(f) \subseteq Replayable
      /\ \A i \in Replayable \ ReplayableSteps(f) : At(events, "ActionDecided", i) \subseteq excused
  BY <1>1, FirstHas, CompiledSteps
<1>6. ASSUME NEW i \in ReplayableSteps(f),
             Used(i) # NoLocator /\ At(events, "ActionExecuted", i) \cap excused = {}
      PROVE  Head(artifact.steps[i].strategy_chain) = Used(i)
  BY <1>1, <1>2, <1>5, <1>6, UsedFirst
<1> HIDE DEF f
<1> QED BY <1>2, <1>3, <1>4, <1>5, <1>6 DEF CompiledSound

\* Whenever the registry compiles and whatever of the run's events it can read
\* by then, the artifact is of a run that succeeded and has only steps that
\* succeeded in it; a step is missing only if an append has failed; the locator
\* that worked, as its event has it, comes first; a checkpoint has its step, for
\* every tenant.
THEOREM ArtifactsSound == Spec => []CompiledSound
BY InvSound, Invariance, PTL

LEMMA InvComplete == Inv => CompiledComplete
<1> SUFFICES ASSUME Inv, pc = "returned", Emitted("RunSucceeded") # {}, excused = {},
                    Len(events) <= room, Len(events) + crowd <= BatchLimit
             PROVE  Compilable(Fetched) /\ DOMAIN Compile(Fetched).steps = Replayable
  BY DEF CompiledComplete
<1> DEFINE n == Len(log)
<1>1. /\ n \in Nat /\ Len(events) \in Nat /\ room \in Nat /\ DOMAIN events = 1..Len(events)
      /\ \A p \in 1..n : log[p] \in DOMAIN events /\ DOMAIN log = 1..n
  BY ConstantsAssumption DEF Inv, TypeOK
<1>2. DOMAIN events \subseteq ToSet(log)
  BY DEF Inv, FlushInv
<1>3. n <= Len(events)
  <2>1. ToSet(log) \subseteq 1..Len(events)
    BY <1>1 DEF ToSet
  <2>2. IsFiniteSet(1..Len(events)) /\ Cardinality(1..Len(events)) = Len(events)
    <3>1. Len(events) \in Nat
      BY <1>1
    <3> QED BY <3>1, IntervalSize
  <2>3. Cardinality(ToSet(log)) <= Len(events)
    BY <2>1, <2>2, FS_Subset
  <2> QED BY <2>3 DEF Inv, LogInv
<1>4. Fetched = First(n) /\ n \in 0..Len(log)
  BY <1>1, <1>3 DEF Fetched
<1>5. Compilable(First(n))
  <2>1. PICK r \in DOMAIN events : events[r].type = "RunSucceeded"
    BY DEF Emitted
  <2>2. PICK p \in DOMAIN log : log[p] = r
    BY <1>2 DEF ToSet
  <2> QED BY <1>1, <2>1, <2>2 DEF Compilable, First
<1>6. ReplayableSteps(First(n)) = Replayable
  BY <1>4, <1>5, CompiledSteps
<1>7. DOMAIN Compile(First(n)).steps = ReplayableSteps(First(n))
  BY DEF Compile
<1> QED BY <1>4, <1>5, <1>6, <1>7

\* A run that has returned as a success can be compiled at once and with all its
\* steps, if no append has failed, its last dispatch_once had room for its events
\* beside those of other runs, and the fetch reaches them.
THEOREM ArtifactsComplete == Spec => []CompiledComplete
BY InvComplete, Invariance, PTL
=============================================================================
