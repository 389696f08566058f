-------------------------- MODULE Projector_proofs --------------------------
(***************************************************************************)
(* Proofs about Projector for any runs, versions, batch size and number of *)
(* exceptions, crashes and late commits: nothing behind a committed offset *)
(* is missing from the read model, and the counter of hard failures never  *)
(* makes a version look better than its replays.                           *)
(***************************************************************************)
EXTENDS Projector, FiniteSetTheorems, TLAPS

LEMMA TopicsInTopic == \A i \in 1..3 : Topics[i] \in Topic
BY DEF Topic

LEMMA InitInv == Init => Inv
<1> SUFFICES ASSUME Init PROVE Inv
  OBVIOUS
<1> USE ConstantsAssumption DEF Init
<1>1. TypeOK
  <2>1. log \in [Topic -> Seq(Event)] /\ offset \in [Topic -> Nat]
    OBVIOUS
  <2>2. /\ runs \in [Run -> Row \cup {NoRun}]
        /\ failures \in [Version -> 0..MaxCount] /\ validated \in [Version -> BOOLEAN]
    OBVIOUS
  <2> QED BY <2>1, <2>2 DEF TypeOK
<1>2. NothingSkipped
  BY DEF NothingSkipped
<1>3. EndsOnce
  BY DEF EndsOnce
<1>4. LateProjected
  BY DEF LateProjected
<1>5. StageReached
  BY DEF StageReached, InBatch
<1> QED BY <1>1, <1>2, <1>3, <1>4, <1>5 DEF Inv

\* The log only grows: what it has keeps its place.
LEMMA PublishKeeps ==
    ASSUME TypeOK, NEW t \in Topic, NEW e \in Event, log' = [log EXCEPT ![t] = Append(@, e)]
    PROVE  /\ log' \in [Topic -> Seq(Event)]
           /\ \A u \in Topic : \A i \in DOMAIN log[u] :
                 i \in DOMAIN log'[u] /\ log'[u][i] = log[u][i]
           /\ \A u \in Topic : Len(log'[u]) >= Len(log[u])
           /\ \A u \in Topic : \A i \in DOMAIN log'[u] :
                 i \in DOMAIN log[u] \/ (u = t /\ log'[u][i] = e /\ i = Len(log[t]) + 1)
<1>1. log[t] \in Seq(Event) /\ log'[t] = Append(log[t], e)
  BY DEF TypeOK
<1>2. \A u \in Topic : u # t => log'[u] = log[u]
  BY DEF TypeOK
<1>3. \A u \in Topic : log[u] \in Seq(Event)
  BY DEF TypeOK
<1>4. log' \in [Topic -> Seq(Event)]
  BY DEF TypeOK
<1>5. \A i \in DOMAIN log[t] : i \in DOMAIN log'[t] /\ log'[t][i] = log[t][i]
  BY <1>1
<1>6. Len(log'[t]) = Len(log[t]) + 1
  BY <1>1
<1>7. \A i \in DOMAIN log'[t] :
          i \in DOMAIN log[t] \/ (log'[t][i] = e /\ i = Len(log[t]) + 1)
  BY <1>1
<1> QED BY <1>1, <1>2, <1>3, <1>4, <1>5, <1>6, <1>7

LEMMA EmitsEvents ==
    ASSUME NEW r \in Run, NEW m \in Emits(r)
    PROVE  m[1] \in Topic /\ m[2] \in Event /\ m[2].run = r /\ m = <<m[1], m[2]>>
<1> USE ConstantsAssumption
<1>1. /\ "discovery.events" \in Topic /\ "replay.events" \in Topic
      /\ "escalation.events" \in Topic
  BY TopicsInTopic DEF Topics
<1>2. CASE r \in DiscoveryRun
  BY <1>1, <1>2 DEF Emits, Event, Terminal, Other, StatusByEvent
<1>3. CASE r \notin DiscoveryRun
  <2>1. r \in ReplayRun /\ VersionOf[r] \in Version
    BY <1>3 DEF Run
  <2> QED BY <1>1, <1>3, <2>1 DEF Emits, Event, Terminal, Other, StatusByEvent
<1> QED BY <1>2, <1>3

\* What is projected stays so while log and timeline grow, rows of runs stay, and
\* their status is kept where a terminal event has set it.
LEMMA ProjectedStays ==
    ASSUME NEW t \in Topic, NEW i \in Nat, Projected(t, i),
           i \in DOMAIN log'[t], log'[t][i] = log[t][i],
           timeline \subseteq timeline',
           runs'[log[t][i].run] = runs[log[t][i].run]
    PROVE  Projected(t, i)'
BY DEF Projected

LEMMA PublishInv ==
    ASSUME Inv, NEW r \in Run, NEW m \in Emits(r), Publish(m[1], m[2])
    PROVE  Inv'
<1> DEFINE t == m[1]
           e == m[2]
<1> USE ConstantsAssumption DEF Inv
<1>1. t \in Topic /\ e \in Event /\ m = <<t, e>>
  BY EmitsEvents
<1>2. /\ log' = [log EXCEPT ![t] = Append(@, e)]
      /\ UNCHANGED <<offset, tables, thread, late, order, faults>>
      /\ \A u \in Topic : \A i \in DOMAIN log[u] :
             log[u][i].run = e.run => Agree(e, log[u][i])
  BY DEF Publish
<1>3. /\ log' \in [Topic -> Seq(Event)]
      /\ \A u \in Topic : \A i \in DOMAIN log[u] :
            i \in DOMAIN log'[u] /\ log'[u][i] = log[u][i]
      /\ \A u \in Topic : Len(log'[u]) >= Len(log[u])
      /\ \A u \in Topic : \A i \in DOMAIN log'[u] :
            i \in DOMAIN log[u] \/ (u = t /\ log'[u][i] = e /\ i = Len(log[t]) + 1)
  BY <1>1, <1>2, PublishKeeps
<1> HIDE DEF t, e
<1>4. TypeOK'
  BY <1>2, <1>3 DEF TypeOK, tables, thread
<1>5. ASSUME NEW u \in Topic, NEW i \in Nat, Projected(u, i) PROVE Projected(u, i)'
  BY <1>2, <1>3, <1>5 DEF Projected, tables
<1>6. NothingSkipped'
  <2>1. offset' = offset /\ \A u \in Topic : offset[u] \in Nat
    BY <1>2 DEF TypeOK
  <2> QED BY <2>1, <1>5 DEF NothingSkipped
<1>7. EndsOnce'
  <2> SUFFICES ASSUME NEW u \in Topic, NEW w \in Topic,
                      NEW i \in DOMAIN log'[u], NEW j \in DOMAIN log'[w],
                      log'[u][i].run = log'[w][j].run,
                      log'[u][i].type \in Terminal, log'[w][j].type \in Terminal
               PROVE  u = w /\ i = j
    BY DEF EndsOnce
  <2>1. CASE i \in DOMAIN log[u] /\ j \in DOMAIN log[w]
    BY <2>1, <1>3 DEF EndsOnce
  <2>2. CASE i \in DOMAIN log[u] /\ j \notin DOMAIN log[w]
    BY <2>2, <1>3, <1>2 DEF Agree
  <2>3. CASE i \notin DOMAIN log[u] /\ j \in DOMAIN log[w]
    BY <2>3, <1>3, <1>2 DEF Agree
  <2>4. CASE i \notin DOMAIN log[u] /\ j \notin DOMAIN log[w]
    BY <2>4, <1>3
  <2> QED BY <2>1, <2>2, <2>3, <2>4
<1>8. LateProjected'
  <2>1. late' = late /\ late \subseteq Topic \X Nat
    BY <1>2 DEF TypeOK
  <2> QED BY <2>1, <1>5 DEF LateProjected
<1>9. StageReached'
  <2> SUFFICES ASSUME InBatch PROVE StageReached'
    BY <1>2 DEF StageReached, InBatch, thread
  <2>1. /\ T' = T /\ T \in Topic /\ pc' = pc /\ at' = at /\ upto' = upto
        /\ runs' = runs /\ timeline' = timeline
    BY <1>2, TopicsInTopic DEF T, TypeOK, thread, tables
  <2>2. log[T] \in Seq(Event) /\ at \in 1..upto /\ upto <= Len(log[T]) /\ at \in Nat /\ upto \in Nat
    BY <2>1 DEF TypeOK, StageReached
  <2>3. at \in DOMAIN log[T] /\ Current' = Current
    BY <2>1, <2>2, <1>3 DEF Current
  <2>4. upto <= Len(log'[T])
    BY <2>1, <2>2, <1>3 DEF TypeOK
  <2>5. \A i \in 1..(at - 1) : Projected(T, i)'
    BY <2>1, <2>2, <1>5 DEF StageReached
  <2> QED BY <2>1, <2>2, <2>3, <2>4, <2>5 DEF StageReached, Counts
<1> QED BY <1>4, <1>6, <1>7, <1>8, <1>9

\* The event the thread is at.
LEMMA CurrentInLog ==
    ASSUME Inv, InBatch
    PROVE  /\ T \in Topic /\ log[T] \in Seq(Event)
           /\ at \in DOMAIN log[T] /\ at \in Nat /\ upto \in Nat /\ at \in 1..upto
           /\ upto <= Len(log[T])
           /\ Current \in Event /\ Current.run \in Run
<1>1. T \in Topic /\ at \in Nat /\ upto \in Nat /\ log[T] \in Seq(Event)
  BY TopicsInTopic DEF T, Inv, TypeOK
<1>2. at \in 1..upto /\ upto <= Len(log[T])
  BY DEF Inv, StageReached
<1>3. at \in DOMAIN log[T] /\ Current \in Event
  BY <1>1, <1>2 DEF Current
<1> QED BY <1>1, <1>2, <1>3 DEF Event

LEMMA FetchInv == ASSUME Inv, Fetch PROVE Inv'
<1> DEFINE last == IF Len(log[T]) < offset[T] + MaxBatch THEN Len(log[T]) ELSE offset[T] + MaxBatch
<1> USE ConstantsAssumption DEF Inv
<1>1. T \in Topic /\ log[T] \in Seq(Event) /\ offset[T] \in Nat /\ topic \in 1..3
  BY TopicsInTopic DEF T, TypeOK
<1>2. last \in Nat /\ last <= Len(log[T])
  BY <1>1
<1>3. UNCHANGED <<log, offset, tables, late, order, faults>>
  BY DEF Fetch
<1>4. CASE last > offset[T] /\ at' = offset[T] + 1 /\ upto' = last /\ pc' = "upsert" /\ topic' = topic
  <2> HIDE DEF last
  <2>1. TypeOK'
    BY <1>1, <1>2, <1>3, <1>4 DEF TypeOK, tables
  <2>2. NothingSkipped' /\ EndsOnce' /\ LateProjected'
    BY <1>3 DEF NothingSkipped, EndsOnce, LateProjected, Projected, tables
  <2>3. StageReached'
    <3>1. T' = T
      BY <1>4 DEF T
    <3>2. \A i \in 1..offset[T] : Projected(T, i)
      BY <1>1 DEF NothingSkipped
    <3>3. \A i \in 1..(at' - 1) : Projected(T, i)'
      BY <3>1, <3>2, <1>1, <1>3, <1>4 DEF Projected, tables
    <3>4. at' \in 1..upto' /\ upto' <= Len(log'[T])
      BY <1>1, <1>2, <1>3, <1>4
    <3> QED BY <3>1, <3>3, <3>4, <1>4 DEF StageReached, InBatch
  <2> QED BY <2>1, <2>2, <2>3
<1>5. CASE topic' = NextTopic(topic) /\ UNCHANGED <<pc, at, upto>> /\ pc = "fetch"
  <2>1. topic' \in 1..3
    BY <1>1, <1>5 DEF NextTopic
  <2>2. TypeOK'
    BY <2>1, <1>3, <1>5 DEF TypeOK, tables
  <2>3. NothingSkipped' /\ EndsOnce' /\ LateProjected'
    BY <1>3 DEF NothingSkipped, EndsOnce, LateProjected, Projected, tables
  <2>4. StageReached'
    BY <1>5 DEF StageReached, InBatch
  <2> QED BY <2>2, <2>3, <2>4
<1> QED BY <1>4, <1>5 DEF Fetch

LEMMA UpsertRunInv == ASSUME Inv, UpsertRun PROVE Inv'
<1> USE ConstantsAssumption DEF Inv
<1>1. InBatch /\ pc = "upsert" /\ pc' = "append"
  BY DEF UpsertRun, InBatch
<1>2. /\ T \in Topic /\ Current \in Event /\ Current.run \in Run
  BY <1>1, CurrentInLog
<1>3. UNCHANGED <<log, offset, timeline, failures, validated, topic, at, upto, late, order, faults>>
  BY DEF UpsertRun
<1> DEFINE row == [kind |-> KindByTopic[T], named |-> NamesCapability(Current),
                   status |-> "IN_PROGRESS"]
<1>4. row \in Row
  BY <1>2 DEF Row, KindByTopic, NamesCapability
<1>5. runs' = [runs EXCEPT ![Current.run] = IF @ # NoRun THEN @ ELSE row]
  BY DEF UpsertRun
<1> HIDE DEF row
<1>6. /\ runs' \in [Run -> Row \cup {NoRun}]
      /\ runs'[Current.run] # NoRun
      /\ \A r \in Run : runs[r] # NoRun => runs'[r] = runs[r]
  BY <1>2, <1>4, <1>5 DEF TypeOK
<1>7. TypeOK'
  BY <1>1, <1>3, <1>6 DEF TypeOK
<1>8. ASSUME NEW u \in Topic, NEW i \in Nat, Projected(u, i) PROVE Projected(u, i)'
  <2>1. log[u] \in Seq(Event) /\ i \in DOMAIN log[u]
    BY <1>8 DEF Projected, TypeOK
  <2>2. log[u][i].run \in Run
    <3>1. log[u][i] \in Event
      BY <2>1
    <3> QED BY <3>1 DEF Event
  <2> QED BY <2>2, <1>3, <1>6, <1>8 DEF Projected
<1>9. NothingSkipped' /\ LateProjected'
  <2>1. offset' = offset /\ late' = late /\ late \subseteq Topic \X Nat
        /\ \A u \in Topic : offset[u] \in Nat
    BY <1>3 DEF TypeOK
  <2> QED BY <2>1, <1>8 DEF NothingSkipped, LateProjected
<1>10. EndsOnce'
  BY <1>3 DEF EndsOnce
<1>11. StageReached'
  <2>1. T' = T /\ at' = at /\ upto' = upto /\ Current' = Current /\ log' = log
    BY <1>3 DEF T, Current
  <2>2. at \in 1..upto /\ upto <= Len(log[T]) /\ at \in Nat
    BY <1>1, CurrentInLog
  <2>3. \A i \in 1..(at - 1) : Projected(T, i)'
    BY <1>1, <1>2, <1>8, <2>1, <2>2 DEF StageReached
  <2> QED BY <2>1, <2>2, <2>3, <1>1, <1>6 DEF StageReached
<1> QED BY <1>7, <1>9, <1>10, <1>11

LEMMA AppendRunEventInv == ASSUME Inv, AppendRunEvent PROVE Inv'
<1> USE ConstantsAssumption DEF Inv
<1>1. InBatch /\ pc = "append"
  BY DEF AppendRunEvent, InBatch
<1>2. T \in Topic /\ at \in Nat /\ Current \in Event
  BY <1>1, CurrentInLog
<1>3. UNCHANGED <<log, offset, runs, failures, validated, topic, at, upto, late, order, faults>>
  BY DEF AppendRunEvent
<1>4. /\ timeline' = timeline \cup {<<T, at>>}
      /\ pc' = IF Current.type \in Terminal THEN "status" ELSE "commit"
  BY DEF AppendRunEvent
<1>5. TypeOK'
  BY <1>2, <1>3, <1>4 DEF TypeOK
<1>6. ASSUME NEW u \in Topic, NEW i \in Nat, Projected(u, i) PROVE Projected(u, i)'
  BY <1>3, <1>4, <1>6 DEF Projected
<1>7. NothingSkipped' /\ LateProjected'
  <2>1. offset' = offset /\ late' = late /\ late \subseteq Topic \X Nat
        /\ \A u \in Topic : offset[u] \in Nat
    BY <1>3 DEF TypeOK
  <2> QED BY <2>1, <1>6 DEF NothingSkipped, LateProjected
<1>8. EndsOnce'
  BY <1>3 DEF EndsOnce
<1>9. StageReached'
  <2>1. T' = T /\ at' = at /\ upto' = upto /\ Current' = Current /\ log' = log /\ runs' = runs
    BY <1>3 DEF T, Current
  <2>2. at \in 1..upto /\ upto <= Len(log[T])
    BY <1>1, CurrentInLog
  <2>3. \A i \in 1..(at - 1) : Projected(T, i)'
    BY <1>1, <1>2, <1>6, <2>1, <2>2 DEF StageReached
  <2>4. runs[Current.run] # NoRun
    BY <1>1 DEF StageReached
  <2> QED BY <2>1, <2>2, <2>3, <2>4, <1>4 DEF StageReached
<1> QED BY <1>5, <1>7, <1>8, <1>9

LEMMA SetRunStatusInv == ASSUME Inv, SetRunStatus PROVE Inv'
<1> DEFINE r == Current.run
<1> USE ConstantsAssumption DEF Inv
<1>1. InBatch /\ pc = "status"
  BY DEF SetRunStatus, InBatch
<1>2. T \in Topic /\ at \in Nat /\ at \in DOMAIN log[T] /\ Current \in Event /\ r \in Run
  BY <1>1, CurrentInLog
<1>3. UNCHANGED <<log, offset, timeline, failures, validated, topic, at, upto, late, order, faults>>
  BY DEF SetRunStatus
<1>4. /\ runs' = [runs EXCEPT ![r].status = StatusByEvent[Current.type]]
      /\ pc' = IF Counts(Current) THEN "validate" ELSE "commit"
  BY DEF SetRunStatus
<1>5. Current.type \in Terminal /\ runs[r] # NoRun /\ <<T, at>> \in timeline
  BY <1>1 DEF StageReached
<1>6. StatusByEvent[Current.type] \in {"SUCCEEDED", "FAILED", "HARD_FAILURE"}
  BY <1>5 DEF Terminal, StatusByEvent
<1>7. runs[r] \in Row
  BY <1>2, <1>5 DEF TypeOK
<1> HIDE DEF r
<1>8. /\ runs' \in [Run -> Row \cup {NoRun}]
      /\ runs'[r] \in Row /\ runs'[r] # NoRun /\ runs'[r].status = StatusByEvent[Current.type]
      /\ \A s \in Run : s # r => runs'[s] = runs[s]
  BY <1>2, <1>4, <1>6, <1>7 DEF TypeOK, Row
<1>9. TypeOK'
  BY <1>3, <1>4, <1>8 DEF TypeOK
<1>10. ASSUME NEW u \in Topic, NEW i \in Nat, Projected(u, i) PROVE Projected(u, i)'
  <2>1. log[u] \in Seq(Event) /\ i \in DOMAIN log[u]
    BY <1>10 DEF Projected, TypeOK
  <2>2. log[u][i].run \in Run
    <3>1. log[u][i] \in Event
      BY <2>1
    <3> QED BY <3>1 DEF Event
  <2>3. CASE log[u][i].run # r
    BY <2>2, <2>3, <1>3, <1>8, <1>10 DEF Projected
  <2>4. CASE log[u][i].run = r /\ log[u][i].type \in Terminal
    <3>1. u = T /\ i = at
      BY <2>1, <2>4, <1>2, <1>5 DEF EndsOnce, Current, r
    <3> QED BY <3>1, <2>4, <1>3, <1>8, <1>10 DEF Projected, Current
  <2>5. CASE log[u][i].run = r /\ log[u][i].type \notin Terminal
    BY <2>5, <1>3, <1>8, <1>10 DEF Projected
  <2> QED BY <2>3, <2>4, <2>5
<1>11. NothingSkipped' /\ LateProjected'
  <2>1. offset' = offset /\ late' = late /\ late \subseteq Topic \X Nat
        /\ \A u \in Topic : offset[u] \in Nat
    BY <1>3 DEF TypeOK
  <2> QED BY <2>1, <1>10 DEF NothingSkipped, LateProjected
<1>12. EndsOnce'
  BY <1>3 DEF EndsOnce
<1>13. StageReached'
  <2>1. T' = T /\ at' = at /\ upto' = upto /\ Current' = Current /\ log' = log /\ timeline' = timeline
    BY <1>3 DEF T, Current
  <2>2. at \in 1..upto /\ upto <= Len(log[T])
    BY <1>1, CurrentInLog
  <2>3. \A i \in 1..(at - 1) : Projected(T, i)'
    BY <1>1, <1>2, <1>10, <2>1, <2>2 DEF StageReached
  <2> QED BY <2>1, <2>2, <2>3, <1>4, <1>5, <1>8 DEF StageReached, r
<1> QED BY <1>9, <1>11, <1>12, <1>13

LEMMA RecordValidationInv == ASSUME Inv, RecordValidation PROVE Inv'
<1> USE ConstantsAssumption DEF Inv
<1>1. InBatch /\ pc = "validate" /\ pc' = "commit"
  BY DEF RecordValidation, InBatch
<1>2. UNCHANGED <<log, offset, runs, timeline, topic, at, upto, late, order, faults>>
  BY DEF RecordValidation
<1>3. Current \in Event
  BY <1>1, CurrentInLog
<1>4. Current.version \in Version
  BY <1>1, <1>3 DEF StageReached, Counts, Event
<1>5. failures' \in [Version -> 0..MaxCount] /\ validated' \in [Version -> BOOLEAN]
  <2>1. /\ failures \in [Version -> 0..MaxCount] /\ validated \in [Version -> BOOLEAN]
        /\ \A v \in Version : OneMore(failures[v]) \in 0..MaxCount
        /\ 0 \in 0..MaxCount
    BY DEF TypeOK, OneMore
  <2>2. CASE Current.type = "ReplaySucceeded"
    BY <2>1, <2>2, <1>4 DEF RecordValidation
  <2>3. CASE Current.type # "ReplaySucceeded"
    BY <2>1, <2>3, <1>4 DEF RecordValidation
  <2> QED BY <2>2, <2>3
<1>6. TypeOK'
  BY <1>1, <1>2, <1>5 DEF TypeOK
<1>7. NothingSkipped' /\ EndsOnce' /\ LateProjected'
  BY <1>2 DEF NothingSkipped, EndsOnce, LateProjected, Projected
<1>8. StageReached'
  BY <1>1, <1>2 DEF StageReached, InBatch, Projected, T, Current
<1> QED BY <1>6, <1>7, <1>8

LEMMA CommitOffsetInv == ASSUME Inv, CommitOffset PROVE Inv'
<1> USE ConstantsAssumption DEF Inv
<1>1. InBatch /\ pc = "commit" /\ offset' = [offset EXCEPT ![T] = at]
  BY DEF CommitOffset, InBatch
<1>2. /\ T \in Topic /\ at \in Nat /\ upto \in Nat /\ at \in DOMAIN log[T] /\ at \in 1..upto
      /\ upto <= Len(log[T])
  BY <1>1, CurrentInLog
<1>3. UNCHANGED <<log, tables, late, order, faults>>
  BY DEF CommitOffset
<1>4. Projected(T, at)
  BY <1>1, <1>2 DEF StageReached, Projected, Current
<1>5. \A i \in 1..at : Projected(T, i)
  BY <1>1, <1>2, <1>4 DEF StageReached
<1>6. topic \in 1..3 /\ NextTopic(topic) \in 1..3
  BY DEF TypeOK, NextTopic
<1>7. \A u, i : Projected(u, i)' <=> Projected(u, i)
  BY <1>3 DEF Projected, tables
<1>8. TypeOK'
  BY <1>1, <1>2, <1>3, <1>6 DEF TypeOK, tables, CommitOffset
<1>9. NothingSkipped'
  BY <1>1, <1>2, <1>5, <1>7 DEF NothingSkipped, TypeOK
<1>10. EndsOnce' /\ LateProjected'
  BY <1>3, <1>7 DEF EndsOnce, LateProjected
<1>11. StageReached'
  <2>1. CASE at < upto
    <3>1. at' = at + 1 /\ pc' = "upsert" /\ topic' = topic /\ upto' = upto
      BY <2>1 DEF CommitOffset
    <3>2. T' = T
      BY <3>1 DEF T
    <3>3. at' \in 1..upto' /\ upto' <= Len(log'[T])
      BY <3>1, <2>1, <1>2, <1>3
    <3>4. \A i \in 1..(at' - 1) : Projected(T, i)'
      BY <3>1, <3>2, <1>2, <1>5, <1>7
    <3> QED BY <3>1, <3>2, <3>3, <3>4 DEF StageReached
  <2>2. CASE ~(at < upto)
    BY <2>2 DEF CommitOffset, StageReached, InBatch
  <2> QED BY <2>1, <2>2
<1> QED BY <1>8, <1>9, <1>10, <1>11

LEMMA DieInv == ASSUME Inv, Die PROVE Inv'
<1> USE ConstantsAssumption DEF Inv
<1>1. pc' = "dead" /\ UNCHANGED <<log, offset, tables, topic, at, upto, order>>
  BY DEF Die
<1>2. \A u, i : Projected(u, i)' <=> Projected(u, i)
  BY <1>1 DEF Projected, tables
<1>3. CASE late' = late
  <2>1. TypeOK'
    BY <1>1, <1>3 DEF TypeOK, Die, tables
  <2> QED BY <2>1, <1>1, <1>2, <1>3
         DEF NothingSkipped, EndsOnce, LateProjected, StageReached, InBatch
<1>4. CASE pc = "commit" /\ late' = late \cup {<<T, at>>}
  <2>1. InBatch
    BY <1>4 DEF InBatch
  <2>2. T \in Topic /\ at \in Nat /\ at \in DOMAIN log[T] /\ at \in 1..upto
    BY <2>1, CurrentInLog
  <2>3. TypeOK'
    BY <1>1, <1>4, <2>2 DEF TypeOK, Die, tables
  <2>4. Projected(T, at)
    BY <1>4, <2>1, <2>2 DEF StageReached, Projected, Current
  <2>5. \A i \in 1..at : Projected(T, i)
    BY <2>1, <2>2, <2>4 DEF StageReached
  <2>6. LateProjected'
    <3> SUFFICES ASSUME NEW m \in late', NEW i \in 1..m[2] PROVE Projected(m[1], i)
      BY <1>2 DEF LateProjected
    <3>1. CASE m \in late
      BY <3>1 DEF LateProjected
    <3>2. CASE m = <<T, at>>
      BY <3>2, <2>5
    <3> QED BY <3>1, <3>2, <1>4
  <2> QED BY <2>3, <2>6, <1>1, <1>2 DEF NothingSkipped, EndsOnce, StageReached, InBatch
<1> QED BY <1>3, <1>4 DEF Die

LEMMA LateCommitInv ==
    ASSUME Inv, NEW m \in late, LateCommit(m[1], m[2])
    PROVE  Inv'
<1> USE ConstantsAssumption DEF Inv
<1>1. m[1] \in Topic /\ m[2] \in Nat
  BY DEF TypeOK
<1>2. /\ offset' = [offset EXCEPT ![m[1]] = m[2]] /\ late' \subseteq late
      /\ UNCHANGED <<log, tables, thread, faults>>
  BY DEF LateCommit
<1>3. \A u, i : Projected(u, i)' <=> Projected(u, i)
  BY <1>2 DEF Projected, tables
<1>4. TypeOK'
  BY <1>1, <1>2 DEF TypeOK, tables, thread, LateCommit, Moved
<1>5. \A i \in 1..m[2] : Projected(m[1], i)
  BY DEF LateProjected
<1>6. NothingSkipped'
  BY <1>1, <1>2, <1>3, <1>5 DEF NothingSkipped, TypeOK
<1>7. EndsOnce' /\ LateProjected'
  BY <1>2, <1>3 DEF EndsOnce, LateProjected
<1>8. StageReached'
  BY <1>2, <1>3 DEF StageReached, InBatch, T, Current, thread, tables
<1> QED BY <1>4, <1>6, <1>7, <1>8

LEMMA RestartInv == ASSUME Inv, Restart PROVE Inv'
<1> USE ConstantsAssumption DEF Inv
<1>1. pc' = "fetch" /\ topic' = 1 /\ UNCHANGED <<log, offset, tables, at, upto, late, order, faults>>
  BY DEF Restart
<1>2. TypeOK'
  BY <1>1 DEF TypeOK, tables
<1> QED BY <1>1, <1>2
       DEF NothingSkipped, EndsOnce, LateProjected, StageReached, InBatch, Projected, tables

\* The inductive invariant holds in every reachable state.
THEOREM Invariance == SafeSpec => []Inv
<1>1. Inv /\ [Next]_vars => Inv'
  <2> SUFFICES ASSUME Inv, [Next]_vars PROVE Inv'
    OBVIOUS
  <2>1. CASE \E r \in Run : \E m \in Emits(r) : Publish(m[1], m[2])
    BY <2>1, PublishInv
  <2>2. CASE ProjectOnce
    BY <2>2, FetchInv, UpsertRunInv, AppendRunEventInv, SetRunStatusInv,
       RecordValidationInv, CommitOffsetInv DEF ProjectOnce
  <2>3. CASE Die
    BY <2>3, DieInv
  <2>4. CASE \E m \in late : LateCommit(m[1], m[2])
    BY <2>4, LateCommitInv
  <2>5. CASE Restart
    BY <2>5, RestartInv
  <2>6. CASE UNCHANGED vars
    BY <2>6 DEF vars, tables, thread, Inv, TypeOK, NothingSkipped, EndsOnce, LateProjected,
       StageReached, InBatch, Projected, T, Current
  <2> QED BY <2>1, <2>2, <2>3, <2>4, <2>5, <2>6 DEF Next
<1> QED BY InitInv, <1>1, PTL DEF SafeSpec

\* No event behind a committed offset is missing from the read model, for any
\* sequence of exceptions, crashes and commits that are acted on late.
THEOREM ReadModelComplete == SafeSpec => []NothingSkipped
<1>1. Inv => NothingSkipped
  BY DEF Inv
<1> QED BY Invariance, <1>1, PTL

-----------------------------------------------------------------------------
(* The counter of hard failures.                                           *)

LEMMA SmallSet ==
    ASSUME NEW n \in Nat, NEW S \in SUBSET (1..n)
    PROVE  IsFiniteSet(S) /\ Cardinality(S) \in Nat /\ Cardinality(S) <= n
<1>1. IsFiniteSet(1..n) /\ Cardinality(1..n) = n
  BY FS_Interval
<1> QED BY <1>1, FS_Subset, FS_CardinalityType

\* A part of a bounded set of events has no more events.
LEMMA SmallerSet ==
    ASSUME NEW n \in Nat, NEW S \in SUBSET (1..n), NEW U \in SUBSET S
    PROVE  Cardinality(U) <= Cardinality(S) /\ Cardinality(U) \in Nat
BY SmallSet, FS_Subset

LEMMA TrailingBounded ==
    ASSUME NEW s, NEW v, NEW n \in Nat, NEW p \in Nat
    PROVE  /\ Trailing(s, v, n) \cap (1..p) \in SUBSET (1..n)
           /\ Trailing(s, v, n) \in SUBSET (1..n)
BY DEF Trailing, Counted

\* What is good up to p is good up to every earlier event.
LEMMA GoodBefore ==
    ASSUME NEW s \in Seq(Event), NEW v, NEW p \in Nat, NEW q \in Nat, q <= p,
           NEW f \in Nat, NEW d, Good(s, v, p, f, d)
    PROVE  Good(s, v, q, f, d)
<1> DEFINE tr == Trailing(s, v, Len(s))
<1>1. Cardinality(tr \cap (1..q)) <= f
  <2>1. tr \cap (1..q) \in SUBSET (tr \cap (1..p))
    OBVIOUS
  <2>2. tr \cap (1..p) \in SUBSET (1..Len(s)) /\ Len(s) \in Nat
    BY TrailingBounded
  <2>3. /\ Cardinality(tr \cap (1..q)) <= Cardinality(tr \cap (1..p))
        /\ Cardinality(tr \cap (1..q)) \in Nat /\ Cardinality(tr \cap (1..p)) \in Nat
    BY <2>1, <2>2, SmallerSet, SmallSet
  <2>4. Cardinality(tr \cap (1..p)) <= f
    BY DEF Good
  <2> QED BY <2>3, <2>4
<1>2. 1..q \subseteq 1..p
  OBVIOUS
<1>3. Successes(s, v, q) \subseteq Successes(s, v, p)
  BY <1>2 DEF Successes, Counted
<1> QED BY <1>1, <1>2, <1>3 DEF Good

\* An event that does not count for v changes nothing.
LEMMA GoodAfterOther ==
    ASSUME NEW s \in Seq(Event), NEW v, NEW p \in 1..Len(s), p \notin Counted(s, v, Len(s)),
           NEW f, NEW d, Good(s, v, p - 1, f, d)
    PROVE  Good(s, v, p, f, d)
<1>1. Trailing(s, v, Len(s)) \cap (1..p) = Trailing(s, v, Len(s)) \cap (1..(p - 1))
  BY DEF Trailing
<1>2. Counted(s, v, Len(s)) \subseteq 1..p => Counted(s, v, Len(s)) \subseteq 1..(p - 1)
  OBVIOUS
<1>3. Successes(s, v, p) = Successes(s, v, p - 1)
  BY DEF Successes, Counted
<1> QED BY <1>1, <1>2, <1>3 DEF Good

\* A success resets the counter.
LEMMA GoodAfterSuccess ==
    ASSUME NEW s \in Seq(Event), NEW v, NEW p \in 1..Len(s), p \in Successes(s, v, Len(s))
    PROVE  Good(s, v, p, 0, TRUE)
<1>1. Trailing(s, v, Len(s)) \cap (1..p) = {}
  BY DEF Trailing, Successes, Counted
<1> QED BY <1>1, FS_EmptySet DEF Good

\* A hard failure is counted, whatever the counter was before.
LEMMA GoodAfterFailure ==
    ASSUME NEW s \in Seq(Event), Len(s) <= MaxCount, NEW v, NEW p \in 1..Len(s),
           p \in Counted(s, v, Len(s)), p \notin Successes(s, v, Len(s)),
           NEW f \in 0..MaxCount, NEW d, Good(s, v, p - 1, f, d)
    PROVE  Good(s, v, p, OneMore(f), d)
<1> DEFINE tr == Trailing(s, v, Len(s))
<1>1. Len(s) \in Nat /\ p \in Nat /\ p - 1 \in Nat /\ MaxCount \in Nat
  BY ConstantsAssumption
<1>2. Cardinality(tr \cap (1..p)) <= OneMore(f)
  <2> DEFINE old == tr \cap (1..(p - 1))
  <2>1. IsFiniteSet(old) /\ Cardinality(old) \in Nat
    BY <1>1, TrailingBounded, SmallSet
  <2>2. tr \cap (1..p) \in SUBSET (old \cup {p})
    OBVIOUS
  <2>3. Cardinality(tr \cap (1..p)) \in Nat /\ Cardinality(tr \cap (1..p)) <= Len(s)
    BY <1>1, TrailingBounded, SmallSet
  <2>4. Cardinality(old) <= f
    BY DEF Good
  <2> HIDE DEF old
  <2>5. IsFiniteSet(old \cup {p}) /\ Cardinality(old \cup {p}) \in Nat
    BY <2>1, FS_AddElement, FS_CardinalityType
  <2>6. Cardinality(old \cup {p}) <= Cardinality(old) + 1
    <3>1. Cardinality(old \cup {p}) = IF p \in old THEN Cardinality(old) ELSE Cardinality(old) + 1
      BY <2>1, FS_AddElement
    <3> QED BY <2>1, <3>1
  <2>7. Cardinality(tr \cap (1..p)) <= Cardinality(old \cup {p})
    BY <2>2, <2>5, FS_Subset
  <2> QED BY <1>1, <2>1, <2>3, <2>4, <2>5, <2>6, <2>7 DEF OneMore
<1>3. tr = {} /\ Counted(s, v, Len(s)) \subseteq 1..p => FALSE
  <2> SUFFICES ASSUME tr = {}, Counted(s, v, Len(s)) \subseteq 1..p PROVE FALSE
    OBVIOUS
  <2>1. PICK j \in Successes(s, v, Len(s)) : ~(j < p)
    BY DEF Trailing
  <2>2. j \in 1..p /\ j # p
    BY <2>1 DEF Successes
  <2> QED BY <2>1, <2>2
<1>4. Successes(s, v, p) = Successes(s, v, p - 1)
  BY <1>1 DEF Successes, Counted
<1> QED BY <1>2, <1>3, <1>4 DEF Good

\* A new event leaves good what is good up to an earlier one.
LEMMA GoodAppended ==
    ASSUME NEW s \in Seq(Event), NEW e \in Event, NEW v, NEW p \in Nat, p <= Len(s),
           NEW f \in Nat, NEW d, Good(s, v, p, f, d)
    PROVE  Good(Append(s, e), v, p, f, d)
<1> DEFINE w == Append(s, e)
           n == Len(s)
<1>1. n \in Nat /\ w \in Seq(Event) /\ Len(w) = n + 1 /\ w[n + 1] = e
      /\ \A i \in 1..n : w[i] = s[i]
  OBVIOUS
<1> HIDE DEF w
<1>2. /\ Counted(s, v, n) = Counted(w, v, n + 1) \cap (1..n)
      /\ Successes(s, v, n) = Successes(w, v, n + 1) \cap (1..n)
      /\ Successes(w, v, p) = Successes(s, v, p)
  BY <1>1 DEF Counted, Successes
<1>3. Trailing(w, v, n + 1) \cap (1..p) \subseteq Trailing(s, v, n) \cap (1..p)
  BY <1>1, <1>2 DEF Trailing
<1>4. Cardinality(Trailing(w, v, n + 1) \cap (1..p)) <= f
  <2>1. Cardinality(Trailing(s, v, n) \cap (1..p)) <= f
    BY DEF Good
  <2>2. /\ Trailing(s, v, n) \cap (1..p) \in SUBSET (1..n)
        /\ Cardinality(Trailing(s, v, n) \cap (1..p)) \in Nat
    BY <1>1, TrailingBounded, SmallSet
  <2>3. /\ Cardinality(Trailing(w, v, n + 1) \cap (1..p)) <= Cardinality(Trailing(s, v, n) \cap (1..p))
        /\ Cardinality(Trailing(w, v, n + 1) \cap (1..p)) \in Nat
    BY <1>1, <1>3, <2>2, SmallerSet
  <2> QED BY <2>1, <2>2, <2>3
<1>5. ASSUME Trailing(w, v, n + 1) = {}, Counted(w, v, n + 1) # {}, Counted(w, v, n + 1) \subseteq 1..p
      PROVE  f = 0
  <2>1. Counted(w, v, n + 1) = Counted(s, v, n) /\ Successes(w, v, n + 1) = Successes(s, v, n)
    BY <1>1, <1>2, <1>5 DEF Successes
  <2>2. Trailing(s, v, n) = {}
    BY <2>1, <1>5 DEF Trailing
  <2> QED BY <2>1, <2>2, <1>5 DEF Good
<1> QED BY <1>1, <1>2, <1>4, <1>5 DEF Good, w

\* What the next event makes of the last hard failures.
LEMMA TrailingNext ==
    ASSUME NEW s, NEW v, NEW p \in Nat \ {0}
    PROVE  /\ p \notin Counted(s, v, p) => Trailing(s, v, p) = Trailing(s, v, p - 1)
           /\ p \in Successes(s, v, p) => Trailing(s, v, p) = {}
           /\ p \in Counted(s, v, p) /\ p \notin Successes(s, v, p) =>
                 Cardinality(Trailing(s, v, p)) = Cardinality(Trailing(s, v, p - 1)) + 1
<1>1. /\ Counted(s, v, p - 1) = Counted(s, v, p) \cap (1..(p - 1))
      /\ Successes(s, v, p - 1) = Successes(s, v, p) \cap (1..(p - 1))
  BY DEF Counted, Successes
<1>2. Counted(s, v, p) \subseteq 1..p /\ Successes(s, v, p) \subseteq Counted(s, v, p)
  BY DEF Counted, Successes
<1>3. CASE p \notin Counted(s, v, p)
  <2>1. Counted(s, v, p - 1) = Counted(s, v, p) /\ Successes(s, v, p - 1) = Successes(s, v, p)
    BY <1>1, <1>2, <1>3
  <2> QED BY <2>1, <1>2, <1>3 DEF Trailing
<1>4. CASE p \in Successes(s, v, p)
  BY <1>2, <1>4 DEF Trailing
<1>5. CASE p \in Counted(s, v, p) /\ p \notin Successes(s, v, p)
  <2>1. Successes(s, v, p - 1) = Successes(s, v, p) /\ \A j \in Successes(s, v, p) : j < p
    BY <1>1, <1>2, <1>5
  <2>2. Trailing(s, v, p) = Trailing(s, v, p - 1) \cup {p} /\ p \notin Trailing(s, v, p - 1)
    BY <2>1, <1>1, <1>2, <1>5 DEF Trailing
  <2>3. IsFiniteSet(Trailing(s, v, p - 1))
    BY TrailingBounded, SmallSet, p - 1 \in Nat
  <2>4. Cardinality(Trailing(s, v, p - 1) \cup {p}) = Cardinality(Trailing(s, v, p - 1)) + 1
    BY <2>2, <2>3, FS_AddElement
  <2> QED BY <2>2, <2>4, <1>5
<1> QED BY <1>2, <1>3, <1>4, <1>5

LEMMA TrailingAppended ==
    ASSUME NEW s \in Seq(Event), NEW e \in Event, NEW v, NEW p \in Nat, p <= Len(s)
    PROVE  Trailing(Append(s, e), v, p) = Trailing(s, v, p)
<1>1. \A i \in 1..p : Append(s, e)[i] = s[i]
  OBVIOUS
<1> DEFINE w == Append(s, e)
<1> HIDE DEF w
<1>2. Counted(w, v, p) = Counted(s, v, p) /\ Successes(w, v, p) = Successes(s, v, p)
  BY <1>1 DEF Counted, Successes, w
<1> QED BY <1>2 DEF Trailing, w

LEMMA LenInNat == \A s \in Seq(Event) : Len(s) \in Nat
OBVIOUS

LEMMA LenAppended ==
    ASSUME NEW s \in Seq(Event), NEW e \in Event
    PROVE  Len(Append(s, e)) = Len(s) + 1
OBVIOUS

LEMMA Bounds ==
    ASSUME NEW a \in Nat, NEW b \in Nat, NEW c \in Nat
    PROVE  /\ a + b + c <= MaxEvents => b <= MaxCount
           /\ a + b + c < MaxEvents =>
                 a + 1 + b + c <= MaxEvents /\ a + (b + 1) + c <= MaxEvents /\ a + b + (c + 1) <= MaxEvents
<1>1. MaxEvents \in Nat /\ MaxCount \in Nat /\ MaxEvents <= MaxCount
  BY ConstantsAssumption
<1> QED BY <1>1

\* The events that the invariant speaks of are in the log.
LEMMA InLog ==
    ASSUME Inv, LogBounded
    PROVE  /\ "replay.events" \in Topic
           /\ Replays \in Seq(Event) /\ Len(Replays) \in Nat /\ Len(Replays) <= MaxCount
           /\ offset["replay.events"] \in Nat /\ offset["replay.events"] <= Len(Replays)
           /\ \A m \in late : m[1] = "replay.events" => m[2] \in Nat /\ m[2] <= Len(Replays)
           /\ AtReplay => at \in 1..Len(Replays) /\ Reached \in Nat /\ Reached <= Len(Replays)
           /\ AtReplay => Current = Replays[at]
           /\ failures \in [Version -> 0..MaxCount]
           /\ \A v \in Version : failures[v] \in Nat
<1>1. "replay.events" \in Topic /\ "discovery.events" \in Topic /\ "escalation.events" \in Topic
  BY TopicsInTopic DEF Topics
<1>2. Replays \in Seq(Event) /\ offset["replay.events"] \in Nat
  BY <1>1 DEF Inv, TypeOK, Replays
<1>3. Len(Replays) <= MaxCount
  <2>1. /\ Len(log["discovery.events"]) \in Nat /\ Len(log["escalation.events"]) \in Nat
        /\ Len(Replays) \in Nat
    <3>1. /\ log["discovery.events"] \in Seq(Event) /\ log["escalation.events"] \in Seq(Event)
      BY <1>1 DEF Inv, TypeOK
    <3> QED BY <1>2, <3>1, LenInNat
  <2> QED BY <2>1, Bounds DEF LogBounded
<1>4. \A i \in Nat \ {0} : Projected("replay.events", i) => i <= Len(Replays)
  BY <1>2 DEF Projected, Replays
<1>5. offset["replay.events"] <= Len(Replays)
  BY <1>1, <1>2, <1>4 DEF Inv, NothingSkipped
<1>6. \A m \in late : m[1] = "replay.events" => m[2] \in Nat /\ m[2] <= Len(Replays)
  <2> SUFFICES ASSUME NEW m \in late, m[1] = "replay.events"
               PROVE  m[2] \in Nat /\ m[2] <= Len(Replays)
    OBVIOUS
  <2>1. m[2] \in Nat
    BY DEF Inv, TypeOK
  <2>2. m[2] # 0 => Projected("replay.events", m[2])
    BY <2>1 DEF Inv, LateProjected
  <2> QED BY <1>2, <1>4, <2>1, <2>2
<1>7. AtReplay => at \in 1..Len(Replays) /\ Current = Replays[at]
  <2> SUFFICES ASSUME AtReplay PROVE at \in 1..Len(Replays) /\ Current = Replays[at]
    OBVIOUS
  <2>1. InBatch /\ T = "replay.events"
    BY DEF AtReplay
  <2> QED BY <2>1, <1>2, CurrentInLog DEF Current, Replays
<1>8. AtReplay => Reached \in Nat /\ Reached <= Len(Replays)
  BY <1>2, <1>7 DEF Reached
<1>9. failures \in [Version -> 0..MaxCount] /\ \A v \in Version : failures[v] \in Nat
  BY ConstantsAssumption DEF Inv, TypeOK
<1> QED BY <1>1, <1>2, <1>3, <1>5, <1>6, <1>7, <1>8, <1>9

LEMMA CountInitInv == Init => CountInv
<1> SUFFICES ASSUME Init PROVE CountInv
  OBVIOUS
<1>1. "replay.events" \in Topic /\ "discovery.events" \in Topic /\ "escalation.events" \in Topic
  BY TopicsInTopic DEF Topics
<1>2. Replays = <<>> /\ offset["replay.events"] = 0 /\ late = {} /\ ~InBatch /\ pc # "dead"
      /\ order = "kept"
  BY <1>1 DEF Init, Replays, InBatch
<1>3. LogBounded
  BY <1>1, <1>2, ConstantsAssumption DEF Init, LogBounded
<1>4. \A v : Counted(<<>>, v, 0) = {} /\ Successes(<<>>, v, 0) = {} /\ Trailing(<<>>, v, 0) = {}
  BY DEF Counted, Successes, Trailing
<1>5. \A v \in Version : Good(<<>>, v, 0, 0, FALSE)
  BY <1>4, FS_EmptySet DEF Good
<1>6. ColumnsGood
  BY <1>2, <1>5 DEF Init, ColumnsGood, AtReplay
<1>7. OffsetNear
  BY <1>2 DEF OffsetNear, AtReplay
<1>8. ExactWithoutFaults
  BY <1>2, <1>4, FS_EmptySet DEF Init, ExactWithoutFaults, AtReplay
<1> QED BY <1>3, <1>6, <1>7, <1>8 DEF CountInv

LEMMA CountPublish ==
    ASSUME Inv, CountInv, NEW r \in Run, NEW m \in Emits(r), Publish(m[1], m[2])
    PROVE  CountInv'
<1> DEFINE t == m[1]
           e == m[2]
<1>1. t \in Topic /\ e \in Event /\ m \in Emits(r)
  BY EmitsEvents
<1>2. /\ log' = [log EXCEPT ![t] = Append(@, e)]
      /\ UNCHANGED <<offset, tables, thread, late, order, faults>>
      /\ Len(log["discovery.events"]) + Len(log["replay.events"]) + Len(log["escalation.events"]) < MaxEvents
  BY DEF Publish, Topics
<1>3. LogBounded
  BY DEF CountInv
<1>4. Counts(e) => t = "replay.events"
  BY ConstantsAssumption DEF Emits, Counts, Validating
<1>5. \A u \in Topic : log[u] \in Seq(Event)
  BY DEF Inv, TypeOK
<1> HIDE DEF t, e
<1>6. Replays' = Replays \/ Replays' = Append(Replays, e)
  BY <1>1, <1>2, InLog, <1>3 DEF Replays, Inv, TypeOK
<1>7. LogBounded'
  <2>1. \A u \in Topic : log'[u] = IF u = t THEN Append(log[u], e) ELSE log[u]
    BY <1>1, <1>2 DEF Inv, TypeOK
  <2>2. "replay.events" \in Topic /\ "discovery.events" \in Topic /\ "escalation.events" \in Topic
    BY TopicsInTopic DEF Topics
  <2>3. \A u \in Topic : Len(log[u]) \in Nat /\ Len(log'[u]) = IF u = t THEN Len(log[u]) + 1 ELSE Len(log[u])
    BY <1>1, <1>5, <2>1, LenInNat, LenAppended
  <2>4. Len(log'["discovery.events"]) + Len(log'["replay.events"]) + Len(log'["escalation.events"]) <= MaxEvents
    <3>1. t = "discovery.events" \/ t = "replay.events" \/ t = "escalation.events"
      BY <1>1 DEF Topic, Topics
    <3>2. CASE t = "discovery.events"
      <4>1. /\ Len(log'["discovery.events"]) = Len(log["discovery.events"]) + 1
            /\ Len(log'["replay.events"]) = Len(log["replay.events"])
            /\ Len(log'["escalation.events"]) = Len(log["escalation.events"])
        BY <3>2, <2>2, <2>3
      <4> QED BY <4>1, <1>2, <2>2, <2>3, Bounds
    <3>3. CASE t = "replay.events"
      <4>1. /\ Len(log'["discovery.events"]) = Len(log["discovery.events"])
            /\ Len(log'["replay.events"]) = Len(log["replay.events"]) + 1
            /\ Len(log'["escalation.events"]) = Len(log["escalation.events"])
        BY <3>3, <2>2, <2>3
      <4> QED BY <4>1, <1>2, <2>2, <2>3, Bounds
    <3>4. CASE t = "escalation.events"
      <4>1. /\ Len(log'["discovery.events"]) = Len(log["discovery.events"])
            /\ Len(log'["replay.events"]) = Len(log["replay.events"])
            /\ Len(log'["escalation.events"]) = Len(log["escalation.events"]) + 1
        BY <3>4, <2>2, <2>3
      <4> QED BY <4>1, <1>2, <2>2, <2>3, Bounds
    <3> QED BY <3>1, <3>2, <3>3, <3>4
  <2>5. ASSUME NEW u \in Topic, NEW i \in DOMAIN log'[u], Counts(log'[u][i]) PROVE u = "replay.events"
    <3>1. CASE u # t
      BY <3>1, <2>1, <2>5, <1>3 DEF LogBounded
    <3>2. CASE u = t
      <4>1. log'[u] = Append(log[u], e) /\ log[u] \in Seq(Event)
        BY <2>1, <3>2, <1>5
      <4>2. log'[u][i] = e \/ (i \in DOMAIN log[u] /\ log'[u][i] = log[u][i])
        BY <4>1, <1>1
      <4> QED BY <4>2, <2>5, <3>2, <1>3, <1>4 DEF LogBounded
    <3> QED BY <3>1, <3>2
  <2> QED BY <2>4, <2>5 DEF LogBounded, Replays
<1>8. /\ offset' = offset /\ failures' = failures /\ validated' = validated
      /\ late' = late /\ order' = order /\ faults' = faults /\ pc' = pc /\ at' = at
      /\ (AtReplay' <=> AtReplay) /\ Reached' = Reached
  BY <1>2 DEF tables, thread, AtReplay, InBatch, T, Reached
<1>9. ASSUME NEW v \in Version, NEW p \in Nat, p <= Len(Replays),
             Good(Replays, v, p, failures[v], validated[v])
      PROVE  Good(Replays', v, p, failures[v], validated[v])
  BY <1>1, <1>3, <1>6, <1>9, InLog, GoodAppended
<1>10. ASSUME NEW v \in Version, NEW p \in Nat, p <= Len(Replays)
       PROVE  Trailing(Replays', v, p) = Trailing(Replays, v, p)
  <2>1. Replays \in Seq(Event)
    BY <1>3, InLog
  <2>2. Trailing(Append(Replays, e), v, p) = Trailing(Replays, v, p)
    BY <1>1, <1>10, <2>1, TrailingAppended
  <2> QED BY <1>6, <2>2
<1>11. ColumnsGood'
  BY <1>3, <1>8, <1>9, InLog DEF CountInv, ColumnsGood
<1>12. OffsetNear'
  BY <1>8 DEF CountInv, OffsetNear
<1>13. ExactWithoutFaults'
  BY <1>3, <1>8, <1>10, InLog DEF CountInv, ExactWithoutFaults
<1> QED BY <1>7, <1>11, <1>12, <1>13 DEF CountInv

LEMMA CountFetch == ASSUME Inv, CountInv, Fetch PROVE CountInv'
<1>1. LogBounded
  BY DEF CountInv
<1>2. /\ UNCHANGED <<log, offset, tables, late, order, faults>>
      /\ Replays' = Replays /\ failures' = failures /\ validated' = validated
      /\ pc = "fetch" /\ ~AtReplay /\ T \in Topic /\ offset[T] \in Nat
  BY TopicsInTopic DEF Fetch, tables, Replays, AtReplay, InBatch, T, Inv, TypeOK
<1>3. LogBounded'
  BY <1>1, <1>2 DEF LogBounded
<1>4. CASE pc' = "upsert" /\ topic' = topic /\ at' = offset[T] + 1
  <2>1. /\ AtReplay' => T = "replay.events" /\ at' = offset["replay.events"] + 1
        /\ T = "replay.events" => AtReplay'
        /\ Reached' = at' - 1 /\ pc' # "dead"
    BY <1>4 DEF AtReplay, InBatch, T, Reached
  <2>2. AtReplay' => Reached' = offset["replay.events"]
    BY <1>2, <2>1
  <2>3. ColumnsGood'
    BY <1>2, <2>2 DEF CountInv, ColumnsGood
  <2>4. OffsetNear'
    BY <1>1, <1>2, <2>1, InLog DEF CountInv, OffsetNear
  <2>5. ExactWithoutFaults'
    BY <1>1, <1>2, <2>1, <2>2 DEF CountInv, ExactWithoutFaults
  <2> QED BY <1>3, <2>3, <2>4, <2>5 DEF CountInv
<1>5. CASE pc' = "fetch"
  <2>1. ~AtReplay'
    BY <1>5 DEF AtReplay, InBatch
  <2>2. ColumnsGood' /\ OffsetNear' /\ ExactWithoutFaults'
    BY <1>2, <1>5, <2>1 DEF CountInv, ColumnsGood, OffsetNear, ExactWithoutFaults
  <2> QED BY <1>3, <2>2 DEF CountInv
<1> QED BY <1>2, <1>4, <1>5 DEF Fetch

\* UpsertRun, AppendRunEvent and SetRunStatus go on, to the commit only with an
\* event that does not count.
LEMMA CountPass ==
    ASSUME Inv, CountInv, InBatch, pc # "commit",
           pc' \in {"append", "status", "validate", "commit"},
           pc' = "commit" => ~Counts(Current),
           UNCHANGED <<log, offset, failures, validated, topic, at, late, order, faults>>
    PROVE  CountInv'
<1>1. LogBounded /\ LogBounded'
  BY DEF CountInv, LogBounded, Replays
<1>2. /\ Replays' = Replays /\ (AtReplay' <=> AtReplay) /\ pc' # "dead"
      /\ Reached = at - 1 /\ Reached' = IF pc' = "commit" THEN at ELSE at - 1
  BY DEF Replays, AtReplay, InBatch, T, Reached
<1>3. ASSUME AtReplay, pc' = "commit", NEW v \in Version
      PROVE  at \notin Counted(Replays, v, Len(Replays)) /\ at \notin Counted(Replays, v, at)
  BY <1>1, <1>3, InLog DEF Counted
<1>4. ASSUME AtReplay, NEW v \in Version, Good(Replays, v, at - 1, failures[v], validated[v])
      PROVE  Good(Replays, v, Reached', failures[v], validated[v])
  <2>1. CASE pc' = "commit"
    BY <1>1, <1>2, <1>3, <1>4, <2>1, InLog, GoodAfterOther
  <2>2. CASE pc' # "commit"
    BY <1>2, <1>4, <2>2
  <2> QED BY <2>1, <2>2
<1>5. ASSUME AtReplay, NEW v \in Version
      PROVE  Trailing(Replays, v, Reached') = Trailing(Replays, v, at - 1)
  <2>1. CASE pc' = "commit"
    <3>1. at \in Nat \ {0}
      BY <1>1, <1>5, InLog
    <3> QED BY <1>2, <1>3, <1>5, <2>1, <3>1, TrailingNext
  <2>2. CASE pc' # "commit"
    BY <1>2, <2>2
  <2> QED BY <2>1, <2>2
<1>6. ColumnsGood'
  BY <1>2, <1>4 DEF CountInv, ColumnsGood
<1>7. OffsetNear'
  BY <1>2 DEF CountInv, OffsetNear
<1>8. ExactWithoutFaults'
  BY <1>2, <1>5 DEF CountInv, ExactWithoutFaults
<1> QED BY <1>1, <1>6, <1>7, <1>8 DEF CountInv

LEMMA CountCommit == ASSUME Inv, CountInv, CommitOffset PROVE CountInv'
<1>1. LogBounded
  BY DEF CountInv
<1>2. /\ UNCHANGED <<log, tables, late, order, faults>>
      /\ Replays' = Replays /\ failures' = failures /\ validated' = validated
      /\ pc = "commit" /\ offset' = [offset EXCEPT ![T] = at] /\ InBatch /\ Reached = at
  BY DEF CommitOffset, tables, Replays, InBatch, Reached
<1>3. LogBounded'
  BY <1>1, <1>2 DEF LogBounded
<1>4. offset'["replay.events"] = IF T = "replay.events" THEN at ELSE offset["replay.events"]
  BY <1>1, <1>2, InLog DEF Inv, TypeOK
<1>5. \/ at' = at + 1 /\ pc' = "upsert" /\ topic' = topic
      \/ pc' = "fetch"
  BY DEF CommitOffset
<1>6. CASE T # "replay.events"
  <2>1. ~AtReplay /\ ~AtReplay' /\ pc' # "dead"
    BY <1>5, <1>6 DEF AtReplay, InBatch, T
  <2>2. ColumnsGood' /\ OffsetNear' /\ ExactWithoutFaults'
    BY <1>2, <1>4, <1>6, <2>1 DEF CountInv, ColumnsGood, OffsetNear, ExactWithoutFaults
  <2> QED BY <1>3, <2>2 DEF CountInv
<1>7. CASE T = "replay.events"
  <2>1. AtReplay /\ at \in Nat
    BY <1>1, <1>2, <1>7, InLog DEF AtReplay
  <2>2. AtReplay' => at' = at + 1 /\ Reached' = at
    BY <1>5, <2>1 DEF AtReplay, InBatch, Reached
  <2>3. ColumnsGood'
    BY <1>2, <1>4, <1>7, <2>1, <2>2 DEF CountInv, ColumnsGood
  <2>4. OffsetNear'
    BY <1>1, <1>2, <1>4, <1>7, <2>1, <2>2, InLog DEF CountInv, OffsetNear
  <2>5. ExactWithoutFaults'
    BY <1>2, <1>4, <1>5, <1>7, <2>1, <2>2 DEF CountInv, ExactWithoutFaults
  <2> QED BY <1>3, <2>3, <2>4, <2>5 DEF CountInv
<1> QED BY <1>6, <1>7

LEMMA CountRecord == ASSUME Inv, CountInv, RecordValidation PROVE CountInv'
<1> DEFINE u == Current.version
           n == Len(Replays)
<1>1. LogBounded /\ LogBounded'
  BY DEF CountInv, LogBounded, Replays, RecordValidation
<1>2. /\ pc = "validate" /\ pc' = "commit" /\ InBatch /\ Counts(Current)
      /\ UNCHANGED <<log, offset, topic, at, late, order, faults>>
      /\ Replays' = Replays
  BY DEF RecordValidation, InBatch, Inv, StageReached, Replays
<1>3. AtReplay
  BY <1>1, <1>2, CurrentInLog DEF LogBounded, Current, AtReplay
<1>4. /\ AtReplay' /\ Reached = at - 1 /\ Reached' = at
      /\ at \in 1..n /\ at \in Nat /\ n \in Nat /\ n <= MaxCount /\ Replays \in Seq(Event)
      /\ Current = Replays[at]
  BY <1>1, <1>2, <1>3, InLog DEF AtReplay, InBatch, T, Reached
<1>5. /\ failures \in [Version -> 0..MaxCount] /\ validated \in [Version -> BOOLEAN]
      /\ u \in Version /\ MaxCount \in Nat
  BY <1>2, CurrentInLog, ConstantsAssumption DEF Inv, TypeOK, Counts, Event
<1>6. \A v \in Version : failures'[v] \in Nat
  BY <1>2, <1>5 DEF RecordValidation, OneMore
<1>7. ASSUME NEW v \in Version, v # u
      PROVE  /\ failures'[v] = failures[v] /\ validated'[v] = validated[v]
             /\ at \notin Counted(Replays, v, n) /\ at \notin Counted(Replays, v, at)
  BY <1>2, <1>4, <1>5, <1>7 DEF RecordValidation, Counted
<1>8. CASE Current.type = "ReplaySucceeded"
  <2>1. /\ failures'[u] = 0 /\ validated'[u] = TRUE
        /\ at \in Successes(Replays, u, n) /\ at \in Successes(Replays, u, at)
    BY <1>2, <1>4, <1>5, <1>8 DEF RecordValidation, Successes, Counted
  <2> QED
    <3>1. Good(Replays, u, at, failures'[u], validated'[u])
      BY <1>4, <2>1, GoodAfterSuccess
    <3> HIDE DEF u, n
    <3>2. ASSUME order # "jumped", NEW v \in Version
          PROVE  Good(Replays, v, at, failures'[v], validated'[v])
      <4>1. CASE v # u
        <5>1. Good(Replays, v, at - 1, failures[v], validated[v])
          BY <3>2, <1>3, <1>4 DEF CountInv, ColumnsGood
        <5> QED BY <4>1, <5>1, <1>4, <1>7, GoodAfterOther DEF n
      <4> QED BY <3>1, <4>1
    <3>3. ColumnsGood'
      BY <3>2, <1>1, <1>2, <1>3, <1>4, <1>6, InLog, GoodBefore DEF CountInv, ColumnsGood, OffsetNear
    <3>4. OffsetNear'
      BY <1>2, <1>3, <1>4 DEF CountInv, OffsetNear
    <3>5. ASSUME NEW v \in Version, failures[v] = Cardinality(Trailing(Replays, v, at - 1))
          PROVE  failures'[v] = Cardinality(Trailing(Replays, v, at))
      <4>1. at \in Nat \ {0}
        BY <1>4
      <4>2. CASE v = u
        BY <4>1, <4>2, <2>1, TrailingNext, FS_EmptySet
      <4>3. CASE v # u
        BY <4>1, <4>3, <3>5, <1>7, TrailingNext
      <4> QED BY <4>2, <4>3
    <3>6. ExactWithoutFaults'
      BY <3>5, <1>2, <1>3, <1>4 DEF CountInv, ExactWithoutFaults
    <3> QED BY <1>1, <3>3, <3>4, <3>6 DEF CountInv
<1>9. CASE Current.type # "ReplaySucceeded"
  <2>1. /\ failures'[u] = OneMore(failures[u]) /\ validated'[u] = validated[u]
        /\ at \in Counted(Replays, u, n) /\ at \in Counted(Replays, u, at)
        /\ at \notin Successes(Replays, u, n) /\ at \notin Successes(Replays, u, at)
    BY <1>2, <1>4, <1>5, <1>9 DEF RecordValidation, Successes, Counted
  <2> HIDE DEF u, n
  <2>2. ASSUME order # "jumped", NEW v \in Version
        PROVE  Good(Replays, v, at, failures'[v], validated'[v])
    <3>1. Good(Replays, v, at - 1, failures[v], validated[v])
      BY <2>2, <1>3, <1>4 DEF CountInv, ColumnsGood
    <3>2. CASE v # u
      BY <3>1, <3>2, <1>4, <1>7, GoodAfterOther DEF n
    <3>3. CASE v = u
      BY <3>1, <3>3, <1>4, <1>5, <2>1, GoodAfterFailure DEF n
    <3> QED BY <3>2, <3>3
  <2>3. ColumnsGood'
    BY <2>2, <1>1, <1>2, <1>3, <1>4, <1>6, InLog, GoodBefore DEF CountInv, ColumnsGood, OffsetNear
  <2>4. OffsetNear'
    BY <1>2, <1>3, <1>4 DEF CountInv, OffsetNear
  <2>5. ASSUME NEW v \in Version, failures[v] = Cardinality(Trailing(Replays, v, at - 1))
        PROVE  failures'[v] = Cardinality(Trailing(Replays, v, at))
    <3>1. at \in Nat \ {0} /\ at - 1 \in Nat
      BY <1>4
    <3>2. CASE v = u
      <4>1. Cardinality(Trailing(Replays, v, at)) = failures[v] + 1
        BY <2>1, <2>5, <3>1, <3>2, TrailingNext
      <4>2. failures[v] <= at - 1 /\ failures[v] \in Nat
        BY <2>5, <3>1, TrailingBounded, SmallSet
      <4>3. OneMore(failures[v]) = failures[v] + 1
        BY <4>2, <1>4, <1>5 DEF OneMore
      <4> QED BY <2>1, <3>2, <4>1, <4>3
    <3>3. CASE v # u
      BY <2>5, <3>1, <3>3, <1>7, TrailingNext
    <3> QED BY <3>2, <3>3
  <2>6. ExactWithoutFaults'
    BY <2>5, <1>2, <1>3, <1>4 DEF CountInv, ExactWithoutFaults
  <2> QED BY <1>1, <2>3, <2>4, <2>6 DEF CountInv
<1> QED BY <1>8, <1>9

LEMMA CountDie == ASSUME Inv, CountInv, Die PROVE CountInv'
<1>1. LogBounded /\ LogBounded'
  BY DEF CountInv, LogBounded, Replays, Die
<1>2. /\ UNCHANGED <<log, offset, tables, topic, at, order>> /\ ~AtReplay'
      /\ Replays' = Replays /\ failures' = failures /\ validated' = validated
      /\ faults' # 0
  BY ConstantsAssumption DEF Die, tables, Replays, AtReplay, InBatch, Inv, TypeOK
<1>3. ASSUME NEW m \in late', m[1] = "replay.events", m \notin late
      PROVE  AtReplay /\ pc = "commit" /\ m[2] = at /\ Reached = at
  BY <1>3 DEF Die, AtReplay, InBatch, Reached
<1>4. ColumnsGood'
  BY <1>2, <1>3 DEF CountInv, ColumnsGood
<1>5. OffsetNear'
  BY <1>2, <1>3 DEF CountInv, OffsetNear
<1>6. ExactWithoutFaults'
  BY <1>2 DEF ExactWithoutFaults
<1> QED BY <1>1, <1>4, <1>5, <1>6 DEF CountInv

LEMMA CountLateCommit ==
    ASSUME Inv, CountInv, NEW m \in late, LateCommit(m[1], m[2])
    PROVE  CountInv'
<1> DEFINE R == "replay.events"
<1>1. LogBounded /\ LogBounded'
  BY DEF CountInv, LogBounded, Replays, LateCommit
<1>2. /\ UNCHANGED <<log, tables, thread, faults>> /\ late' \subseteq late
      /\ Replays' = Replays /\ failures' = failures /\ validated' = validated
      /\ (AtReplay' <=> AtReplay) /\ Reached' = Reached /\ at' = at
      /\ order' = Moved(m[1], m[2])
  BY DEF LateCommit, tables, thread, Replays, AtReplay, InBatch, T, Reached
<1>3. offset'[R] = IF m[1] = R THEN m[2] ELSE offset[R]
  BY <1>1, InLog DEF LateCommit, Inv, TypeOK
<1>4. faults # 0 /\ ExactWithoutFaults'
  BY <1>2 DEF CountInv, ExactWithoutFaults
<1>5. order' = "jumped" \/ m[1] # R \/ m[2] <= offset[R] \/ order = "kept"
  BY <1>1, <1>2, InLog DEF Moved, Inv, TypeOK
<1>6. order' = "kept" => order = "kept" /\ (m[1] = R => m[2] >= offset[R])
  BY <1>1, <1>2, InLog DEF Moved, Inv, TypeOK
<1>7. order = "jumped" => order' = "jumped"
  BY <1>2 DEF Moved
<1>8. ASSUME order' # "jumped", NEW v \in Version
      PROVE  Good(Replays, v, offset'[R], failures[v], validated[v])
  <2>1. Good(Replays, v, offset[R], failures[v], validated[v])
    BY <1>7, <1>8 DEF CountInv, ColumnsGood
  <2>2. CASE m[1] # R
    BY <2>1, <2>2, <1>3
  <2>3. CASE m[1] = R /\ m[2] <= offset[R]
    BY <2>1, <2>3, <1>1, <1>3, InLog, GoodBefore
  <2>4. CASE m[1] = R /\ order = "kept"
    BY <2>4, <1>3 DEF CountInv, ColumnsGood
  <2> QED BY <2>2, <2>3, <2>4, <1>5, <1>8
<1>9. ColumnsGood'
  BY <1>2, <1>6, <1>7, <1>8 DEF CountInv, ColumnsGood
<1>10. OffsetNear'
  <2>1. ASSUME order' # "jumped", AtReplay PROVE offset'[R] <= at
    <3>1. offset[R] <= at
      BY <2>1, <1>7 DEF CountInv, OffsetNear
    <3>2. CASE m[1] = R /\ order = "kept"
      BY <2>1, <3>2, <1>3 DEF CountInv, OffsetNear
    <3>3. CASE m[1] # R
      BY <3>1, <3>3, <1>3
    <3>4. CASE m[1] = R /\ m[2] <= offset[R]
      BY <2>1, <3>1, <3>4, <1>1, <1>3, InLog
    <3> QED BY <2>1, <3>2, <3>3, <3>4, <1>5
  <2>2. order' = "kept" => order = "kept" /\ offset'[R] >= offset[R]
                           /\ offset[R] \in Nat /\ offset'[R] \in Nat
    BY <1>1, <1>3, <1>6, InLog
  <2>3. ASSUME order' = "kept", AtReplay PROVE at <= offset'[R] + 1
    <3>1. at <= offset[R] + 1 /\ at \in Nat
      BY <2>2, <2>3, <1>1, InLog DEF CountInv, OffsetNear
    <3> QED BY <2>2, <2>3, <3>1
  <2>4. ASSUME order' = "kept", NEW k \in late', k[1] = R
        PROVE  k[2] <= offset'[R] + 1 /\ (AtReplay => k[2] <= at)
    <3>1. k \in late /\ k[2] \in Nat /\ k[2] <= offset[R] + 1 /\ (AtReplay => k[2] <= at)
      BY <2>2, <2>4, <1>1, <1>2, InLog DEF CountInv, OffsetNear
    <3> QED BY <2>2, <2>4, <3>1
  <2> QED BY <2>1, <2>3, <2>4, <1>2 DEF OffsetNear
<1> QED BY <1>1, <1>4, <1>9, <1>10 DEF CountInv

LEMMA CountRestart == ASSUME Inv, CountInv, Restart PROVE CountInv'
<1>1. LogBounded /\ LogBounded'
  BY DEF CountInv, LogBounded, Replays, Restart
<1>2. /\ UNCHANGED <<log, offset, tables, late, order, faults>> /\ ~AtReplay'
      /\ Replays' = Replays /\ failures' = failures /\ validated' = validated /\ pc = "dead"
  BY DEF Restart, tables, Replays, AtReplay, InBatch
<1> QED BY <1>1, <1>2 DEF CountInv, ColumnsGood, OffsetNear, ExactWithoutFaults

LEMMA CountStep == Inv /\ CountInv /\ [Next]_vars => CountInv'
<1> SUFFICES ASSUME Inv, CountInv, [Next]_vars PROVE CountInv'
  OBVIOUS
<1>1. CASE \E r \in Run : \E m \in Emits(r) : Publish(m[1], m[2])
  BY <1>1, CountPublish
<1>2. CASE Fetch
  BY <1>2, CountFetch
<1>3. CASE UpsertRun
  BY <1>3, CountPass DEF UpsertRun, InBatch
<1>4. CASE AppendRunEvent
  <2>1. Current.type \notin Terminal => ~Counts(Current)
    BY DEF Counts, Validating, Terminal, StatusByEvent
  <2> QED BY <1>4, <2>1, CountPass DEF AppendRunEvent, InBatch
<1>5. CASE SetRunStatus
  BY <1>5, CountPass DEF SetRunStatus, InBatch
<1>6. CASE RecordValidation
  BY <1>6, CountRecord
<1>7. CASE CommitOffset
  BY <1>7, CountCommit
<1>8. CASE Die
  BY <1>8, CountDie
<1>9. CASE \E m \in late : LateCommit(m[1], m[2])
  BY <1>9, CountLateCommit
<1>10. CASE Restart
  BY <1>10, CountRestart
<1>11. CASE UNCHANGED vars
  BY <1>11 DEF vars, tables, thread, CountInv, LogBounded, ColumnsGood, OffsetNear,
     ExactWithoutFaults, AtReplay, InBatch, T, Reached, Replays
<1> QED BY <1>1, <1>2, <1>3, <1>4, <1>5, <1>6, <1>7, <1>8, <1>9, <1>10, <1>11
       DEF Next, ProjectOnce

\* The columns of a version stay good for the rest of the topic, wherever a re-read,
\* a crash or a late commit takes the offset without jumping (projector.py:71-80).
THEOREM CountInvariance == SafeSpec => []CountInv
BY Invariance, CountInitInv, CountStep, PTL DEF SafeSpec

\* Once every replay event is committed, the confidence of a version is never
\* better than its replays, for any number of exceptions, crashes and late commits
\* of which none jumps forward after one that went back.
THEOREM ConfidenceIsSound == SafeSpec => []ConfidenceSound
<1>1. Inv /\ CountInv => ConfidenceSound
  <2> SUFFICES ASSUME Inv, CountInv, NEW v \in Version,
                      offset["replay.events"] = Len(Replays), order # "jumped"
               PROVE  LET trailing == Cardinality(Trailing(Replays, v, Len(Replays))) IN
                      /\ failures[v] >= trailing
                      /\ (faults = 0 => failures[v] = trailing)
                      /\ (Successes(Replays, v, Len(Replays)) # {} /\ trailing = 0
                             => Confidence(v) = "FRESH")
                      /\ (trailing >= Threshold => Confidence(v) = "NEEDS_REVIEW")
    BY DEF ConfidenceSound
  <2> DEFINE n == Len(Replays)
             tr == Trailing(Replays, v, n)
  <2>1. /\ n \in Nat /\ n <= MaxCount /\ failures[v] \in Nat
        /\ (AtReplay => at \in 1..n)
        /\ Threshold \in Nat \ {0}
    BY InLog, ConstantsAssumption DEF CountInv
  <2>2. tr \cap (1..n) = tr /\ IsFiniteSet(tr) /\ Cardinality(tr) \in Nat
    BY <2>1, TrailingBounded, SmallSet
  <2>3. Good(Replays, v, n, failures[v], validated[v])
    BY DEF CountInv, ColumnsGood
  <2>4. /\ failures[v] >= Cardinality(tr)
        /\ Successes(Replays, v, n) # {} => validated[v]
    BY <2>1, <2>2, <2>3 DEF Good
  <2>5. faults = 0 => failures[v] = Cardinality(tr)
    <3>1. faults = 0 => ~AtReplay
      BY <2>1 DEF CountInv, ExactWithoutFaults
    <3> QED BY <3>1 DEF CountInv, ExactWithoutFaults
  <2>6. Successes(Replays, v, n) # {} /\ Cardinality(tr) = 0 => failures[v] = 0
    <3> SUFFICES ASSUME Successes(Replays, v, n) # {}, Cardinality(tr) = 0 PROVE failures[v] = 0
      OBVIOUS
    <3>1. tr = {}
      BY <2>2, FS_EmptySet
    <3>2. Counted(Replays, v, n) # {} /\ Counted(Replays, v, n) \subseteq 1..n
      BY DEF Successes, Counted
    <3> QED BY <3>1, <3>2, <2>3 DEF Good
  <2> QED BY <2>1, <2>2, <2>4, <2>5, <2>6 DEF Confidence
<1> QED BY Invariance, CountInvariance, <1>1, PTL
=============================================================================
