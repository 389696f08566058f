----------------------------- MODULE Projector -----------------------------
(***************************************************************************)
(* The read side of the capability registry: the projector thread of the   *)
(* gateway (services/capability_registry/projector.py) follows three       *)
(* topics of the event log and keeps the tables runs, run_events and the   *)
(* confidence columns of capabilities.  Every call of the store and of the *)
(* log is a transaction of its own; nothing is atomic across two of them.  *)
(* An exception ends the daemon thread; only a new gateway process starts  *)
(* another one, from the committed offsets.                                *)
(*                                                                         *)
(* Events are numbered from 1 within a topic; offset[t] is the number of   *)
(* the last committed one (the code counts from 0).                        *)
(***************************************************************************)
EXTENDS Naturals, Sequences, FiniteSets

CONSTANTS DiscoveryRun, \* runs of the discovery plane
          ReplayRun,    \* runs of the replay runtime
          Version,      \* capability versions
          VersionOf,    \* VersionOf[r]: the version a replay run executes
          NoRun,        \* no row in runs
          NoVersion,    \* no "version" in a payload
          MaxBatch,     \* max_events of a fetch (200)
          Threshold,    \* HARD_FAILURE_CONFIDENCE_THRESHOLD (2)
          MaxEvents,    \* bound: events that the producers log
          MaxFaults,    \* bound: exceptions and crashes of the gateway
          MaxCount      \* bound: where counting of failures stops

Run == DiscoveryRun \cup ReplayRun

\* A row of runs; named: its capability_id IS NOT NULL.
Row == [kind : {"discovery", "replay", "escalation"},
        named : BOOLEAN,
        status : {"IN_PROGRESS", "SUCCEEDED", "FAILED", "HARD_FAILURE"}]

ASSUME ConstantsAssumption ==
    /\ DiscoveryRun \cap ReplayRun = {}
    /\ VersionOf \in [ReplayRun -> Version]
    /\ NoVersion \notin Version
    /\ NoRun \notin Row
    /\ MaxBatch \in Nat \ {0}
    /\ Threshold \in Nat \ {0}
    /\ MaxEvents \in Nat
    /\ MaxFaults \in Nat
    /\ MaxCount \in Nat
    /\ MaxEvents <= MaxCount

\* TOPICS, in the order in which _run_loop visits them.
Topics == <<"discovery.events", "replay.events", "escalation.events">>
Topic == {Topics[i] : i \in 1..3}

KindByTopic == [t \in Topic |->
    CASE t = "discovery.events" -> "discovery"
      [] t = "replay.events" -> "replay"
      [] OTHER -> "escalation"]

StatusByEvent == [e \in {"RunSucceeded", "RunFailed", "ReplaySucceeded", "ReplayHardFailure"} |->
    CASE e \in {"RunSucceeded", "ReplaySucceeded"} -> "SUCCEEDED"
      [] e = "RunFailed" -> "FAILED"
      [] OTHER -> "HARD_FAILURE"]

Terminal == DOMAIN StatusByEvent
Validating == {"ReplaySucceeded", "ReplayHardFailure"}
Other == {"ActionDecided", "ReplayRequested", "InterventionRequested"}

Event == [run : Run, type : Terminal \cup Other, version : Version \cup {NoVersion}]

\* The payloads that carry a capability_id.  A replay that the breaker refused
\* is a ReplayHardFailure without capability_id and version.
NamesCapability(e) ==
    \/ e.type \in {"RunSucceeded", "ReplayRequested"}
    \/ e.version # NoVersion

VARIABLES log,          \* the event log: a sequence of events per topic
          offset,       \* consumer_offsets of the group registry-projector
          runs,         \* table runs
          timeline,     \* table run_events: pairs of topic and offset
          failures,     \* column consecutive_hard_failures, up to MaxCount
          validated,    \* column last_validated_at_ms IS NOT NULL
          pc, topic,    \* what the projector thread does, for which topic
          at, upto,     \* the event it is at, and the last one of its batch
          late,         \* CommitOffset requests not acted on yet, their callers gone
          order,        \* how late commits have moved the offset of replay.events
          faults        \* exceptions and crashes so far

tables == <<runs, timeline, failures, validated>>
thread == <<pc, topic, at, upto>>
vars == <<log, offset, tables, thread, late, order, faults>>

\* The events of one run, with their topics.  Which of them its producer emits
\* depends on how the run ends (see Agree).
Emits(r) ==
    LET Ev(type, v) == [run |-> r, type |-> type, version |-> v] IN
    IF r \in DiscoveryRun
    THEN {"discovery.events"} \X
         {Ev(x, NoVersion) : x \in {"ActionDecided", "RunSucceeded", "RunFailed"}}
    ELSE {"replay.events"} \X
         {Ev("ReplayRequested", NoVersion), Ev("ReplaySucceeded", VersionOf[r]),
          Ev("ReplayHardFailure", VersionOf[r]), Ev("ReplayHardFailure", NoVersion)}
         \cup {<<"escalation.events", Ev("InterventionRequested", NoVersion)>>}

\* Can one run emit both?  It ends once, and escalates only a hard failure of
\* its executor.
Agree(e, f) ==
    /\ ~(e.type \in Terminal /\ f.type \in Terminal)
    /\ \A g, h \in {e, f} : g.type = "InterventionRequested" /\ h.type \in Terminal =>
           h.type = "ReplayHardFailure" /\ h.version # NoVersion

Init ==
    /\ log = [t \in Topic |-> <<>>]
    /\ offset = [t \in Topic |-> 0]
    /\ runs = [r \in Run |-> NoRun]
    /\ timeline = {}
    /\ failures = [v \in Version |-> 0]
    /\ validated = [v \in Version |-> FALSE]
    /\ pc = "fetch" /\ topic = 1 /\ at = 0 /\ upto = 0
    /\ late = {} /\ order = "kept"
    /\ faults = 0

-----------------------------------------------------------------------------
(* The producers, and EventStore.append.                                   *)

\* The next event of a run is logged.  A failed append lets later rows pass, and
\* the escalation saga publishes through an outbox of its own: any order.
Publish(t, e) ==
    /\ <<t, e>> \in Emits(e.run)
    /\ \A u \in Topic : \A i \in DOMAIN log[u] :
           log[u][i].run = e.run => log[u][i] # e /\ Agree(e, log[u][i])
    /\ Len(log[Topics[1]]) + Len(log[Topics[2]]) + Len(log[Topics[3]]) < MaxEvents
    /\ log' = [log EXCEPT ![t] = Append(@, e)]
    /\ UNCHANGED <<offset, tables, thread, late, order, faults>>

-----------------------------------------------------------------------------
(* Projector._run_loop and project_once.                                   *)

T == Topics[topic]
Current == log[T][at]
NextTopic(i) == (i % 3) + 1

\* Mutant: the newest event is left for the next fetch.
FetchButLast ==
    LET last == IF Len(log[T]) < offset[T] + MaxBatch THEN Len(log[T]) ELSE offset[T] + MaxBatch
    IN
    /\ pc = "fetch"
    /\ \/ /\ last > offset[T] + 1
          /\ at' = offset[T] + 1 /\ upto' = last
          /\ pc' = "upsert"
          /\ UNCHANGED topic
       \/ /\ last <= offset[T] + 1
          /\ topic' = NextTopic(topic)
          /\ UNCHANGED <<pc, at, upto>>
    /\ UNCHANGED <<log, offset, tables, late, order, faults>>

\* EventLogClient.fetch: at most MaxBatch events behind the committed offset.
Fetch ==
    LET last == IF Len(log[T]) < offset[T] + MaxBatch THEN Len(log[T]) ELSE offset[T] + MaxBatch
    IN
    /\ pc = "fetch"
    /\ \/ /\ last > offset[T]
          /\ at' = offset[T] + 1 /\ upto' = last
          /\ pc' = "upsert"
          /\ UNCHANGED topic
       \/ /\ last <= offset[T]
          /\ topic' = NextTopic(topic)
          /\ UNCHANGED <<pc, at, upto>>
    /\ UNCHANGED <<log, offset, tables, late, order, faults>>

\* RegistryStore.upsert_run: ON CONFLICT DO NOTHING, so that the first event
\* seen of a run decides its kind, its capability and its tenant.
UpsertRun ==
    /\ pc = "upsert"
    /\ runs' = [runs EXCEPT ![Current.run] =
                   IF @ # NoRun THEN @
                   ELSE [kind |-> KindByTopic[T], named |-> NamesCapability(Current),
                         status |-> "IN_PROGRESS"]]
    /\ pc' = "append"
    /\ UNCHANGED <<log, offset, timeline, failures, validated, topic, at, upto, late, order, faults>>

\* RegistryStore.append_run_event: keyed by topic and offset.
AppendRunEvent ==
    /\ pc = "append"
    /\ timeline' = timeline \cup {<<T, at>>}
    /\ pc' = IF Current.type \in Terminal THEN "status" ELSE "commit"
    /\ UNCHANGED <<log, offset, runs, failures, validated, topic, at, upto, late, order, faults>>

\* Does the event count for the confidence of a version?
Counts(e) == e.type \in Validating /\ e.version # NoVersion

\* RegistryStore.set_run_status.
SetRunStatus ==
    /\ pc = "status"
    /\ runs' = [runs EXCEPT ![Current.run].status = StatusByEvent[Current.type]]
    /\ pc' = IF Counts(Current) THEN "validate" ELSE "commit"
    /\ UNCHANGED <<log, offset, timeline, failures, validated, topic, at, upto, late, order, faults>>

OneMore(n) == IF n < MaxCount THEN n + 1 ELSE n

\* Mutant: a success is noted, the counter is left.
RecordValidationKeepsCount ==
    /\ pc = "validate"
    /\ IF Current.type = "ReplaySucceeded"
       THEN /\ validated' = [validated EXCEPT ![Current.version] = TRUE]
            /\ UNCHANGED failures
       ELSE /\ failures' = [failures EXCEPT ![Current.version] = OneMore(@)]
            /\ UNCHANGED validated
    /\ pc' = "commit"
    /\ UNCHANGED <<log, offset, runs, timeline, topic, at, upto, late, order, faults>>

\* RegistryStore.record_validation: an UPDATE that is not keyed by the event.
RecordValidation ==
    /\ pc = "validate"
    /\ IF Current.type = "ReplaySucceeded"
       THEN /\ validated' = [validated EXCEPT ![Current.version] = TRUE]
            /\ failures' = [failures EXCEPT ![Current.version] = 0]
       ELSE /\ failures' = [failures EXCEPT ![Current.version] = OneMore(@)]
            /\ UNCHANGED validated
    /\ pc' = "commit"
    /\ UNCHANGED <<log, offset, runs, timeline, topic, at, upto, late, order, faults>>

\* Mutant: the offset of the batch is committed with its first event.
CommitBatch ==
    /\ pc = "commit"
    /\ offset' = [offset EXCEPT ![T] = upto]
    /\ IF at < upto
       THEN at' = at + 1 /\ pc' = "upsert" /\ UNCHANGED <<topic, upto>>
       ELSE pc' = "fetch" /\ topic' = NextTopic(topic) /\ UNCHANGED <<at, upto>>
    /\ UNCHANGED <<log, tables, late, order, faults>>

\* EventLogClient.commit_offset for this event; then the next event of the
\* batch, or the next topic.
CommitOffset ==
    /\ pc = "commit"
    /\ offset' = [offset EXCEPT ![T] = at]
    /\ IF at < upto
       THEN at' = at + 1 /\ pc' = "upsert" /\ UNCHANGED <<topic, upto>>
       ELSE pc' = "fetch" /\ topic' = NextTopic(topic) /\ UNCHANGED <<at, upto>>
    /\ UNCHANGED <<log, tables, late, order, faults>>

\* A call raises (the log is down, the database is locked), or the gateway dies.
\* A commit that was under way may still be acted on.
Die ==
    /\ pc # "dead" /\ faults < MaxFaults
    /\ faults' = faults + 1
    /\ pc' = "dead"
    /\ \/ UNCHANGED late
       \/ pc = "commit" /\ late' = late \cup {<<T, at>>}
    /\ UNCHANGED <<log, offset, tables, topic, at, upto, order>>

\* What becomes of order when a late commit sets the offset of topic t to i: the
\* first one that goes back rewinds it, one that goes forward after that jumps
\* over events that are to be read again.
Moved(t, i) ==
    CASE t = "replay.events" /\ order = "kept" /\ i < offset[t] -> "rewound"
      [] t = "replay.events" /\ order = "rewound" /\ i > offset[t] -> "jumped"
      [] OTHER -> order

\* EventStore.commit_offset overwrites whatever is there.
LateCommit(t, i) ==
    /\ <<t, i>> \in late
    /\ late' = late \ {<<t, i>>}
    /\ offset' = [offset EXCEPT ![t] = i]
    /\ order' = Moved(t, i)
    /\ UNCHANGED <<log, tables, thread, faults>>

\* A new gateway process: Projector.start.
Restart ==
    /\ pc = "dead"
    /\ pc' = "fetch" /\ topic' = 1
    /\ UNCHANGED <<log, offset, tables, at, upto, late, order, faults>>

ProjectOnce ==
    Fetch \/ UpsertRun \/ AppendRunEvent \/ SetRunStatus \/ RecordValidation \/ CommitOffset

Next ==
    \/ \E r \in Run : \E m \in Emits(r) : Publish(m[1], m[2])
    \/ ProjectOnce
    \/ Die
    \/ \E m \in late : LateCommit(m[1], m[2])
    \/ Restart

SafeSpec == Init /\ [][Next]_vars

\* The thread runs while it is alive; nothing makes anybody start it again.
Spec == SafeSpec /\ WF_vars(ProjectOnce)

-----------------------------------------------------------------------------
(* What GraphQL reads.                                                     *)

\* _confidence
Confidence(v) == IF ~validated[v] \/ failures[v] >= Threshold THEN "NEEDS_REVIEW" ELSE "FRESH"

\* run_timeline
RunTimeline(r) == {m \in timeline : log[m[1]][m[2]].run = r}

-----------------------------------------------------------------------------
(* Properties.                                                             *)

TypeOK ==
    /\ log \in [Topic -> Seq(Event)]
    /\ offset \in [Topic -> Nat]
    /\ runs \in [Run -> Row \cup {NoRun}]
    /\ timeline \subseteq Topic \X Nat
    /\ failures \in [Version -> 0..MaxCount]
    /\ validated \in [Version -> BOOLEAN]
    /\ pc \in {"fetch", "upsert", "append", "status", "validate", "commit", "dead"}
    /\ topic \in 1..3 /\ at \in Nat /\ upto \in Nat
    /\ late \subseteq Topic \X Nat
    /\ order \in {"kept", "rewound", "jumped"}
    /\ faults \in 0..MaxFaults

\* What project_once has done for an event when it goes on to the next one.
Projected(t, i) ==
    LET e == log[t][i] IN
    /\ i \in DOMAIN log[t]
    /\ <<t, i>> \in timeline
    /\ runs[e.run] # NoRun
    /\ e.type \in Terminal => runs[e.run].status = StatusByEvent[e.type]

\* No event behind a committed offset is missing from the read model, whatever
\* happened between the transactions: its row is in run_events, its run is known
\* and a terminal event shows in its status (projector.py:68-80).
NothingSkipped == \A t \in Topic : \A i \in 1..offset[t] : Projected(t, i)

\* What makes it inductive: a run ends once, a late commit and the events of a
\* batch before the current one are of events that are projected, and the thread
\* is as far with the current one as pc says.
EndsOnce ==
    \A t, u \in Topic : \A i \in DOMAIN log[t], j \in DOMAIN log[u] :
        /\ log[t][i].run = log[u][j].run
        /\ log[t][i].type \in Terminal
        /\ log[u][j].type \in Terminal
        => t = u /\ i = j

LateProjected == \A m \in late : \A i \in 1..m[2] : Projected(m[1], i)

InBatch == pc \notin {"fetch", "dead"}

StageReached ==
    InBatch =>
        /\ at \in 1..upto /\ upto <= Len(log[T])
        /\ \A i \in 1..(at - 1) : Projected(T, i)
        /\ pc # "upsert" => runs[Current.run] # NoRun
        /\ pc \in {"status", "validate", "commit"} => <<T, at>> \in timeline
        /\ pc \in {"status", "validate"} => Current.type \in Terminal
        /\ pc = "validate" => Counts(Current)
        /\ (pc \in {"validate", "commit"} /\ Current.type \in Terminal =>
               runs[Current.run].status = StatusByEvent[Current.type])

Inv == TypeOK /\ NothingSkipped /\ EndsOnce /\ LateProjected /\ StageReached

\* The events that count for v among the first n of the sequence s, the successes
\* of them, and the hard failures that are last of them.
Counted(s, v, n) == {i \in 1..n : Counts(s[i]) /\ s[i].version = v}
Successes(s, v, n) == {i \in Counted(s, v, n) : s[i].type = "ReplaySucceeded"}
Trailing(s, v, n) == {i \in Counted(s, v, n) : \A j \in Successes(s, v, n) : j < i}

Replays == log["replay.events"]

\* The confidence that the dashboard shows for a version is never better than
\* its replays: once every replay event is committed, the counter is at least the
\* number of hard failures since the last success, though it is not keyed by the
\* event; it is exact when no exception or crash came in between, and zero when
\* the last replay succeeded (store.py:179-197, projector.py:71-80).  A late
\* commit that rewinds the offset does no harm; one that then jumps forward over
\* what is being read again does (a success re-read, the failures after it not).
ConfidenceSound ==
    \A v \in Version : offset["replay.events"] = Len(Replays) /\ order # "jumped" =>
        LET trailing == Cardinality(Trailing(Replays, v, Len(Replays))) IN
        /\ failures[v] >= trailing
        /\ (faults = 0 => failures[v] = trailing)
        /\ (Successes(Replays, v, Len(Replays)) # {} /\ trailing = 0 => Confidence(v) = "FRESH")
        /\ (trailing >= Threshold => Confidence(v) = "NEEDS_REVIEW")

\* What makes it inductive.  The columns f (failures) and d (validated) of v are
\* good up to p when a projector that goes on after event p of s makes them sound
\* at the end of s: they need not be what events 1..p alone would make them.
Good(s, v, p, f, d) ==
    /\ Cardinality(Trailing(s, v, Len(s)) \cap (1..p)) <= f
    /\ Trailing(s, v, Len(s)) = {} /\ Counted(s, v, Len(s)) # {} /\ Counted(s, v, Len(s)) \subseteq 1..p
          => f = 0
    /\ Successes(s, v, p) # {} => d

AtReplay == InBatch /\ T = "replay.events"

\* The last replay event that the thread has counted.
Reached == IF pc = "commit" THEN at ELSE at - 1

\* The columns are good up to the offset, up to where the thread is, and, as long
\* as the offset has never gone back, up to every offset that is still to come late.
ColumnsGood ==
    \A v \in Version :
        /\ order # "jumped" => Good(Replays, v, offset["replay.events"], failures[v], validated[v])
        /\ order # "jumped" /\ AtReplay => Good(Replays, v, Reached, failures[v], validated[v])
        /\ order = "kept" => \A m \in late : m[1] = "replay.events" =>
                                 Good(Replays, v, m[2], failures[v], validated[v])

\* Where the offset is, relative to the thread and to the late commits.
OffsetNear ==
    LET o == offset["replay.events"] IN
    /\ order # "jumped" /\ AtReplay => o <= at
    /\ order = "kept" /\ AtReplay => at <= o + 1
    /\ order = "kept" => \A m \in late : m[1] = "replay.events" =>
           m[2] <= o + 1 /\ (AtReplay => m[2] <= at)

\* Without faults the counter is exact at every event.
ExactWithoutFaults ==
    faults = 0 =>
        /\ late = {} /\ pc # "dead" /\ order = "kept"
        /\ AtReplay => offset["replay.events"] + 1 = at
        /\ \A v \in Version :
               failures[v] = Cardinality(Trailing(Replays, v, IF AtReplay THEN Reached
                                                              ELSE offset["replay.events"]))

LogBounded ==
    /\ Len(log["discovery.events"]) + Len(Replays) + Len(log["escalation.events"]) <= MaxEvents
    /\ \A t \in Topic : \A i \in DOMAIN log[t] : Counts(log[t][i]) => t = "replay.events"

CountInv == LogBounded /\ OffsetNear /\ ColumnsGood /\ ExactWithoutFaults

\* If the thread is not dead for good, it catches up: every logged event reaches
\* the timeline of its run, whatever was re-read or rewound on the way.
AllShown ==
    \A t \in Topic : \A i \in DOMAIN log[t] : <<t, i>> \in RunTimeline(log[t][i].run)
CatchesUp == <>[](pc # "dead") => []<>AllShown
=============================================================================
