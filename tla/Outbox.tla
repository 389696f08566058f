------------------------------- MODULE Outbox -------------------------------
(***************************************************************************)
(* The transactional outbox of shared/outbox.py together with the append   *)
(* side of the event log (event_log/storage.py): a producing service       *)
(* commits rows to its outbox table; a background poller and the request   *)
(* handlers (which call dispatch_once themselves) publish pending rows, in *)
(* batches, with an Append RPC per row.  The producer may crash between    *)
(* any two steps; an RPC may fail before or after the log has acted on it, *)
(* or the log may act on it after its caller gave up.                      *)
(*                                                                         *)
(* Rows are numbered by created_at_ms, which enqueue() takes before its    *)
(* caller's transaction commits: rows may be committed in another order    *)
(* than the one they are numbered in, those of one correlation too (the    *)
(* escalation saga emits the events of a task from several threads).       *)
(* `attempts' is not modelled: it is written on every failure and read     *)
(* nowhere.                                                                *)
(***************************************************************************)
EXTENDS Naturals, Sequences, FiniteSets, Functions

CONSTANTS NumRows,      \* the producer enqueues at most this many rows
          Corr,         \* Corr[r]: the correlation id of row r
          Dispatchers,  \* the threads that call dispatch_once
          Poller,       \* the one of them that is the background thread
          BatchLimit,   \* LIMIT of the SELECT (50 in the code)
          Poison,       \* rows the log always refuses (above gRPC's 4 MB)
          MaxCrashes    \* bound on producer crashes

Row == 1..NumRows

ASSUME ConstantsAssumption ==
    /\ NumRows \in Nat
    /\ DOMAIN Corr = Row
    /\ Poller \in Dispatchers
    /\ BatchLimit \in Nat \ {0}
    /\ Poison \subseteq Row
    /\ MaxCrashes \in Nat

VARIABLES status,    \* the outbox table: status[r]
          log,       \* the topic in the event log: offset -> row
          inflight,  \* Append requests the log has not acted on yet
          pc,        \* where each dispatcher is in dispatch_once
          batch,     \* `rows': what is left of each dispatcher's SELECT
          due,       \* history: rows pending when a foreground SELECT ran
          failed,    \* history: rows whose append has failed for its caller
          ahead,     \* history: older rows of r's correlation committed before r
          crashes    \* number of producer crashes so far

vars == <<status, log, inflight, pc, batch, due, failed, ahead, crashes>>

Pending == {r \in Row : status[r] = "pending"}
Enqueued == {r \in Row : status[r] # "none"}
Logged == Range(log)

\* Mutant: one row short of the LIMIT.
OldestButOne(S, limit) == {x \in S : Cardinality({y \in S : y < x}) < limit - 1}

\* ORDER BY created_at_ms ASC LIMIT limit.
Oldest(S, limit) == {x \in S : Cardinality({y \in S : y < x}) < limit}

\* Mutant: ORDER BY created_at_ms DESC.
IsNewest(d, r) == r \in batch[d] /\ \A x \in batch[d] : r >= x

\* The row that dispatcher d's loop is at: rows are taken oldest first.
IsCurrent(d, r) == r \in batch[d] /\ \A x \in batch[d] : r <= x

\* Mutant: dispatch_once returns instead of going on to the next row.
GiveUpBatch(d, r) ==
    /\ batch' = [batch EXCEPT ![d] = {}]
    /\ pc' = [pc EXCEPT ![d] = "idle"]

\* The loop of dispatcher d moves past r, or dispatch_once returns.
Advance(d, r) ==
    /\ batch' = [batch EXCEPT ![d] = @ \ {r}]
    /\ pc' = [pc EXCEPT ![d] = IF batch[d] = {r} THEN "idle" ELSE "send"]

TypeOK ==
    /\ status \in [Row -> {"none", "pending", "published"}]
    /\ log \in Seq(Row)
    /\ inflight \subseteq Dispatchers \X Row
    /\ pc \in [Dispatchers -> {"idle", "send", "wait", "mark", "dead"}]
    /\ batch \in [Dispatchers -> SUBSET Row]
    /\ due \in [Dispatchers -> SUBSET Row]
    /\ failed \subseteq Row
    /\ ahead \in [Row -> SUBSET Row]
    /\ crashes \in 0..MaxCrashes

Init ==
    /\ status = [r \in Row |-> "none"]
    /\ log = <<>>
    /\ inflight = {}
    /\ pc = [d \in Dispatchers |-> "idle"]
    /\ batch = [d \in Dispatchers |-> {}]
    /\ due = [d \in Dispatchers |-> {}]
    /\ failed = {}
    /\ ahead = [r \in Row |-> {}]
    /\ crashes = 0

-----------------------------------------------------------------------------
\* enqueue(), committed by the caller: any row not yet committed may be next,
\* because the rows were stamped before their transactions commit.
Enqueue(r) ==
    /\ status[r] = "none"
    /\ status' = [status EXCEPT ![r] = "pending"]
    /\ ahead' = [ahead EXCEPT ![r] = {i \in Enqueued : i < r /\ Corr[i] = Corr[r]}]
    /\ UNCHANGED <<log, inflight, pc, batch, due, failed, crashes>>

\* dispatch_once starts: SELECT ... WHERE status = 'pending'.
Select(d) ==
    /\ pc[d] = "idle"
    /\ batch' = [batch EXCEPT ![d] = Oldest(Pending, BatchLimit)]
    /\ pc' = [pc EXCEPT ![d] = IF Pending = {} THEN "idle" ELSE "send"]
    /\ due' = IF d = Poller THEN due ELSE [due EXCEPT ![d] = Pending]
    /\ UNCHANGED <<status, log, inflight, failed, ahead, crashes>>

\* self._client.append(...): the request leaves for the log.
Send(d, r) ==
    /\ pc[d] = "send"
    /\ IsCurrent(d, r)
    /\ inflight' = inflight \cup {<<d, r>>}
    /\ pc' = [pc EXCEPT ![d] = "wait"]
    /\ UNCHANGED <<status, log, batch, due, failed, ahead, crashes>>

Waiting(d, r) == pc[d] = "wait" /\ IsCurrent(d, r)

\* Mutant: no lookup of the dedupe key.
AppendAlways(r) == Append(log, r)

\* The dedupe key is looked up first; only a new one gets the next offset.
AppendOnce(r) == IF r \in Logged THEN log ELSE Append(log, r)

\* EventStore.append: one transaction under the store's lock; the row id is
\* the dedupe key.  If the caller still waits, it gets the reply.
Serve(d, r) ==
    /\ <<d, r>> \in inflight
    /\ r \notin Poison
    /\ inflight' = inflight \ {<<d, r>>}
    /\ log' = AppendOnce(r)
    /\ pc' = IF Waiting(d, r) THEN [pc EXCEPT ![d] = "mark"] ELSE pc
    /\ UNCHANGED <<status, batch, due, failed, ahead, crashes>>

\* Mutant: the row is marked without waiting for the reply.
MarkEarly(d, r) ==
    /\ pc[d] \in {"wait", "mark"}
    /\ IsCurrent(d, r)
    /\ status' = [status EXCEPT ![r] = "published"]
    /\ Advance(d, r)
    /\ UNCHANGED <<log, inflight, due, failed, ahead, crashes>>

\* UPDATE outbox SET status = 'published'; on to the next row.
Mark(d, r) ==
    /\ pc[d] = "mark"
    /\ IsCurrent(d, r)
    /\ status' = [status EXCEPT ![r] = "published"]
    /\ Advance(d, r)
    /\ UNCHANGED <<log, inflight, due, failed, ahead, crashes>>

\* The log refuses a poison row; the except branch goes on to the next row.
Reject(d, r) ==
    /\ r \in Poison
    /\ Waiting(d, r)
    /\ inflight' = inflight \ {<<d, r>>}
    /\ Advance(d, r)
    /\ UNCHANGED <<status, log, due, failed, ahead, crashes>>

\* The except branch for any other error: the RPC failed for its caller,
\* whether or not the request (still) reaches the log, or the UPDATE that
\* follows a successful append did.  The row stays pending; the loop goes on.
Fail(d, r) ==
    /\ IsCurrent(d, r)
    /\ \/ /\ pc[d] = "wait"
          /\ inflight' \in {inflight, inflight \ {<<d, r>>}}
          /\ failed' = failed \cup {r}
       \/ /\ pc[d] = "mark"
          /\ UNCHANGED <<inflight, failed>>
    /\ Advance(d, r)
    /\ UNCHANGED <<status, log, due, ahead, crashes>>

\* A statement that nothing catches raises (the database stays locked): the
\* SELECT, or the UPDATE of the except branch.  A handler's dispatch_once ends
\* with the error; the poller's thread is gone until the service restarts.
Abort(d) ==
    /\ pc[d] \in {"idle", "wait", "mark"}
    /\ LET open == {r \in Row : Waiting(d, r)}
       IN  /\ failed' = failed \cup open
           /\ inflight' \in {inflight, inflight \ ({d} \X open)}
    /\ batch' = [batch EXCEPT ![d] = {}]
    /\ due' = [due EXCEPT ![d] = {}]
    /\ pc' = [pc EXCEPT ![d] = IF d = Poller THEN "dead" ELSE "idle"]
    /\ UNCHANGED <<status, log, ahead, crashes>>

\* The producer dies and restarts: its threads start over, the outbox table
\* and the log survive, a request already under way may or may not arrive.
Crash ==
    /\ crashes < MaxCrashes
    /\ crashes' = crashes + 1
    /\ inflight' \in SUBSET inflight
    /\ pc' = [d \in Dispatchers |-> "idle"]
    /\ batch' = [d \in Dispatchers |-> {}]
    /\ due' = [d \in Dispatchers |-> {}]
    /\ UNCHANGED <<status, log, failed, ahead>>

Next ==
    \/ \E r \in Row : Enqueue(r)
    \/ \E d \in Dispatchers : Select(d) \/ Abort(d)
    \/ \E d \in Dispatchers, r \in Row :
          \/ Send(d, r) \/ Serve(d, r) \/ Mark(d, r)
          \/ Reject(d, r) \/ Fail(d, r)
    \/ Crash

\* A service whose poller's thread has ended is restarted some day.
PollerRevived == []<>(pc[Poller] # "dead")

\* What the poller's loop does by itself, at most one of these at a time.
PollerStep ==
    \/ Select(Poller)
    \/ \E r \in Row : Send(Poller, r) \/ Reject(Poller, r)

\* The poller's loop goes on while its thread lives, and an append that is
\* tried again and again succeeds some time, as does the UPDATE after it.
\* Nothing is assumed of foreground callers or of requests whose caller gave up.
Fairness ==
    /\ PollerRevived
    /\ WF_vars(PollerStep)
    /\ \A r \in Row \ Poison :
          /\ SF_vars(Serve(Poller, r) /\ Waiting(Poller, r))
          /\ SF_vars(Mark(Poller, r))

SafeSpec == Init /\ [][Next]_vars
Spec == SafeSpec /\ Fairness

-----------------------------------------------------------------------------
\* A row enters the log at most once, whatever is retried, sent by two
\* dispatchers at a time or acted on late (the dedupe key of Append).
NoDuplicates ==
    \A p, q \in DOMAIN log : log[p] = log[q] => p = q

\* No row leaves the dispatchers' SELECT before the log has it: a row is
\* marked only after its append, so a crash in between cannot lose it.
PublishedIsLogged ==
    \A r \in Row : status[r] = "published" => r \in Logged

\* An event follows in the log every event of its correlation that was stamped
\* and committed before it, none missing, even though two dispatchers work on
\* overlapping batches, may crash, and rows stamped earlier are still being
\* committed: only a row whose append has failed (or that the log refuses) is
\* ever overtaken.
InOrder ==
    \A p \in DOMAIN log : \A i \in ahead[log[p]] \ (Poison \cup failed) :
        \E q \in 1..(p - 1) : log[q] = i

\* A foreground dispatch_once that has returned has put into the log every row
\* that was pending when it began, save those whose append failed, as long as
\* all of them fit one batch (the rows published before are in the log anyway:
\* PublishedIsLogged).
FlushCovers ==
    \A d \in Dispatchers \ {Poller} :
        pc[d] = "idle" /\ Cardinality(due[d]) <= BatchLimit
            => due[d] \ (Poison \cup failed) \subseteq Logged

\* "the caller can rely on every event already being in the log" when it has
\* drained the outbox (loop.py, _flush_and_stop).
FlushComplete ==
    \A d \in Dispatchers \ {Poller} : pc[d] = "idle" => due[d] \subseteq Logged

\* What makes the above inductive.  The dispatchers hold committed rows only,
\* oldest first: a row that must come first is either in the log or still in the
\* same batch, so that it is sent first -- unless its append failed.
BatchInv ==
    \A d \in Dispatchers :
        /\ batch[d] \subseteq Enqueued
        /\ pc[d] = "mark" => \A r \in Row : IsCurrent(d, r) => r \in Logged
        /\ pc[d] = "idle" => batch[d] = {}
        /\ \A x \in batch[d] : ahead[x] \ (Poison \cup failed) \subseteq Logged \cup batch[d]
        /\ d # Poller /\ Cardinality(due[d]) <= BatchLimit =>
              due[d] \ (Poison \cup failed) \subseteq Logged \cup batch[d]

\* A request under way is for a committed row whose elders are in the log.
InflightInv ==
    \A m \in inflight :
        /\ m[2] \in Enqueued
        /\ ahead[m[2]] \ (Poison \cup failed) \subseteq Logged

AheadInv == \A r \in Row : \A i \in ahead[r] : i \in Enqueued /\ i < r

LogInv == Logged \subseteq Enqueued \ Poison

\* The inductive invariant: what the outbox and the log agree on, at every
\* step of every dispatcher, behind the properties above and the refinement of
\* Delivery.
Inv ==
    /\ TypeOK
    /\ NoDuplicates
    /\ PublishedIsLogged
    /\ InOrder
    /\ FlushCovers
    /\ AheadInv
    /\ LogInv
    /\ InflightInv
    /\ BatchInv

\* "picked up on the next poll -- the event is never silently dropped": a
\* committed row that the log can take is published in the end, despite lost
\* replies, crashes, a poller that is gone until a restart, and rows ahead of it that the log refuses for ever
\* (as long as those do not fill a whole batch).
EventuallyPublished ==
    Cardinality(Poison) < BatchLimit =>
        \A r \in Row \ Poison : status[r] = "pending" ~> status[r] = "published"

\* The outbox implements Delivery: a row may be overtaken once its append has
\* failed.
D == INSTANCE Delivery WITH
        accepted <- Enqueued,
        delivered <- log,
        Deliverable <- Row \ Poison,
        excused <- failed
ImplementsDelivery == D!SafeSpec
=============================================================================
