--------------------------- MODULE Outbox_proofs ----------------------------
(***************************************************************************)
(* Proofs about Outbox for every number of rows, every assignment of       *)
(* correlations, every set of dispatchers and every batch limit.           *)
(***************************************************************************)
EXTENDS Outbox, FiniteSetTheorems, TLAPS

\* Appending a row adds it, and nothing else, to what the log holds.
LEMMA RangeAppend ==
    ASSUME NEW S, NEW s \in Seq(S), NEW e \in S
    PROVE  Range(Append(s, e)) = Range(s) \cup {e}
<1> DEFINE t == Append(s, e)
<1>1. /\ DOMAIN t = 1..(Len(s) + 1)
      /\ \A i \in 1..Len(s) : t[i] = s[i]
      /\ t[Len(s) + 1] = e
      /\ DOMAIN s = 1..Len(s)
      /\ Len(s) \in Nat
  OBVIOUS
<1>2. ASSUME NEW x PROVE x \in Range(t) <=> x \in Range(s) \cup {e}
  BY <1>1 DEF Range
<1> QED BY <1>2

\* The SELECT returns pending rows and is closed towards older pending rows:
\* a row older than a selected one is selected too.
LEMMA OldestIsClosed ==
    ASSUME NEW S \in SUBSET Row, NEW limit \in Nat
    PROVE  /\ Oldest(S, limit) \subseteq S
           /\ \A x \in Oldest(S, limit) : \A i \in S : i < x => i \in Oldest(S, limit)
<1>1. Oldest(S, limit) \subseteq S
  BY DEF Oldest
<1>2. ASSUME NEW x \in Oldest(S, limit), NEW i \in S, i < x
      PROVE  i \in Oldest(S, limit)
  <2> DEFINE A == {y \in S : y < i}
             B == {y \in S : y < x}
  <2>1. IsFiniteSet(Row) /\ Row \subseteq Nat
    BY FS_Interval, ConstantsAssumption DEF Row
  <2>2. IsFiniteSet(B)
    BY <2>1, FS_Subset
  <2>3. A \in SUBSET B
    <3>1. x \in Nat /\ i \in Nat /\ i < x /\ S \subseteq Nat
      BY <2>1, <1>2, <1>1
    <3>2. ASSUME NEW y \in S, y < i PROVE y < x
      BY <3>1, <3>2
    <3> QED BY <3>2
  <2>4. Cardinality(A) <= Cardinality(B) /\ IsFiniteSet(A)
    BY <2>2, <2>3, FS_Subset
  <2>5. Cardinality(A) \in Nat /\ Cardinality(B) \in Nat
    BY <2>2, <2>4, FS_CardinalityType
  <2>6. Cardinality(B) < limit
    BY DEF Oldest
  <2>7. Cardinality(A) < limit
    BY <2>4, <2>5, <2>6
  <2> QED BY <2>7 DEF Oldest
<1> QED BY <1>1, <1>2

\* FlushCovers is the part of BatchInv that is left when the batch is done.
LEMMA BatchFlush == BatchInv' => FlushCovers'
BY DEF BatchInv, FlushCovers

\* When the LIMIT is not reached, the SELECT returns every pending row.
LEMMA OldestIsAll ==
    ASSUME NEW S \in SUBSET Row, NEW limit \in Nat, Cardinality(S) <= limit
    PROVE  Oldest(S, limit) = S
<1>1. IsFiniteSet(Row) /\ Row \subseteq Nat
  BY FS_Interval, ConstantsAssumption DEF Row
<1>2. ASSUME NEW x \in S PROVE Cardinality({y \in S : y < x}) < limit
  <2> DEFINE B == {y \in S : y < x}
  <2>1. B \subseteq S \ {x} /\ S \ {x} \subseteq S
    BY <1>1
  <2>2. IsFiniteSet(S)
    BY <1>1, FS_Subset
  <2>3. IsFiniteSet(S \ {x}) /\ Cardinality(S \ {x}) = Cardinality(S) - 1
    BY <2>2, FS_RemoveElement
  <2>4. Cardinality(B) <= Cardinality(S \ {x}) /\ IsFiniteSet(B)
    BY <2>1, <2>3, FS_Subset
  <2>5. Cardinality(B) \in Nat /\ Cardinality(S) \in Nat
    BY <2>2, <2>4, FS_CardinalityType
  <2> HIDE DEF B
  <2>6. Cardinality(B) < limit
    BY <2>3, <2>4, <2>5
  <2> QED BY <2>6 DEF B
<1> QED BY <1>2 DEF Oldest

\* Advancing past a row keeps the dispatcher's registers well typed.
LEMMA AdvanceType ==
    ASSUME TypeOK, NEW d \in Dispatchers, NEW r \in Row, Advance(d, r)
    PROVE  /\ pc' \in [Dispatchers -> {"idle", "send", "wait", "mark", "dead"}]
           /\ batch' \in [Dispatchers -> SUBSET Row]
           /\ batch'[d] = batch[d] \ {r}
           /\ pc'[d] # "mark"
           /\ \A e \in Dispatchers \ {d} : batch'[e] = batch[e] /\ pc'[e] = pc[e]
BY DEF TypeOK, Advance

LEMMA InitInv == Init => Inv
<1> SUFFICES ASSUME Init PROVE Inv
  OBVIOUS
<1>1. Row \subseteq Nat /\ 0 \in 0..MaxCrashes
  BY ConstantsAssumption DEF Row
<1>2. TypeOK
  BY <1>1 DEF Init, TypeOK
<1>3. Logged = {} /\ Enqueued = {}
  BY DEF Init, Logged, Enqueued, Range
<1>4. NoDuplicates /\ PublishedIsLogged /\ InOrder /\ FlushCovers
  BY DEF Init, NoDuplicates, PublishedIsLogged, InOrder, FlushCovers
<1>5. AheadInv /\ LogInv /\ InflightInv /\ BatchInv
  BY <1>3 DEF Init, AheadInv, LogInv, InflightInv, BatchInv
<1> QED BY <1>2, <1>4, <1>5 DEF Inv

LEMMA EnqueueInv ==
    ASSUME Inv, NEW r \in Row, Enqueue(r)
    PROVE  Inv'
<1> USE DEF Inv
<1>1. TypeOK'
  BY DEF TypeOK, Enqueue, Enqueued
<1>2. Enqueued' = Enqueued \cup {r} /\ Logged' = Logged
  BY DEF TypeOK, Enqueue, Enqueued, Logged
<1>0. r \notin Enqueued /\ r \notin Logged
  BY DEF Enqueue, Enqueued, LogInv
<1>10. /\ ahead'[r] = {i \in Enqueued : i < r /\ Corr[i] = Corr[r]}
       /\ \A x \in Row \ {r} : ahead'[x] = ahead[x]
  BY DEF TypeOK, Enqueue
<1>3. NoDuplicates' /\ InOrder'
  <2>1. \A p \in DOMAIN log : log[p] \in Row \ {r}
    BY <1>0 DEF TypeOK, Logged, Range
  <2>2. UNCHANGED <<log, failed>>
    BY DEF Enqueue
  <2> QED BY <2>1, <2>2, <1>10 DEF NoDuplicates, InOrder
<1>4. PublishedIsLogged'
  BY <1>2 DEF TypeOK, Enqueue, PublishedIsLogged
<1>5. AheadInv'
  BY <1>2, <1>10 DEF AheadInv
<1>6. LogInv' /\ InflightInv'
  <2>1. \A m \in inflight : m[2] \in Row \ {r}
    BY <1>0 DEF TypeOK, InflightInv
  <2>2. UNCHANGED <<inflight, failed>>
    BY DEF Enqueue
  <2> QED BY <1>2, <1>10, <2>1, <2>2 DEF LogInv, InflightInv
<1>7. BatchInv'
  <2>1. UNCHANGED <<pc, batch, due, failed>>
    BY DEF Enqueue
  <2>2. \A d \in Dispatchers : \A x \in batch[d] : ahead'[x] = ahead[x]
    BY <1>0, <1>10 DEF BatchInv, Enqueued
  <2> QED BY <1>2, <2>1, <2>2 DEF BatchInv, IsCurrent
<1> QED BY <1>1, <1>3, <1>4, <1>5, <1>6, <1>7, BatchFlush

LEMMA SelectInv ==
    ASSUME Inv, NEW d \in Dispatchers, Select(d)
    PROVE  Inv'
<1> USE DEF Inv
<1>1. Pending \in SUBSET Row /\ Enqueued \in SUBSET Row /\ BatchLimit \in Nat
  BY ConstantsAssumption DEF Pending, Enqueued
<1>2. Oldest(Pending, BatchLimit) \subseteq Pending
  BY <1>1, OldestIsClosed
<1>3. TypeOK'
  BY <1>1, <1>2 DEF TypeOK, Select
<1>4. Enqueued' = Enqueued /\ Logged' = Logged
  BY DEF Select, Enqueued, Logged
<1>5. NoDuplicates' /\ InOrder' /\ PublishedIsLogged' /\ AheadInv' /\ LogInv' /\ InflightInv'
  BY <1>4 DEF Select, NoDuplicates, InOrder, PublishedIsLogged, AheadInv, LogInv,
              InflightInv
<1>6. ASSUME NEW x \in Oldest(Pending, BatchLimit), NEW i \in ahead[x]
      PROVE  i \in Logged \cup Oldest(Pending, BatchLimit)
  <2>0. x \in Row
    BY <1>2 DEF Pending
  <2>2. i \in Enqueued /\ i < x
    BY <2>0 DEF AheadInv
  <2>1. i \in Row
    BY <2>2 DEF Enqueued
  <2>3. CASE status[i] = "published"
    BY <2>1, <2>3 DEF PublishedIsLogged
  <2>4. CASE status[i] = "pending"
    BY <2>1, <2>2, <2>4, <1>1, OldestIsClosed DEF Pending
  <2> QED BY <2>1, <2>2, <2>3, <2>4 DEF TypeOK, Enqueued
<1>7. ASSUME Cardinality(Pending) <= BatchLimit
      PROVE  Oldest(Pending, BatchLimit) = Pending
  BY <1>1, <1>7, OldestIsAll
<1>8. ASSUME NEW e \in Dispatchers
      PROVE  /\ batch'[e] \subseteq Enqueued
             /\ pc'[e] = "idle" => batch'[e] = {}
             /\ pc'[e] = "mark" => \A r \in Row : IsCurrent(e, r)' => r \in Logged
             /\ \A x \in batch'[e] : ahead[x] \ (Poison \cup failed') \subseteq Logged \cup batch'[e]
             /\ e # Poller /\ Cardinality(due'[e]) <= BatchLimit =>
                   due'[e] \ (Poison \cup failed') \subseteq Logged \cup batch'[e]
  <2>1. CASE e = d
    <3>1. /\ batch'[e] = Oldest(Pending, BatchLimit)
          /\ pc'[e] # "mark"
          /\ pc'[e] = "idle" => Pending = {}
          /\ e # Poller => due'[e] = Pending
      BY <2>1 DEF TypeOK, Select
    <3>2. ASSUME e # Poller, Cardinality(due'[e]) <= BatchLimit
          PROVE  due'[e] \subseteq batch'[e]
      BY <3>1, <3>2, <1>7
    <3>3. batch'[e] \subseteq Enqueued /\ (pc'[e] = "idle" => batch'[e] = {})
      BY <3>1, <1>2 DEF Pending, Enqueued
    <3> QED BY <3>1, <3>2, <3>3, <1>6
  <2>2. CASE e # d
    <3>1. batch'[e] = batch[e] /\ pc'[e] = pc[e] /\ due'[e] = due[e] /\ failed' = failed
      BY <2>2 DEF TypeOK, Select
    <3> QED BY <3>1 DEF BatchInv, IsCurrent
  <2> QED BY <2>1, <2>2
<1>9. BatchInv'
  BY <1>4, <1>8 DEF BatchInv, Select
<1> QED BY <1>3, <1>5, <1>9, BatchFlush

LEMMA SendInv ==
    ASSUME Inv, NEW d \in Dispatchers, NEW r \in Row, Send(d, r)
    PROVE  Inv'
<1> USE DEF Inv
<1>1. TypeOK'
  BY DEF TypeOK, Send
<1>2. Enqueued' = Enqueued /\ Logged' = Logged /\ batch' = batch
  BY DEF Send, Enqueued, Logged
<1>3. NoDuplicates' /\ InOrder' /\ PublishedIsLogged' /\ AheadInv' /\ LogInv'
  BY <1>2 DEF Send, NoDuplicates, InOrder, PublishedIsLogged, AheadInv, LogInv
<1>4. ASSUME NEW i \in ahead[r] \ (Poison \cup failed)
      PROVE  i \in Logged
  <2>1. i \in Logged \cup batch[d]
    BY <1>4 DEF Send, IsCurrent, BatchInv
  <2>2. i \notin batch[d]
    <3>1. i \in Row /\ i < r
      BY <1>4 DEF AheadInv, Enqueued
    <3> QED BY <3>1 DEF Send, IsCurrent, Row
  <2> QED BY <2>1, <2>2
<1>5. InflightInv'
  <2>1. r \in Enqueued
    BY DEF Send, IsCurrent, BatchInv
  <2>2. ASSUME NEW m \in inflight'
        PROVE  m[2] \in Enqueued /\ ahead[m[2]] \ (Poison \cup failed) \subseteq Logged
    <3>1. CASE m \in inflight
      BY <3>1 DEF InflightInv
    <3>2. CASE m = <<d, r>>
      BY <3>2, <2>1, <1>4
    <3> QED BY <3>1, <3>2 DEF Send
  <2> QED BY <1>2, <2>2 DEF InflightInv, Send
<1>6. BatchInv'
  BY <1>2 DEF BatchInv, Send, IsCurrent, TypeOK
<1> QED BY <1>1, <1>3, <1>5, <1>6, BatchFlush

\* What serving a request does to the log: its row is there afterwards, and
\* nothing else is new.
LEMMA ServeLogged ==
    ASSUME Inv, NEW d \in Dispatchers, NEW r \in Row, Serve(d, r)
    PROVE  Logged' = Logged \cup {r}
<1>1. CASE r \in Logged
  BY <1>1 DEF Serve, AppendOnce, Logged
<1>2. CASE r \notin Logged
  <2>1. log' = Append(log, r)
    BY <1>2 DEF Serve, AppendOnce
  <2> QED BY <2>1, RangeAppend DEF Logged, Inv, TypeOK
<1> QED BY <1>1, <1>2

LEMMA ServeInv ==
    ASSUME Inv, NEW d \in Dispatchers, NEW r \in Row, Serve(d, r)
    PROVE  Inv'
<1> USE DEF Inv
<1>1. TypeOK'
  BY DEF TypeOK, Serve, AppendOnce
<1>2. Logged' = Logged \cup {r} /\ Enqueued' = Enqueued /\ batch' = batch
  BY ServeLogged DEF Serve, Enqueued
<1>3. r \in Enqueued /\ r \notin Poison /\ ahead[r] \ (Poison \cup failed) \subseteq Logged
  BY DEF Serve, InflightInv
<1>4. PublishedIsLogged' /\ AheadInv' /\ LogInv' /\ InflightInv'
  BY <1>2, <1>3 DEF Serve, PublishedIsLogged, AheadInv, LogInv, InflightInv
<1>5. BatchInv'
  <2>1. ASSUME NEW e \in Dispatchers, pc'[e] = "mark", NEW s \in Row, IsCurrent(e, s)'
        PROVE  s \in Logged'
    <3>1. CASE pc[e] = "mark"
      BY <2>1, <3>1, <1>2 DEF BatchInv, IsCurrent
    <3>2. CASE pc[e] # "mark"
      <4>1. e = d /\ Waiting(d, r)
        BY <2>1, <3>2 DEF Serve, TypeOK
      <4>2. s = r
        BY <2>1, <4>1, <1>2 DEF Waiting, IsCurrent, Row
      <4> QED BY <4>2, <1>2
    <3> QED BY <3>1, <3>2
  <2>2. \A e \in Dispatchers : batch[e] \subseteq Enqueued
    BY DEF BatchInv
  <2>3. \A e \in Dispatchers :
           /\ \A x \in batch[e] : ahead[x] \ (Poison \cup failed) \subseteq Logged' \cup batch[e]
           /\ e # Poller /\ Cardinality(due[e]) <= BatchLimit =>
                 due[e] \ (Poison \cup failed) \subseteq Logged' \cup batch[e]
    BY <1>2 DEF BatchInv
  <2>4. \A e \in Dispatchers : pc'[e] = "idle" => batch[e] = {}
    BY DEF Serve, BatchInv, TypeOK
  <2> QED BY <2>1, <2>2, <2>3, <2>4, <1>2 DEF BatchInv, Serve
<1>6. CASE r \in Logged
  BY <1>6, <1>1, <1>4, <1>5, BatchFlush DEF Serve, AppendOnce, NoDuplicates, InOrder
<1>7. CASE r \notin Logged
  <2>1. /\ log' = Append(log, r)
        /\ Len(log) \in Nat
        /\ DOMAIN log = 1..Len(log)
        /\ DOMAIN log' = 1..(Len(log) + 1)
        /\ \A p \in 1..Len(log) : log'[p] = log[p]
        /\ log'[Len(log) + 1] = r
    BY <1>7 DEF Serve, AppendOnce, TypeOK
  <2>2. \A p \in 1..Len(log) : log[p] # r
    BY <1>7, <2>1 DEF Logged, Range
  <2>3. NoDuplicates'
    BY <2>1, <2>2 DEF NoDuplicates
  <2>4. ASSUME NEW p \in 1..(Len(log) + 1), NEW i \in ahead[log'[p]] \ (Poison \cup failed')
        PROVE  \E q \in 1..(p - 1) : log'[q] = i
    <3>1. CASE p = Len(log) + 1
      <4>1. i \in Logged
        BY <2>4, <3>1, <2>1, <1>3 DEF Serve
      <4>2. PICK q \in 1..Len(log) : log[q] = i
        BY <4>1, <2>1 DEF Logged, Range
      <4> QED BY <4>2, <3>1, <2>1
    <3>2. CASE p \in 1..Len(log)
      <4>1. i \in ahead[log[p]] \ (Poison \cup failed)
        BY <3>2, <2>1, <2>4 DEF Serve
      <4>2. PICK q \in 1..(p - 1) : log[q] = i
        BY <4>1, <3>2, <2>1, <2>4 DEF InOrder
      <4>3. q \in 1..Len(log)
        BY <3>2, <2>1
      <4> QED BY <4>2, <4>3, <2>1
    <3> QED BY <3>1, <3>2, <2>1
  <2>5. InOrder'
    BY <2>1, <2>4 DEF InOrder, Serve
  <2> QED BY <1>1, <1>4, <1>5, <2>3, <2>5, BatchFlush
<1> QED BY <1>6, <1>7

\* A dispatcher that moves past a row keeps its batch closed, provided the row
\* is in the log, can never be, or its append has failed.
LEMMA AdvanceBatchInv ==
    ASSUME Inv, NEW d \in Dispatchers, NEW r \in Row, Advance(d, r),
           r \in Logged \cup Poison \cup failed', failed \subseteq failed',
           Enqueued' = Enqueued, Logged' = Logged, due' = due, ahead' = ahead
    PROVE  BatchInv'
<1> USE DEF Inv
<1>1. /\ batch'[d] = batch[d] \ {r}
      /\ pc'[d] # "mark"
      /\ \A e \in Dispatchers \ {d} : batch'[e] = batch[e] /\ pc'[e] = pc[e]
  BY AdvanceType
<1>2. pc'[d] = "idle" => batch'[d] = {}
  BY <1>1 DEF Advance, TypeOK
<1>3. ASSUME NEW e \in Dispatchers
      PROVE  /\ batch'[e] \subseteq Enqueued
             /\ pc'[e] = "idle" => batch'[e] = {}
             /\ pc'[e] = "mark" => \A x \in Row : IsCurrent(e, x)' => x \in Logged
             /\ \A x \in batch'[e] : ahead[x] \ (Poison \cup failed') \subseteq Logged \cup batch'[e]
             /\ e # Poller /\ Cardinality(due'[e]) <= BatchLimit =>
                   due'[e] \ (Poison \cup failed') \subseteq Logged \cup batch'[e]
  <2>1. CASE e = d
    BY <2>1, <1>1, <1>2 DEF BatchInv
  <2>2. CASE e # d
    BY <2>2, <1>1 DEF BatchInv, IsCurrent
  <2> QED BY <2>1, <2>2
<1> QED BY <1>3 DEF BatchInv

LEMMA MarkInv ==
    ASSUME Inv, NEW d \in Dispatchers, NEW r \in Row, Mark(d, r)
    PROVE  Inv'
<1> USE DEF Inv
<1>1. r \in Logged /\ r \in Enqueued
  BY DEF Mark, BatchInv, IsCurrent
<1>2. Logged' = Logged /\ Enqueued' = Enqueued
  BY <1>1 DEF Mark, Logged, Enqueued, TypeOK
<1>3. TypeOK'
  BY AdvanceType DEF TypeOK, Mark
<1>4. NoDuplicates' /\ InOrder'
  BY DEF Mark, NoDuplicates, InOrder
<1>5. PublishedIsLogged'
  BY <1>1, <1>2 DEF Mark, PublishedIsLogged, TypeOK
<1>6. AheadInv' /\ LogInv' /\ InflightInv'
  BY <1>2 DEF Mark, AheadInv, LogInv, InflightInv
<1>7. BatchInv'
  BY <1>1, <1>2, AdvanceBatchInv DEF Mark
<1> QED BY <1>3, <1>4, <1>5, <1>6, <1>7, BatchFlush

\* Reject and Fail leave the row pending and move on; a row that could have been
\* appended is excused from then on.
LEMMA SkipInv ==
    ASSUME Inv, NEW d \in Dispatchers, NEW r \in Row, Reject(d, r) \/ Fail(d, r)
    PROVE  Inv'
<1> USE DEF Inv
<1>1. /\ Advance(d, r)
      /\ inflight' \subseteq inflight
      /\ UNCHANGED <<status, log, due, ahead, crashes>>
      /\ failed' \in {failed, failed \cup {r}}
      /\ r \in Logged \cup Poison \cup failed'
  BY DEF Reject, Fail, BatchInv
<1>2. Logged' = Logged /\ Enqueued' = Enqueued
  BY <1>1 DEF Logged, Enqueued
<1>3. TypeOK'
  BY <1>1, AdvanceType DEF TypeOK
<1>4. NoDuplicates' /\ InOrder' /\ PublishedIsLogged'
  BY <1>1, <1>2 DEF NoDuplicates, InOrder, PublishedIsLogged
<1>5. AheadInv' /\ LogInv' /\ InflightInv'
  BY <1>1, <1>2 DEF AheadInv, LogInv, InflightInv
<1>6. BatchInv'
  BY <1>1, <1>2, AdvanceBatchInv
<1> QED BY <1>3, <1>4, <1>5, <1>6, BatchFlush

LEMMA CrashInv == ASSUME Inv, Crash PROVE Inv'
<1> USE DEF Inv
<1>1. TypeOK'
  <2>1. crashes' \in 0..MaxCrashes
    BY ConstantsAssumption DEF TypeOK, Crash
  <2> QED BY <2>1 DEF TypeOK, Crash
<1>2. Logged' = Logged /\ Enqueued' = Enqueued
  BY DEF Crash, Logged, Enqueued
<1>3. NoDuplicates' /\ InOrder' /\ PublishedIsLogged' /\ AheadInv' /\ LogInv' /\ InflightInv'
  BY <1>2 DEF Crash, NoDuplicates, InOrder, PublishedIsLogged, AheadInv, LogInv,
              InflightInv
<1>4. BatchInv'
  BY <1>2 DEF Crash, BatchInv
<1> QED BY <1>1, <1>3, <1>4, BatchFlush

\* At most one row's append is open in a dispatcher.
LEMMA OneWaiting ==
    ASSUME TypeOK, NEW d \in Dispatchers
    PROVE  \A r, s \in Row : Waiting(d, r) /\ Waiting(d, s) => r = s
BY DEF Waiting, IsCurrent, Row

\* An aborted dispatch_once holds nothing any more; the row whose append was
\* open is excused.
LEMMA AbortInv ==
    ASSUME Inv, NEW d \in Dispatchers, Abort(d)
    PROVE  Inv'
<1> USE DEF Inv
<1>1. /\ inflight' \subseteq inflight
      /\ UNCHANGED <<status, log, ahead, crashes>>
      /\ failed \subseteq failed' /\ failed' \subseteq Row
      /\ batch'[d] = {} /\ due'[d] = {} /\ pc'[d] \in {"dead", "idle"}
      /\ \A e \in Dispatchers \ {d} :
            batch'[e] = batch[e] /\ due'[e] = due[e] /\ pc'[e] = pc[e]
  BY DEF Abort, TypeOK
<1>2. Logged' = Logged /\ Enqueued' = Enqueued
  BY <1>1 DEF Logged, Enqueued
<1>3. TypeOK'
  <2>1. pc' \in [Dispatchers -> {"idle", "send", "wait", "mark", "dead"}]
    BY DEF Abort, TypeOK
  <2>2. batch' \in [Dispatchers -> SUBSET Row] /\ due' \in [Dispatchers -> SUBSET Row]
    BY DEF Abort, TypeOK
  <2> QED BY <1>1, <2>1, <2>2 DEF TypeOK
<1>4. NoDuplicates' /\ InOrder' /\ PublishedIsLogged'
  BY <1>1, <1>2 DEF NoDuplicates, InOrder, PublishedIsLogged
<1>5. AheadInv' /\ LogInv' /\ InflightInv'
  BY <1>1, <1>2 DEF AheadInv, LogInv, InflightInv
<1>6. ASSUME NEW e \in Dispatchers
      PROVE  /\ batch'[e] \subseteq Enqueued
             /\ pc'[e] = "idle" => batch'[e] = {}
             /\ pc'[e] = "mark" => \A x \in Row : IsCurrent(e, x)' => x \in Logged
             /\ \A x \in batch'[e] : ahead[x] \ (Poison \cup failed') \subseteq Logged \cup batch'[e]
             /\ e # Poller /\ Cardinality(due'[e]) <= BatchLimit =>
                   due'[e] \ (Poison \cup failed') \subseteq Logged \cup batch'[e]
  <2>1. CASE e = d
    BY <2>1, <1>1
  <2>2. CASE e # d
    BY <2>2, <1>1 DEF BatchInv, IsCurrent
  <2> QED BY <2>1, <2>2
<1>7. BatchInv'
  BY <1>1, <1>2, <1>6 DEF BatchInv
<1> QED BY <1>3, <1>4, <1>5, <1>7, BatchFlush

\* Inv is inductive: every step of the outbox and the log keeps it.
LEMMA NextInv == Inv /\ [Next]_vars => Inv'
<1> SUFFICES ASSUME Inv, [Next]_vars PROVE Inv'
  OBVIOUS
<1>1. ASSUME NEW r \in Row, Enqueue(r) PROVE Inv'
  BY <1>1, EnqueueInv
<1>2. ASSUME NEW d \in Dispatchers, Select(d) PROVE Inv'
  BY <1>2, SelectInv
<1>3. ASSUME NEW d \in Dispatchers, NEW r \in Row, Send(d, r) PROVE Inv'
  BY <1>3, SendInv
<1>4. ASSUME NEW d \in Dispatchers, NEW r \in Row, Serve(d, r) PROVE Inv'
  BY <1>4, ServeInv
<1>5. ASSUME NEW d \in Dispatchers, NEW r \in Row, Mark(d, r) PROVE Inv'
  BY <1>5, MarkInv
<1>6. ASSUME NEW d \in Dispatchers, NEW r \in Row, Reject(d, r) \/ Fail(d, r) PROVE Inv'
  BY <1>6, SkipInv
<1>7. CASE Crash
  BY <1>7, CrashInv
<1>9. ASSUME NEW d \in Dispatchers, Abort(d) PROVE Inv'
  BY <1>9, AbortInv
<1>8. CASE UNCHANGED vars
  BY <1>8 DEF vars, Inv, TypeOK, NoDuplicates, InOrder, FlushCovers, PublishedIsLogged, AheadInv,
              LogInv, InflightInv, BatchInv, Logged, Enqueued, IsCurrent
<1> QED BY <1>1, <1>2, <1>3, <1>4, <1>5, <1>6, <1>7, <1>8, <1>9 DEF Next

\* Inv holds at every step, for every number of rows, correlations,
\* dispatchers and crashes and every batch limit.
THEOREM Invariance == SafeSpec => []Inv
<1>1. Init => Inv
  BY InitInv
<1>2. Inv /\ [Next]_vars => Inv'
  BY NextInv
<1> QED BY <1>1, <1>2, PTL DEF SafeSpec

\* At-least-once sending and a dedupe key make exactly-once logging: no row is
\* in the log twice.
THEOREM ExactlyOnce == SafeSpec => []NoDuplicates
<1>1. Inv => NoDuplicates
  BY DEF Inv
<1> QED BY <1>1, Invariance, PTL

\* A row marked published is in the log, whatever crashed or was lost.
THEOREM NothingMarkedUnlogged == SafeSpec => []PublishedIsLogged
<1>1. Inv => PublishedIsLogged
  BY DEF Inv
<1> QED BY <1>1, Invariance, PTL

\* A correlation's events are logged in their order, save for those whose append
\* has failed.
THEOREM OrderPerCorrelation == SafeSpec => []InOrder
<1>1. Inv => InOrder
  BY DEF Inv
<1> QED BY <1>1, Invariance, PTL

\* A foreground dispatch_once that met no failure and no full batch leaves
\* nothing behind.
THEOREM FlushInvariance == SafeSpec => []FlushCovers
<1>1. Inv => FlushCovers
  BY DEF Inv
<1> QED BY <1>1, Invariance, PTL

\* Every step of the outbox is a step of Delivery or leaves it unchanged.
LEMMA StepRefines == Inv /\ [Next]_vars => [D!Next]_(D!vars)
<1> SUFFICES ASSUME Inv, [Next]_vars PROVE [D!Next]_(D!vars)
  OBVIOUS
<1> USE DEF Inv
<1>1. ASSUME NEW r \in Row, Enqueue(r) PROVE D!Accept(r)
  <2>1. Enqueued' = Enqueued \cup {r} /\ r \notin Enqueued
    BY <1>1 DEF TypeOK, Enqueue, Enqueued
  <2> QED BY <1>1, <2>1 DEF Enqueue, D!Accept
<1>2. ASSUME NEW d \in Dispatchers, NEW r \in Row, Serve(d, r), r \notin Logged
      PROVE  D!Deliver(r)
  <2>1. r \in Enqueued \ Poison /\ ahead[r] \ (Poison \cup failed) \subseteq Logged
    BY <1>2 DEF Serve, InflightInv
  <2>2. log' = Append(log, r) /\ Enqueued' = Enqueued
    BY <1>2 DEF Serve, AppendOnce, Enqueued
  <2>3. r \in (Enqueued \cap (Row \ Poison)) \ D!Range(log)
    BY <2>1, <1>2 DEF Logged, Range, D!Range
  <2>4. (ahead[r] \cap (Row \ Poison)) \ failed \subseteq D!Range(log)
    BY <2>1 DEF Logged, Range, D!Range
  <2> QED BY <2>2, <2>3, <2>4, <1>2 DEF D!Deliver, Serve
<1>3. ASSUME NEW d \in Dispatchers, NEW r \in Row, Serve(d, r), r \in Logged
      PROVE  UNCHANGED D!vars
  BY <1>3 DEF Serve, AppendOnce, Enqueued, D!vars
<1>4. ASSUME NEW d \in Dispatchers, NEW r \in Row, Mark(d, r)
      PROVE  UNCHANGED D!vars
  <2>1. r \in Enqueued
    BY <1>4 DEF Mark, BatchInv, IsCurrent
  <2>2. Enqueued' = Enqueued
    BY <1>4, <2>1 DEF Mark, Enqueued, TypeOK
  <2> QED BY <1>4, <2>2 DEF Mark, D!vars
<1>5. ASSUME NEW d \in Dispatchers, NEW r \in Row,
             Send(d, r) \/ Reject(d, r)
      PROVE  UNCHANGED D!vars
  BY <1>5 DEF Send, Reject, Enqueued, D!vars
<1>6. ASSUME NEW d \in Dispatchers, NEW r \in Row, Fail(d, r)
      PROVE  D!Excuse(r) \/ UNCHANGED D!vars
  <2>1. r \in Enqueued /\ Enqueued' = Enqueued
    BY <1>6 DEF Fail, BatchInv, IsCurrent, Enqueued
  <2> QED BY <1>6, <2>1 DEF Fail, D!Excuse, D!vars
<1>7. ASSUME NEW d \in Dispatchers, Select(d) PROVE UNCHANGED D!vars
  BY <1>7 DEF Select, Enqueued, D!vars
<1>8. ASSUME Crash \/ UNCHANGED vars PROVE UNCHANGED D!vars
  BY <1>8 DEF Crash, vars, Enqueued, D!vars
<1>9. ASSUME NEW d \in Dispatchers, Abort(d)
      PROVE  (\E r \in Row : D!Excuse(r)) \/ UNCHANGED D!vars
  <2>1. Enqueued' = Enqueued /\ log' = log /\ ahead' = ahead
    BY <1>9 DEF Abort, Enqueued
  <2>2. CASE \E r \in Row : Waiting(d, r)
    <3>1. PICK r \in Row : Waiting(d, r)
      BY <2>2
    <3>2. {s \in Row : Waiting(d, s)} = {r}
      BY <3>1, OneWaiting
    <3>3. failed' = failed \cup {r}
      BY <1>9, <3>2 DEF Abort
    <3>4. r \in Enqueued
      BY <3>1 DEF Waiting, IsCurrent, BatchInv
    <3> QED BY <2>1, <3>3, <3>4 DEF D!Excuse
  <2>3. CASE ~ \E r \in Row : Waiting(d, r)
    <3>1. failed' = failed
      BY <1>9, <2>3 DEF Abort
    <3> QED BY <2>1, <3>1 DEF D!vars
  <2> QED BY <2>2, <2>3
<1> QED BY <1>1, <1>2, <1>3, <1>4, <1>5, <1>6, <1>7, <1>8, <1>9 DEF Next, D!Next

\* The outbox implements Delivery: each committed row is delivered at most
\* once, only if the log can take it, and in order unless it was excused.
THEOREM Refinement == SafeSpec => ImplementsDelivery
<1>1. Init => D!Init
  BY DEF Init, D!Init, Enqueued
<1>2. Inv /\ [Next]_vars => [D!Next]_(D!vars)
  BY StepRefines
<1> QED BY <1>1, <1>2, Invariance, PTL DEF SafeSpec, D!SafeSpec, ImplementsDelivery
=============================================================================
