--------------------------- MODULE Registry_proofs ---------------------------
(* Proofs about Registry: the inductive invariant Inv, one lemma per action. *)
EXTENDS Registry, TLAPS

LEMMA InitInv == Init => Inv
  <1> SUFFICES ASSUME Init PROVE Inv
    OBVIOUS
  <1> USE ConstantsAssumption DEF Init
  <1>1. TypeOK
    <2>1. rows \in [Capability -> [Versions -> Row \cup {NoRow}]]
      OBVIOUS
    <2>2. /\ pc \in [Compile -> {"start", "insert", "done", "failed", "refused", "aborted"}]
          /\ seen \in [Compile -> 0..MaxVersion]
          /\ served \in [Replay -> 0..MaxVersion]
      OBVIOUS
    <2>3. writes \in 0..MaxWrites /\ crashes \in 0..MaxCrashes
      OBVIOUS
    <2> QED BY <2>1, <2>2, <2>3 DEF TypeOK
  <1>2. \A k \in Capability : \A v \in Versions : rows[k][v] = NoRow
    OBVIOUS
  <1>3. VersionChain /\ RowsCompiled
    BY <1>2 DEF VersionChain, RowsCompiled
  <1>4. CompiledKept /\ LosersExplained /\ SeenExists
    BY DEF CompiledKept, LosersExplained, SeenExists
  <1> QED BY <1>1, <1>3, <1>4 DEF Inv

\* A step that leaves the table alone, and finishes no compile, keeps what the
\* invariant says of the table.
LEMMA TableKept ==
    ASSUME Inv, UNCHANGED <<rows, seen>>, TypeOK',
           \A c \in Compile : (pc'[c] = "done") <=> (pc[c] = "done")
    PROVE  VersionChain' /\ CompiledKept' /\ RowsCompiled'
  <1> USE DEF Inv
  <1>1. VersionChain'
    BY DEF VersionChain, Versions
  <1>2. CompiledKept'
    BY DEF CompiledKept, Versions
  <1>3. RowsCompiled'
    BY DEF RowsCompiled, Versions
  <1> QED BY <1>1, <1>2, <1>3

LEMMA NotCompilableInv == ASSUME Inv, NEW c \in Compile, NotCompilable(c) PROVE Inv'
  <1> USE DEF NotCompilable
  <1>1. TypeOK'
    BY DEF Inv, TypeOK
  <1>2. \A d \in Compile : (pc'[d] = "done") <=> (pc[d] = "done")
    BY DEF Inv, TypeOK
  <1>3. VersionChain' /\ CompiledKept' /\ RowsCompiled'
    BY <1>1, <1>2, TableKept
  <1>4. LosersExplained'
    BY DEF Inv, TypeOK, LosersExplained
  <1>5. SeenExists'
    BY DEF Inv, TypeOK, SeenExists
  <1> QED BY <1>1, <1>3, <1>4, <1>5 DEF Inv

LEMMA ReadLatestInv == ASSUME Inv, NEW c \in Compile, ReadLatest(c) PROVE Inv'
  <1> USE ConstantsAssumption
  <1>1. PICK v \in 0..MaxVersion :
            v < MaxVersion /\ IsLatest(CapOf[c], v) /\ seen' = [seen EXCEPT ![c] = v]
    BY DEF ReadLatest
  <1>a. pc[c] = "start" /\ pc' = [pc EXCEPT ![c] = "insert"]
        /\ UNCHANGED <<rows, inTxn, served, projector, writes, crashes>>
    BY DEF ReadLatest
  <1>2. TypeOK'
    BY <1>1, <1>a DEF Inv, TypeOK
  <1>3. \A d \in Compile :
            /\ d # c => (pc'[d] = pc[d] /\ seen'[d] = seen[d])
            /\ d = c => (pc'[d] = "insert" /\ seen'[d] = v)
    BY <1>1, <1>a DEF Inv, TypeOK
  <1>4. VersionChain'
    BY <1>a DEF Inv, VersionChain
  <1>5. CompiledKept'
    BY <1>a, <1>3 DEF Inv, CompiledKept, Versions
  <1>6. LosersExplained'
    BY <1>a, <1>3 DEF Inv, LosersExplained
  <1>7. RowsCompiled'
    <2> SUFFICES ASSUME NEW k \in Capability, NEW w \in Versions, rows[k][w] # NoRow
                 PROVE  \E d \in Compile : pc'[d] = "done" /\ CapOf[d] = k /\ seen'[d] + 1 = w
      BY <1>a DEF RowsCompiled, Versions
    <2>1. PICK d \in Compile : pc[d] = "done" /\ CapOf[d] = k /\ seen[d] + 1 = w
      BY DEF Inv, RowsCompiled
    <2> QED BY <2>1, <1>a, <1>3
  <1>8. SeenExists'
    <2> SUFFICES ASSUME NEW d \in Compile, pc'[d] = "insert"
                 PROVE  /\ seen'[d] < MaxVersion
                        /\ (seen'[d] > 0) => (rows[CapOf[d]][seen'[d]] # NoRow)
      BY <1>a DEF SeenExists
    <2>1. CASE d = c
      BY <2>1, <1>1, <1>3 DEF IsLatest, Versions
    <2>2. CASE d # c
      BY <2>2, <1>3 DEF Inv, SeenExists
    <2> QED BY <2>1, <2>2
  <1> QED BY <1>2, <1>4, <1>5, <1>6, <1>7, <1>8 DEF Inv

\* What an insert writes is a row.
LEMMA NewRowType == ASSUME Inv, NEW c \in Compile PROVE NewRow(c) \in Row
  BY ConstantsAssumption DEF NewRow, Row, Classify

LEMMA InsertVersionInv == ASSUME Inv, NEW c \in Compile, InsertVersion(c) PROVE Inv'
  <1> USE ConstantsAssumption
  <1> DEFINE k == CapOf[c]
             n == seen[c] + 1
             r == NewRow(c)
  <1>0. /\ k \in Capability /\ seen[c] \in 0..MaxVersion /\ pc[c] = "insert"
        /\ rows[k][n] = NoRow
    BY DEF Inv, TypeOK, InsertVersion
  <1>1. seen[c] < MaxVersion /\ (seen[c] > 0 => rows[k][seen[c]] # NoRow)
    BY <1>0 DEF Inv, SeenExists
  <1>2. n \in Versions /\ r \in Row /\ r # NoRow
    BY <1>0, <1>1, NewRowType DEF Versions
  <1>3. /\ rows' = [rows EXCEPT ![k][n] = r] /\ inTxn' = FALSE
        /\ pc' = [pc EXCEPT ![c] = "done"]
        /\ UNCHANGED <<seen, served, projector, writes, crashes>>
    BY DEF InsertVersion
  <1>4. /\ r.interface = InterfaceOf[c]
        /\ seen[c] = 0 => r.compatibility = "BACKWARD"
        /\ seen[c] # 0 => r.compatibility =
               Classify(rows[k][seen[c]].interface, InterfaceOf[c])
    BY DEF NewRow
  <1> HIDE DEF k, n, r
  <1>5. TypeOK'
    BY <1>0, <1>2, <1>3 DEF Inv, TypeOK
  <1>6. \A l \in Capability : \A w \in Versions :
            rows'[l][w] = IF l = k /\ w = n THEN r ELSE rows[l][w]
    BY <1>0, <1>2, <1>3 DEF Inv, TypeOK
  <1>7. \A d \in Compile : pc'[d] = IF d = c THEN "done" ELSE pc[d]
    BY <1>3 DEF Inv, TypeOK
  <1>8. seen' = seen
    BY <1>3
  <1>9. \A d \in Compile : seen[d] \in 0..MaxVersion
    BY DEF Inv, TypeOK
  \* Nobody was told the number n of this capability before.
  <1>10. \A d \in Compile : (pc[d] = "done" /\ CapOf[d] = k) => seen[d] # seen[c]
    <2> SUFFICES ASSUME NEW d \in Compile, pc[d] = "done", CapOf[d] = k, seen[d] = seen[c]
                 PROVE  FALSE
      OBVIOUS
    <2>1. rows[k][n] # NoRow
      BY DEF Inv, CompiledKept, n
    <2> QED BY <2>1, <1>0
  <1>11. VersionChain'
    <2> SUFFICES ASSUME NEW l \in Capability, NEW v \in Versions, rows'[l][v] # NoRow
                 PROVE  IF v = 1 THEN rows'[l][v].compatibility = "BACKWARD"
                        ELSE /\ rows'[l][v - 1] # NoRow
                             /\ rows'[l][v].compatibility =
                                  Classify(rows'[l][v - 1].interface, rows'[l][v].interface)
      BY DEF VersionChain, Versions, Classify, Preserved
    <2>0. v # 1 => v - 1 \in Versions
      BY DEF Versions
    <2>1. CASE l = k /\ v = n
      <3>1. rows'[l][v] = r
        BY <2>1, <1>6
      <3>2. CASE seen[c] = 0
        BY <3>1, <3>2, <2>1, <1>4 DEF n
      <3>3. CASE seen[c] # 0
        <4>1. v # 1 /\ v - 1 = seen[c] /\ v - 1 # n
          BY <3>3, <2>1, <1>0 DEF n
        <4>2. rows'[l][v - 1] = rows[k][seen[c]]
          BY <4>1, <2>0, <2>1, <1>6
        <4>3. rows[k][seen[c]] # NoRow
          BY <3>3, <1>0, <1>1
        <4> QED BY <4>1, <4>2, <4>3, <3>1, <3>3, <1>4
      <3> QED BY <3>2, <3>3
    <2>2. CASE ~(l = k /\ v = n)
      <3>1. rows'[l][v] = rows[l][v]
        BY <2>2, <1>6
      <3>2. CASE v = 1
        BY <3>1, <3>2 DEF Inv, VersionChain
      <3>3. CASE v # 1
        <4>1. /\ rows[l][v - 1] # NoRow
              /\ rows[l][v].compatibility =
                     Classify(rows[l][v - 1].interface, rows[l][v].interface)
          BY <3>1, <3>3 DEF Inv, VersionChain
        <4>2. rows'[l][v - 1] = rows[l][v - 1]
          BY <4>1, <3>3, <2>0, <1>0, <1>6
        <4> QED BY <4>1, <4>2, <3>1, <3>3
      <3> QED BY <3>2, <3>3
    <2> QED BY <2>1, <2>2
  <1>12. CompiledKept'
    <2> SUFFICES ASSUME NEW d \in Compile, pc'[d] = "done"
                 PROVE  /\ seen[d] + 1 \in Versions
                        /\ rows'[CapOf[d]][seen[d] + 1] # NoRow
                        /\ rows'[CapOf[d]][seen[d] + 1].interface = InterfaceOf[d]
                        /\ \A e \in Compile \ {d} :
                             (pc'[e] = "done" /\ CapOf[e] = CapOf[d]) => seen[e] # seen[d]
      BY <1>8 DEF CompiledKept, Versions
    <2>0. CapOf[d] \in Capability
      OBVIOUS
    <2>1. CASE d = c
      BY <2>0, <2>1, <1>0, <1>2, <1>4, <1>6, <1>7, <1>10 DEF k, n
    <2>2. CASE d # c
      <3>1. pc[d] = "done"
        BY <2>2, <1>7
      <3>2. /\ seen[d] + 1 \in Versions
            /\ rows[CapOf[d]][seen[d] + 1] # NoRow
            /\ rows[CapOf[d]][seen[d] + 1].interface = InterfaceOf[d]
            /\ \A e \in Compile \ {d} :
                   (pc[e] = "done" /\ CapOf[e] = CapOf[d]) => seen[e] # seen[d]
        BY <3>1 DEF Inv, CompiledKept
      <3>3. rows'[CapOf[d]][seen[d] + 1] = rows[CapOf[d]][seen[d] + 1]
        BY <3>2, <2>0, <1>0, <1>6
      <3>4. CapOf[d] = k => seen[d] # seen[c]
        BY <3>1, <1>10
      <3> QED BY <3>2, <3>3, <3>4, <1>7 DEF k
    <2> QED BY <2>1, <2>2
  <1>13. LosersExplained'
    <2>1. \A e \in Compile : pc[e] = "done" => pc'[e] = "done"
      BY <1>7
    <2>2. \A e \in Compile : (pc[e] = "failed") <=> (pc'[e] = "failed")
      BY <1>0, <1>7
    <2> QED BY <2>1, <2>2, <1>3 DEF Inv, LosersExplained
  <1>14. RowsCompiled'
    <2> SUFFICES ASSUME NEW l \in Capability, NEW v \in Versions, rows'[l][v] # NoRow
                 PROVE  \E d \in Compile : pc'[d] = "done" /\ CapOf[d] = l /\ seen[d] + 1 = v
      BY <1>8 DEF RowsCompiled, Versions
    <2>1. CASE l = k /\ v = n
      BY <2>1, <1>7 DEF k, n
    <2>2. CASE ~(l = k /\ v = n)
      <3>1. PICK d \in Compile : pc[d] = "done" /\ CapOf[d] = l /\ seen[d] + 1 = v
        BY <2>2, <1>6 DEF Inv, RowsCompiled
      <3> QED BY <3>1, <1>7
    <2> QED BY <2>1, <2>2
  <1>15. SeenExists'
    <2> SUFFICES ASSUME NEW d \in Compile, pc'[d] = "insert"
                 PROVE  /\ seen[d] < MaxVersion
                        /\ (seen[d] > 0) => (rows'[CapOf[d]][seen[d]] # NoRow)
      BY <1>8 DEF SeenExists
    <2>1. pc[d] = "insert"
      BY <1>7
    <2>2. seen[d] < MaxVersion /\ (seen[d] > 0 => rows[CapOf[d]][seen[d]] # NoRow)
      BY <2>1 DEF Inv, SeenExists
    <2>3. CapOf[d] \in Capability /\ (seen[d] > 0 => seen[d] \in Versions)
      BY <1>9 DEF Versions
    <2> QED BY <2>2, <2>3, <1>2, <1>6
  <1> QED BY <1>5, <1>11, <1>12, <1>13, <1>14, <1>15 DEF Inv

LEMMA InsertFailsInv == ASSUME Inv, NEW c \in Compile, InsertFails(c) PROVE Inv'
  <1> USE ConstantsAssumption DEF InsertFails
  <1>1. TypeOK'
    BY DEF Inv, TypeOK
  <1>2. \A d \in Compile : pc'[d] = IF d = c THEN "failed" ELSE pc[d]
    BY DEF Inv, TypeOK
  <1>3. VersionChain' /\ CompiledKept' /\ RowsCompiled'
    BY <1>1, <1>2, TableKept
  <1>4. PICK w \in Compile : pc[w] = "done" /\ CapOf[w] = CapOf[c] /\ seen[w] = seen[c]
    <2>0. seen[c] \in 0..MaxVersion /\ seen[c] < MaxVersion
      BY DEF Inv, TypeOK, SeenExists
    <2>1. CapOf[c] \in Capability /\ seen[c] + 1 \in Versions
          /\ rows[CapOf[c]][seen[c] + 1] # NoRow
      BY <2>0 DEF Versions
    <2>2. PICK w \in Compile : pc[w] = "done" /\ CapOf[w] = CapOf[c] /\ seen[w] + 1 = seen[c] + 1
      BY <2>1 DEF Inv, RowsCompiled
    <2>3. seen[w] \in Nat /\ seen[c] \in Nat
      BY DEF Inv, TypeOK
    <2> QED BY <2>2, <2>3
  <1>5. LosersExplained'
    <2>1. pc'[w] = "done" /\ pc'[c] = "failed" /\ seen' = seen
      BY <1>2, <1>4
    <2>2. \A d \in Compile : pc[d] = "done" => pc'[d] = "done"
      BY <1>2
    <2> QED BY <2>1, <2>2, <1>2, <1>4 DEF Inv, LosersExplained
  <1>6. SeenExists'
    BY <1>2 DEF Inv, SeenExists
  <1> QED BY <1>1, <1>3, <1>5, <1>6 DEF Inv

LEMMA ResolveInv == ASSUME Inv, NEW q \in Replay, ResolveForTenant(q) PROVE Inv'
  <1>1. UNCHANGED <<rows, pc, seen, inTxn, projector, writes, crashes>>
    BY DEF ResolveForTenant
  <1>2. TypeOK'
    <2>1. PICK v \in Versions : served' = [served EXCEPT ![q] = v]
      BY DEF ResolveForTenant
    <2> QED BY <1>1, <2>1 DEF Inv, TypeOK, Versions
  <1>3. VersionChain' /\ CompiledKept' /\ RowsCompiled'
    BY <1>1, <1>2, TableKept
  <1>4. LosersExplained' /\ SeenExists'
    BY <1>1 DEF Inv, LosersExplained, SeenExists
  <1> QED BY <1>2, <1>3, <1>4 DEF Inv

LEMMA ProjectorInv == ASSUME Inv, BeginWrite \/ Write \/ Locked PROVE Inv'
  <1> USE ConstantsAssumption DEF BeginWrite, Write, Locked
  <1>1. UNCHANGED <<rows, pc, seen, inTxn, served, crashes>>
    OBVIOUS
  <1>2. TypeOK'
    <2>1. writes \in 0..MaxWrites
      BY DEF Inv, TypeOK
    <2>2. writes' \in 0..MaxWrites
      <3>1. CASE Write \/ Locked
        BY <2>1, <3>1
      <3>2. CASE BeginWrite
        BY <2>1, <3>2
      <3> QED BY <3>1, <3>2
    <2>3. projector' \in {"idle", "writing", "dead"}
      OBVIOUS
    <2> QED BY <1>1, <2>2, <2>3 DEF Inv, TypeOK, Versions
  <1>3. VersionChain' /\ CompiledKept' /\ RowsCompiled'
    BY <1>1, <1>2, TableKept
  <1>4. SeenExists'
    BY <1>1 DEF Inv, SeenExists
  <1>5. LosersExplained'
    BY DEF Inv, LosersExplained
  <1> QED BY <1>2, <1>3, <1>4, <1>5 DEF Inv

LEMMA CrashInv == ASSUME Inv, Crash PROVE Inv'
  <1> USE ConstantsAssumption DEF Crash
  <1>1. TypeOK'
    <2>1. pc' \in [Compile -> {"start", "insert", "done", "failed", "refused", "aborted"}]
      BY DEF Inv, TypeOK
    <2>2. crashes' \in 0..MaxCrashes
      BY DEF Inv, TypeOK
    <2>3. inTxn' \in BOOLEAN
      OBVIOUS
    <2> QED BY <2>1, <2>2, <2>3 DEF Inv, TypeOK, Versions
  <1>2. \A d \in Compile :
            /\ (pc'[d] = "done") <=> (pc[d] = "done")
            /\ (pc'[d] = "failed") <=> (pc[d] = "failed")
            /\ pc'[d] # "insert"
    OBVIOUS
  <1>3. VersionChain' /\ CompiledKept' /\ RowsCompiled'
    BY <1>1, <1>2, TableKept
  <1>4. LosersExplained'
    BY <1>2 DEF Inv, LosersExplained
  <1>5. SeenExists'
    BY <1>2 DEF SeenExists
  <1> QED BY <1>1, <1>3, <1>4, <1>5 DEF Inv

LEMMA NextInv == ASSUME Inv, [Next]_vars PROVE Inv'
  <1>1. CASE UNCHANGED vars
    BY <1>1 DEF vars, Inv, TypeOK, VersionChain, CompiledKept, LosersExplained, RowsCompiled,
                SeenExists, Versions, Classify, Preserved
  <1>2. ASSUME NEW c \in Compile, CompileCapability(c) PROVE Inv'
    BY <1>2, NotCompilableInv, ReadLatestInv, InsertVersionInv, InsertFailsInv
    DEF CompileCapability
  <1>3. ASSUME NEW q \in Replay, ResolveForTenant(q) PROVE Inv'
    BY <1>3, ResolveInv
  <1>4. CASE BeginWrite \/ Write \/ Locked
    BY <1>4, ProjectorInv
  <1>5. CASE Crash
    BY <1>5, CrashInv
  <1> QED BY <1>1, <1>2, <1>3, <1>4, <1>5 DEF Next

\* Inv holds in every reachable state.
THEOREM Invariance == Spec => []Inv
  BY InitInv, NextInv, PTL DEF Spec

\* Versions are numbered without gaps and each is labelled against the one right
\* before it, for any number of racing compiles and restarts.
THEOREM ChainUnbroken == Spec => []VersionChain
  <1>1. Inv => VersionChain
    BY DEF Inv
  <1> QED BY <1>1, Invariance, PTL

\* A compile fails on the primary key only against one that succeeded, and the
\* projector loses the database only to such a race.
THEOREM FailuresExplained == Spec => []LosersExplained
  <1>1. Inv => LosersExplained
    BY DEF Inv
  <1> QED BY <1>1, Invariance, PTL

\* The version a compile answered holds what it compiled, and was told to nobody
\* else.
THEOREM AnswersKept == Spec => []CompiledKept
  <1>1. Inv => CompiledKept
    BY DEF Inv
  <1> QED BY <1>1, Invariance, PTL

-----------------------------------------------------------------------------
(* Upgrades.                                                               *)

\* The versions of a capability are an initial part of the numbers: what makes
\* LabelsCompose inductive, as no version is put before an existing one.
NoGaps ==
    \A k \in Capability : \A u, v \in Versions :
        u <= v /\ rows[k][v] # NoRow => rows[k][u] # NoRow

\* The two promises a label makes: nothing was changed (same), or nothing removed.
Kept(same, i, j) == IF same THEN i = j ELSE Preserved(i, j)
Labels(same) == IF same THEN {"BACKWARD"} ELSE {"BACKWARD", "FORWARD"}

\* Each of them carries over from step to step, for all rows of the table.
LabelsCompose ==
    \A same \in BOOLEAN : \A k \in Capability : \A u, v \in Versions :
        /\ u <= v /\ rows[k][u] # NoRow /\ rows[k][v] # NoRow
        /\ \A w \in (u + 1)..v : rows[k][w].compatibility \in Labels(same)
        => Kept(same, rows[k][u].interface, rows[k][v].interface)

\* What was served is in the table.
ServedExists ==
    \A q \in Replay : served[q] # 0 => rows[TargetOf[q]][served[q]] # NoRow

UpgradeInv == Inv /\ NoGaps /\ LabelsCompose /\ ServedExists

LEMMA KeptTransitive ==
    ASSUME NEW same, NEW i, NEW j, NEW l, Kept(same, i, j), Kept(same, j, l)
    PROVE  Kept(same, i, l)
  BY DEF Kept, Preserved

LEMMA KeptReflexive == ASSUME NEW same, NEW i PROVE Kept(same, i, i)
  BY DEF Kept, Preserved

\* A label is right about the version before.
LEMMA LabelSound ==
    ASSUME NEW same, NEW i, NEW j, Classify(i, j) \in Labels(same)
    PROVE  Kept(same, i, j)
  BY DEF Classify, Preserved, Kept, Labels

LEMMA InitUpgrade == Init => UpgradeInv
  <1> SUFFICES ASSUME Init PROVE UpgradeInv
    OBVIOUS
  <1>1. \A k \in Capability : \A v \in Versions : rows[k][v] = NoRow
    BY DEF Init
  <1>2. NoGaps /\ LabelsCompose
    BY <1>1 DEF NoGaps, LabelsCompose
  <1>3. ServedExists
    BY DEF Init, ServedExists
  <1> QED BY <1>2, <1>3, InitInv DEF UpgradeInv

LEMMA InsertUpgrade ==
    ASSUME UpgradeInv, Inv', NEW c \in Compile, InsertVersion(c)
    PROVE  NoGaps' /\ LabelsCompose' /\ ServedExists'
  <1> USE ConstantsAssumption
  <1> DEFINE k == CapOf[c]
             n == seen[c] + 1
             r == NewRow(c)
  <1>0. /\ k \in Capability /\ seen[c] \in 0..MaxVersion /\ pc[c] = "insert"
        /\ rows[k][n] = NoRow
    BY DEF UpgradeInv, Inv, TypeOK, InsertVersion
  <1>1. seen[c] < MaxVersion /\ (seen[c] > 0 => rows[k][seen[c]] # NoRow)
    BY <1>0 DEF UpgradeInv, Inv, SeenExists
  <1>2. n \in Versions /\ r # NoRow /\ n \in Nat
    BY <1>0, <1>1, NewRowType DEF Versions, UpgradeInv
  <1>3. \A l \in Capability : \A w \in Versions :
            rows'[l][w] = IF l = k /\ w = n THEN r ELSE rows[l][w]
    <2>1. rows' = [rows EXCEPT ![k][n] = r]
      BY DEF InsertVersion
    <2> QED BY <2>1, <1>0, <1>2 DEF UpgradeInv, Inv, TypeOK
  <1>4. \A u \in Versions : u <= n /\ u # n => rows[k][u] # NoRow
    <2> SUFFICES ASSUME NEW u \in Versions, u <= n, u # n PROVE rows[k][u] # NoRow
      OBVIOUS
    <2>1. u <= seen[c] /\ seen[c] \in Versions /\ seen[c] > 0
      BY <1>0, <1>1 DEF Versions
    <2> QED BY <2>1, <1>0, <1>1 DEF UpgradeInv, NoGaps
  \* The row is the last one of its capability.
  <1>5. \A w \in Versions : n <= w => rows[k][w] = NoRow
    BY <1>0, <1>2 DEF UpgradeInv, NoGaps
  <1>6. seen[c] # 0 => Classify(rows[k][seen[c]].interface, r.interface) = r.compatibility
    BY DEF NewRow
  <1> HIDE DEF k, r
  <1>7. NoGaps'
    <2> SUFFICES ASSUME NEW l \in Capability, NEW u \in Versions, NEW v \in Versions,
                        u <= v, rows'[l][v] # NoRow
                 PROVE  rows'[l][u] # NoRow
      BY DEF NoGaps, Versions
    <2>1. CASE l = k /\ v = n
      BY <2>1, <1>2, <1>3, <1>4
    <2>2. CASE ~(l = k /\ v = n)
      <3>1. rows[l][v] # NoRow
        BY <2>2, <1>3
      <3>2. rows[l][u] # NoRow
        BY <3>1 DEF UpgradeInv, NoGaps
      <3> QED BY <3>2, <1>2, <1>3
    <2> QED BY <2>1, <2>2
  <1>8. LabelsCompose'
    <2> SUFFICES ASSUME NEW same \in BOOLEAN, NEW l \in Capability,
                        NEW u \in Versions, NEW v \in Versions,
                        u <= v, rows'[l][u] # NoRow, rows'[l][v] # NoRow,
                        \A w \in (u + 1)..v : rows'[l][w].compatibility \in Labels(same)
                 PROVE  Kept(same, rows'[l][u].interface, rows'[l][v].interface)
      BY DEF LabelsCompose, Versions, Labels, Kept, Preserved
    <2>0. \A w \in (u + 1)..v : w \in Versions
      BY DEF Versions
    <2>1. CASE u = v
      BY <2>1, KeptReflexive
    <2>2. CASE u # v /\ l = k /\ v = n
      <3>1. seen[c] \in Versions /\ u <= seen[c] /\ v = seen[c] + 1 /\ seen[c] # n
        BY <2>2, <1>0 DEF Versions
      <3>2. /\ rows'[l][u] = rows[k][u] /\ rows'[l][seen[c]] = rows[k][seen[c]]
            /\ rows'[l][v] = r
        BY <2>2, <3>1, <1>3
      <3>3. Kept(same, rows[k][u].interface, rows[k][seen[c]].interface)
        <4>1. \A w \in (u + 1)..seen[c] : rows[k][w].compatibility \in Labels(same)
          <5> SUFFICES ASSUME NEW w \in (u + 1)..seen[c]
                       PROVE  rows[k][w].compatibility \in Labels(same)
            OBVIOUS
          <5>1. w \in (u + 1)..v /\ w # n
            BY <3>1 DEF Versions
          <5> QED BY <5>1, <2>0, <2>2, <1>3
        <4>2. rows[k][u] # NoRow /\ rows[k][seen[c]] # NoRow
          BY <3>1, <3>2, <1>0, <1>1 DEF Versions
        <4> QED BY <4>1, <4>2, <3>1, <1>0 DEF UpgradeInv, LabelsCompose
      <3>4. Kept(same, rows[k][seen[c]].interface, r.interface)
        <4>1. v \in (u + 1)..v
          BY <2>2 DEF Versions
        <4>2. r.compatibility \in Labels(same)
          BY <4>1, <3>2
        <4>3. seen[c] # 0
          BY <3>1 DEF Versions
        <4> QED BY <4>2, <4>3, <1>6, LabelSound
      <3> QED BY <3>2, <3>3, <3>4, KeptTransitive
    <2>3. CASE u # v /\ ~(l = k /\ v = n)
      <3>1. rows'[l][v] = rows[l][v]
        BY <2>3, <1>3
      <3>2. \A w \in u..v : ~(l = k /\ w = n)
        <4> SUFFICES ASSUME l = k, n \in u..v PROVE FALSE
          OBVIOUS
        <4>1. rows[k][v] = NoRow
          BY <1>5 DEF Versions
        <4> QED BY <4>1, <3>1
      <3>3. rows'[l][u] = rows[l][u]
        BY <3>2, <1>3 DEF Versions
      <3>4. \A w \in (u + 1)..v : rows[l][w].compatibility \in Labels(same)
        <4> SUFFICES ASSUME NEW w \in (u + 1)..v PROVE rows[l][w].compatibility \in Labels(same)
          OBVIOUS
        <4>1. w \in u..v
          BY DEF Versions
        <4>2. rows'[l][w] = rows[l][w]
          BY <4>1, <3>2, <2>0, <1>3
        <4> QED BY <4>2
      <3> QED BY <3>1, <3>3, <3>4 DEF UpgradeInv, LabelsCompose
    <2> QED BY <2>1, <2>2, <2>3
  <1>9. ServedExists'
    BY <1>2, <1>3 DEF UpgradeInv, Inv, TypeOK, ServedExists, InsertVersion, Versions
  <1> QED BY <1>7, <1>8, <1>9

LEMMA NextUpgrade == ASSUME UpgradeInv, [Next]_vars PROVE UpgradeInv'
  <1>1. Inv'
    BY NextInv DEF UpgradeInv
  <1>2. CASE rows' = rows
    <2>1. NoGaps'
      BY <1>2 DEF UpgradeInv, NoGaps, Versions
    <2>2. LabelsCompose'
      BY <1>2 DEF UpgradeInv, LabelsCompose, Versions, Kept, Labels, Preserved
    <2>3. ServedExists'
      <3>1. CASE served' = served
        BY <1>2, <3>1 DEF UpgradeInv, ServedExists
      <3>2. ASSUME NEW q \in Replay, ResolveForTenant(q) PROVE ServedExists'
        BY <1>2, <3>2 DEF UpgradeInv, Inv, TypeOK, ServedExists, ResolveForTenant
      <3>3. served' = served \/ \E q \in Replay : ResolveForTenant(q)
        BY DEF Next, CompileCapability, NotCompilable, ReadLatest, InsertVersion, InsertFails,
               BeginWrite, Write, Locked, Crash, vars
      <3> QED BY <3>1, <3>2, <3>3
    <2> QED BY <1>1, <2>1, <2>2, <2>3 DEF UpgradeInv
  <1>3. ASSUME NEW c \in Compile, InsertVersion(c) PROVE UpgradeInv'
    BY <1>1, <1>3, InsertUpgrade DEF UpgradeInv
  <1>4. rows' = rows \/ \E c \in Compile : InsertVersion(c)
    BY DEF Next, CompileCapability, NotCompilable, ReadLatest, InsertFails, ResolveForTenant,
           BeginWrite, Write, Locked, Crash, vars
  <1> QED BY <1>2, <1>3, <1>4

LEMMA LabelsState == UpgradeInv => LabelsTell
  <1> SUFFICES ASSUME UpgradeInv, NEW q \in Replay, served[q] # 0,
                      NEW u \in 1..served[q]
               PROVE  LET table == rows[TargetOf[q]]
                          v == served[q]
                          labels == {table[w].compatibility : w \in (u + 1)..v}
                      IN  /\ table[u] # NoRow
                          /\ "BREAKING" \notin labels
                                => Preserved(table[u].interface, table[v].interface)
                          /\ labels \subseteq {"BACKWARD"}
                                => table[u].interface = table[v].interface
    BY DEF LabelsTell
  <1> USE ConstantsAssumption
  <1> DEFINE k == TargetOf[q]
             v == served[q]
             labels == {rows[k][w].compatibility : w \in (u + 1)..v}
  <1>1. /\ k \in Capability /\ v \in Versions /\ u \in Versions /\ u <= v
        /\ rows[k][v] # NoRow
    BY DEF UpgradeInv, Inv, TypeOK, ServedExists, Versions
  <1>2. rows[k][u] # NoRow
    BY <1>1 DEF UpgradeInv, NoGaps
  <1>3. ASSUME NEW w \in (u + 1)..v
        PROVE  rows[k][w].compatibility \in {"BACKWARD", "FORWARD", "BREAKING"}
    <2>1. w \in Versions /\ w <= v
      BY <1>1 DEF Versions
    <2>2. rows[k][w] \in Row
      BY <1>1, <2>1 DEF UpgradeInv, Inv, TypeOK, NoGaps
    <2> QED BY <2>2 DEF Row
  <1>4. ASSUME NEW same \in BOOLEAN,
               \A w \in (u + 1)..v : rows[k][w].compatibility \in Labels(same)
        PROVE  Kept(same, rows[k][u].interface, rows[k][v].interface)
    <2> HIDE DEF k, v
    <2> QED BY <1>1, <1>2, <1>4 DEF UpgradeInv, LabelsCompose
  <1>5. "BREAKING" \notin labels => Kept(FALSE, rows[k][u].interface, rows[k][v].interface)
    <2>1. "BREAKING" \notin labels
            => \A w \in (u + 1)..v : rows[k][w].compatibility \in Labels(FALSE)
      BY <1>3 DEF Labels
    <2> QED BY <2>1, <1>4
  <1>6. labels \subseteq {"BACKWARD"} => Kept(TRUE, rows[k][u].interface, rows[k][v].interface)
    <2>1. labels \subseteq {"BACKWARD"}
            => \A w \in (u + 1)..v : rows[k][w].compatibility \in Labels(TRUE)
      BY DEF Labels
    <2> QED BY <2>1, <1>4
  <1> QED BY <1>2, <1>5, <1>6 DEF Kept

\* What the labels between two versions tell a caller of the first who is served the
\* second: not BREAKING, nothing is gone; all BACKWARD, nothing has been added
\* either -- for any number of versions and whatever order the compiles came in.
THEOREM UpgradesKept == Spec => []LabelsTell
  <1> QED BY InitUpgrade, NextUpgrade, LabelsState, PTL DEF Spec
=============================================================================
