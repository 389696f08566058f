------------------------------ MODULE Registry ------------------------------
(***************************************************************************)
(* The write side of the capability registry: the handlers of              *)
(* CompileCapability and ResolveForTenant (services/capability_registry/   *)
(* server.py, compiler.py, versioning.py) on the table capabilities, which *)
(* they reach over one SQLite connection shared by all handler threads,    *)
(* and the projector of the gateway process, which writes to the same file *)
(* over a connection of its own.                                           *)
(*                                                                         *)
(* What a discovery run compiles to is its interface here (InterfaceOf);   *)
(* module Compiler has the compilation itself.                             *)
(***************************************************************************)
EXTENDS Naturals, FiniteSets

CONSTANTS Capability,   \* capability ids
          Compile,      \* calls of CompileCapability
          CapOf,        \* CapOf[c]: the capability that call c compiles
          InterfaceOf,  \* InterfaceOf[c]: the interface that its run compiles to
          Replay,       \* calls of ResolveForTenant
          TargetOf,     \* TargetOf[q]: the capability that call q asks for
          Wanted,       \* Wanted[q]: the version it asks for, 0 for the latest
          Item,         \* named and typed inputs and outputs, checkpoint shapes
          NoRow,        \* no row under that key
          MaxVersion,   \* bound: versions of one capability
          MaxWrites,    \* bound: writes of the projector
          MaxCrashes    \* bound: restarts of the registry server

\* An artifact as versioning.py looks at it: _param_shape, _output_shape and
\* _checkpoint_shape.
Interface == [inputs : SUBSET Item, outputs : SUBSET Item, checkpoints : SUBSET Item]

Row == [interface : Interface, compatibility : {"BACKWARD", "FORWARD", "BREAKING"}]

ASSUME ConstantsAssumption ==
    /\ CapOf \in [Compile -> Capability]
    /\ InterfaceOf \in [Compile -> Interface]
    /\ TargetOf \in [Replay -> Capability]
    /\ NoRow \notin Row
    /\ MaxVersion \in Nat
    /\ Wanted \in [Replay -> 0..MaxVersion]
    /\ MaxWrites \in Nat
    /\ MaxCrashes \in Nat

VARIABLES rows,         \* capabilities: per capability and version, scope "*"
          pc,           \* where each compile is
          seen,         \* latest_version as the compile read it, 0 for none
          inTxn,        \* the shared connection has an open write transaction
          served,       \* the version a replay was given, 0 before
          projector,    \* the projector thread: idle, writing, dead
          writes,       \* the writes it has begun
          crashes

vars == <<rows, pc, seen, inTxn, served, projector, writes, crashes>>

Versions == 1..MaxVersion

Init ==
    /\ rows = [k \in Capability |-> [v \in Versions |-> NoRow]]
    /\ pc = [c \in Compile |-> "start"]
    /\ seen = [c \in Compile |-> 0]
    /\ inTxn = FALSE
    /\ served = [q \in Replay |-> 0]
    /\ projector = "idle" /\ writes = 0
    /\ crashes = 0

-----------------------------------------------------------------------------
(* versioning.py                                                           *)

\* Nothing that i has was removed or retyped in j.
Preserved(i, j) ==
    /\ i.inputs \subseteq j.inputs
    /\ i.outputs \subseteq j.outputs
    /\ i.checkpoints \subseteq j.checkpoints

\* Mutant: the checkpoints are not compared.
ClassifyLoose(old, new) ==
    IF old = new THEN "BACKWARD"
    ELSE IF old.inputs \subseteq new.inputs /\ old.outputs \subseteq new.outputs
         THEN "FORWARD" ELSE "BREAKING"

\* classify_compatibility
Classify(old, new) ==
    IF old = new THEN "BACKWARD"
    ELSE IF Preserved(old, new) THEN "FORWARD" ELSE "BREAKING"

-----------------------------------------------------------------------------
(* store.py                                                                *)

\* SELECT ... ORDER BY version DESC LIMIT 1 finds v, or nothing (0).
IsLatest(k, v) ==
    /\ v \in Versions => rows[k][v] # NoRow
    /\ \A w \in Versions : w > v => rows[k][w] = NoRow

-----------------------------------------------------------------------------
(* CompileCapability: compile_capability reads the latest version, compares *)
(* and inserts the next one.                                               *)

\* The run has no RunSucceeded event: ValueError.
NotCompilable(c) ==
    /\ pc[c] = "start"
    /\ pc' = [pc EXCEPT ![c] = "refused"]
    /\ UNCHANGED <<rows, seen, inTxn, served, projector, writes, crashes>>

\* Mutant: the read is made in a write transaction that nobody ends.
ReadLatestLocks(c) ==
    /\ pc[c] = "start"
    /\ \E v \in 0..MaxVersion :
          /\ v < MaxVersion /\ IsLatest(CapOf[c], v)
          /\ seen' = [seen EXCEPT ![c] = v]
    /\ pc' = [pc EXCEPT ![c] = "insert"]
    /\ inTxn' = TRUE
    /\ UNCHANGED <<rows, served, projector, writes, crashes>>

ReadLatest(c) ==
    /\ pc[c] = "start"
    /\ \E v \in 0..MaxVersion :
          /\ v < MaxVersion /\ IsLatest(CapOf[c], v)
          /\ seen' = [seen EXCEPT ![c] = v]
    /\ pc' = [pc EXCEPT ![c] = "insert"]
    /\ UNCHANGED <<rows, inTxn, served, projector, writes, crashes>>

\* The first version of a capability is BACKWARD.
NewRow(c) ==
    LET old == rows[CapOf[c]][seen[c]] IN
    [interface |-> InterfaceOf[c],
     compatibility |-> IF seen[c] = 0 THEN "BACKWARD"
                       ELSE Classify(old.interface, InterfaceOf[c])]

\* Mutant: INSERT OR REPLACE.
InsertOrReplace(c) ==
    /\ pc[c] = "insert"
    /\ rows' = [rows EXCEPT ![CapOf[c]][seen[c] + 1] = NewRow(c)]
    /\ inTxn' = FALSE
    /\ pc' = [pc EXCEPT ![c] = "done"]
    /\ UNCHANGED <<seen, served, projector, writes, crashes>>

\* insert_version commits, and with it whatever the connection had open.
InsertVersion(c) ==
    /\ pc[c] = "insert"
    /\ rows[CapOf[c]][seen[c] + 1] = NoRow
    /\ rows' = [rows EXCEPT ![CapOf[c]][seen[c] + 1] = NewRow(c)]
    /\ inTxn' = FALSE
    /\ pc' = [pc EXCEPT ![c] = "done"]
    /\ UNCHANGED <<seen, served, projector, writes, crashes>>

\* The primary key refuses the row: IntegrityError leaves the handler, and the
\* transaction that the INSERT began stays open on the shared connection.
InsertFails(c) ==
    /\ pc[c] = "insert"
    /\ rows[CapOf[c]][seen[c] + 1] # NoRow
    /\ inTxn' = TRUE
    /\ pc' = [pc EXCEPT ![c] = "failed"]
    /\ UNCHANGED <<rows, seen, served, projector, writes, crashes>>

-----------------------------------------------------------------------------
(* ResolveForTenant: the version asked for, or the latest one.  NOT_FOUND   *)
(* ends the call and changes nothing.                                      *)

ResolveForTenant(q) ==
    /\ served[q] = 0
    /\ \E v \in Versions :
          /\ rows[TargetOf[q]][v] # NoRow
          /\ IF Wanted[q] = 0 THEN IsLatest(TargetOf[q], v) ELSE v = Wanted[q]
          /\ served' = [served EXCEPT ![q] = v]
    /\ UNCHANGED <<rows, pc, seen, inTxn, projector, writes, crashes>>

-----------------------------------------------------------------------------
(* The projector's connection, and restarts.                               *)

\* record_validation, upsert_run, ...: the thread wants to write.
BeginWrite ==
    /\ projector = "idle" /\ writes < MaxWrites
    /\ projector' = "writing" /\ writes' = writes + 1
    /\ UNCHANGED <<rows, pc, seen, inTxn, served, crashes>>

Write ==
    /\ projector = "writing" /\ ~inTxn
    /\ projector' = "idle"
    /\ UNCHANGED <<rows, pc, seen, inTxn, served, writes, crashes>>

\* The file stays locked for longer than sqlite3 waits: the exception ends the
\* thread.
Locked ==
    /\ projector = "writing" /\ inTxn
    /\ projector' = "dead"
    /\ UNCHANGED <<rows, pc, seen, inTxn, served, writes, crashes>>

\* The registry server restarts: its calls fail, its transaction is rolled back.
Crash ==
    /\ crashes < MaxCrashes
    /\ crashes' = crashes + 1
    /\ pc' = [c \in Compile |-> IF pc[c] = "insert" THEN "aborted" ELSE pc[c]]
    /\ inTxn' = FALSE
    /\ UNCHANGED <<rows, seen, served, projector, writes>>

CompileCapability(c) ==
    NotCompilable(c) \/ ReadLatest(c) \/ InsertVersion(c) \/ InsertFails(c)

Next ==
    \/ \E c \in Compile : CompileCapability(c)
    \/ \E q \in Replay : ResolveForTenant(q)
    \/ BeginWrite \/ Write \/ Locked
    \/ Crash

Spec == Init /\ [][Next]_vars

-----------------------------------------------------------------------------
(* Properties.                                                             *)

TypeOK ==
    /\ rows \in [Capability -> [Versions -> Row \cup {NoRow}]]
    /\ pc \in [Compile -> {"start", "insert", "done", "failed", "refused", "aborted"}]
    /\ seen \in [Compile -> 0..MaxVersion]
    /\ inTxn \in BOOLEAN
    /\ served \in [Replay -> 0..MaxVersion]
    /\ projector \in {"idle", "writing", "dead"}
    /\ writes \in 0..MaxWrites /\ crashes \in 0..MaxCrashes

\* The versions of a capability are numbered without gaps, and each is labelled
\* against the version right before it, though latest_version and the insert
\* are two transactions and other compiles come in between (compiler.py:124-164).
VersionChain ==
    \A k \in Capability : \A v \in Versions :
        rows[k][v] # NoRow =>
            IF v = 1 THEN rows[k][v].compatibility = "BACKWARD"
            ELSE /\ rows[k][v - 1] # NoRow
                 /\ rows[k][v].compatibility =
                        Classify(rows[k][v - 1].interface, rows[k][v].interface)

\* What the labels tell a caller who was written against version u and is served
\* version v, the default or not: if none of the versions after u is labelled
\* BREAKING, all inputs, outputs and checkpoints of u are still there
\* (versioning.py:38-46).  That it need not fill in more than before it may
\* conclude only if all of them are labelled BACKWARD: a FORWARD one may add an
\* input, without which the executor fails hard (executor.py:57-65).  The default
\* itself is the latest version whatever its label (server.py:62-65).
LabelsTell ==
    \A q \in Replay : served[q] # 0 =>
        LET table == rows[TargetOf[q]]
            v == served[q]
        IN  \A u \in 1..v :
                LET labels == {table[w].compatibility : w \in (u + 1)..v} IN
                /\ table[u] # NoRow
                /\ "BREAKING" \notin labels => Preserved(table[u].interface, table[v].interface)
                /\ labels \subseteq {"BACKWARD"} => table[u].interface = table[v].interface

\* What a call answered stays true: the version it returned holds what it
\* compiled, and no other call was told the same number.
CompiledKept ==
    \A c \in Compile : pc[c] = "done" =>
        /\ seen[c] + 1 \in Versions
        /\ rows[CapOf[c]][seen[c] + 1] # NoRow
        /\ rows[CapOf[c]][seen[c] + 1].interface = InterfaceOf[c]
        /\ \A d \in Compile \ {c} :
               (pc[d] = "done" /\ CapOf[d] = CapOf[c]) => seen[d] # seen[c]

\* A compile that fails on the primary key has lost to another one that
\* succeeded; and the database is locked for the projector, or was so for too
\* long, only after such a race: compiles that do not overlap never end it.
LosersExplained ==
    /\ \A c \in Compile : pc[c] = "failed" =>
           \E d \in Compile : pc[d] = "done" /\ CapOf[d] = CapOf[c] /\ seen[d] = seen[c]
    /\ (inTxn \/ projector = "dead") => \E c \in Compile : pc[c] = "failed"

\* Every row is of a call that was told so (for the first part above).
RowsCompiled ==
    \A k \in Capability : \A v \in Versions : rows[k][v] # NoRow =>
        \E d \in Compile : pc[d] = "done" /\ CapOf[d] = k /\ seen[d] + 1 = v

\* A compile that is about to insert has seen a version that exists.
SeenExists ==
    \A c \in Compile : pc[c] = "insert" =>
        /\ seen[c] < MaxVersion
        /\ (seen[c] > 0) => (rows[CapOf[c]][seen[c]] # NoRow)

Inv == TypeOK /\ VersionChain /\ CompiledKept /\ LosersExplained /\ RowsCompiled /\ SeenExists
=============================================================================
