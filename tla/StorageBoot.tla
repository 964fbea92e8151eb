------------------------------ MODULE StorageBoot ------------------------------
(* The boot of a memory database: initializeDatabase() (memory-db.ts) and       *)
(* ensureInitialized() of MemoryManager.initialize(), by several processes at   *)
(* once, each of which may die after any statement or transaction; the          *)
(* databases that earlier releases left, and the templates that installation    *)
(* seeds.  The columns of the legacy tables, which the last migration drops,    *)
(* are left out, and so are indexes and triggers.                               *)
EXTENDS Integers, Sequences, FiniteSets

CONSTANTS
  BootProcess,    \* daemons and commands that open the database
  MaxMessage,     \* bound: messages recorded
  MaxOlder,       \* bound: boots of an older release in between
  MaxBootDeath    \* bound: deaths and failures of a boot

BootAssumption == BootProcess # {} /\ {MaxMessage, MaxOlder, MaxBootDeath} \subseteq Nat

Latest == 14
PersonalTable == "personal"
ProjectionTables == {"projection"}
\* In the order the base schema creates them; "generation" is the row of
\* secret_key_state.
BaseTables == <<"messages", "operational", "questions", "secrets", "generation", PersonalTable>>
Needed == {BaseTables[i] : i \in 1..Len(BaseTables)} \cup ProjectionTables \cup {"ring"}

VARIABLES
  db,           \* version, tables, ledger, ids, legacy, generation
  messages,     \* rows of messages
  owned,        \* there is something of the user's in rows or files
  readiness,    \* personal_model_state
  core,         \* the files under core/
  bootAt,       \* where each process is
  versionRead,  \* the schema version it read
  vector,       \* sqlite-vec loads in this process
  older, bootDeaths

bootVars == <<db, messages, owned, readiness, core, bootAt, versionRead, vector, older, bootDeaths>>

BootPlace == {"down", "base", "version", "migrate", "drop", "look", "seed", "core", "serving"}

Databases ==
  [version : 0..Latest, tables : SUBSET Needed, ledger : {"none", "quoted", "old", "new"},
   ids : {"integer", "text"}, legacy : SUBSET {"memories", "vectors"}, generation : Nat]

BootTypeOK ==
  /\ db \in Databases /\ messages \in 0..MaxMessage + 1 /\ owned \in BOOLEAN
  /\ readiness \in {"none", "ready", "legacy"} /\ core \in {"none", "templates", "written"}
  /\ bootAt \in [BootProcess -> BootPlace] /\ versionRead \in [BootProcess -> 0..Latest]
  /\ vector \in [BootProcess -> BOOLEAN] /\ older \in 0..MaxOlder /\ bootDeaths \in 0..MaxBootDeath

NoDatabase ==
  [version |-> 0, tables |-> {}, ledger |-> "none", ids |-> "text", legacy |-> {}, generation |-> 0]

\* What releases left: the ledger came with version 3 and kept its constraint
\* where the version had passed the rebuild; identifiers are text since 6; the
\* model of today came with 12; a vector table outlives a drop without sqlite-vec.
Left(d) ==
  /\ d.version > 0 /\ "messages" \in d.tables
  /\ d.ledger = "none" <=> d.version < 3
  /\ d.version >= 11 => d.ledger = "new"
  /\ d.version >= 6 => d.ids = "text"
  /\ d.tables = {"messages"} \cup (IF d.version >= 2 THEN {"operational"} ELSE {})
                \cup (IF d.version >= 9 THEN {"questions"} ELSE {})
                \cup (IF d.version >= 10 THEN {"secrets", "generation"} ELSE {})
                \cup (IF d.version >= 12 THEN {"personal"} \cup ProjectionTables ELSE {})
                \cup (IF d.version >= 13 THEN {"ring"} ELSE {})
  /\ d.generation = (IF d.version >= 10 THEN 2 ELSE 0)
  /\ IF d.version >= 14 THEN d.legacy = {"vectors"} ELSE d.legacy = {"memories", "vectors"}

BootInit ==
  /\ \/ db = NoDatabase /\ messages = 0 /\ owned = FALSE /\ core = "none" /\ readiness = "none"
     \/ /\ \E v \in 1..Latest, l \in {"none", "quoted", "old", "new"}, i \in {"integer", "text"} :
             \E t \in SUBSET Needed, g \in SUBSET {"memories", "vectors"}, n \in {0, 2} :
               db = [version |-> v, tables |-> t, ledger |-> l, ids |-> i, legacy |-> g,
                     generation |-> n]
        /\ Left(db)
        /\ messages = 1 /\ owned = TRUE /\ core = "written"
        /\ readiness = (IF db.version >= 12 THEN "ready" ELSE "none")
  /\ bootAt = [p \in BootProcess |-> "down"] /\ versionRead = [p \in BootProcess |-> 0]
  /\ vector = [p \in BootProcess |-> FALSE] /\ older = 0 /\ bootDeaths = 0

-----------------------------------------------------------------------------
(* The migrations *)

\* normalizeLedgerSchemaSql(), rewriteLedgerSchemaSql().
Unquoted(ledger) == IF ledger = "quoted" THEN "old" ELSE ledger

\* ensureInflightLedgerState(): a table that does not know the state is rebuilt.
HealLedger(d) == IF Unquoted(d.ledger) = "old" THEN [d EXCEPT !.ledger = "new"] ELSE d

With(d, names) == [d EXCEPT !.tables = @ \cup names]

\* INSERT OR IGNORE of generation 1.
SeedGeneration(d) ==
  IF "generation" \in d.tables THEN d
  ELSE [With(d, {"secrets", "generation"}) EXCEPT !.generation = 1]

\* dropLegacyModelTables(): the vector table goes only where its module loads.
DropLegacy(d, loads) ==
  [d EXCEPT !.legacy = @ \ (IF loads THEN {"memories", "vectors"} ELSE {"memories"})]

\* Seeded fault: the second rebuild of the ledger (#1659) is left out.
FaultMigration(n, d, loads) ==
  CASE n = 2 -> With(d, {"operational"})
    [] n = 3 -> IF d.ledger = "none" THEN [d EXCEPT !.ledger = "new"] ELSE d
    [] n = 4 -> HealLedger(d)
    [] n = 6 -> [d EXCEPT !.ids = "text"]
    [] n = 9 -> With(d, {"questions"})
    [] n = 10 -> SeedGeneration(d)
    [] n = 12 -> With(d, {"personal"} \cup ProjectionTables)
    [] n = 13 -> With(d, {"ring"})
    [] n = 14 -> DropLegacy(d, loads)
    [] OTHER -> d

Migration(n, d, loads) ==
  CASE n = 2 -> With(d, {"operational"})
    [] n = 3 -> IF d.ledger = "none" THEN [d EXCEPT !.ledger = "new"] ELSE d
    [] n \in {4, 11} -> HealLedger(d)
    [] n = 6 -> [d EXCEPT !.ids = "text"]
    [] n = 9 -> With(d, {"questions"})
    [] n = 10 -> SeedGeneration(d)
    [] n = 12 -> With(d, {"personal"} \cup ProjectionTables)
    [] n = 13 -> With(d, {"ring"})
    [] n = 14 -> DropLegacy(d, loads)
    [] OTHER -> d

\* The n-th, when it is above the version that was read.
MigrateTo(n, d, from, loads) == IF n <= from THEN d ELSE Migration(n, d, loads)

\* All of them in their order; those left out change nothing here.
Migrated(d, from, loads) ==
  LET To(n, e) == MigrateTo(n, e, from, loads)
  IN To(14, To(13, To(12, To(11, To(10, To(9, To(6, To(4, To(3, To(2, d))))))))))

-----------------------------------------------------------------------------
(* A boot *)

BootGoto(p, place) == bootAt' = [bootAt EXCEPT ![p] = place]

OpenDatabase(p) ==
  /\ bootAt[p] = "down"
  /\ \E b \in BOOLEAN : vector' = [vector EXCEPT ![p] = b]
  /\ BootGoto(p, "base")
  /\ UNCHANGED <<db, messages, owned, readiness, core, versionRead, older, bootDeaths>>

\* Each statement of the base schema commits by itself.
Create(p) ==
  LET missing == {i \in 1..Len(BaseTables) : BaseTables[i] \notin db.tables}
      next == BaseTables[CHOOSE i \in missing : \A j \in missing : i <= j]
  IN /\ bootAt[p] = "base"
     /\ IF missing = {} THEN UNCHANGED db /\ BootGoto(p, "version")
        ELSE /\ db' = IF next = "generation" THEN SeedGeneration(db) ELSE With(db, {next})
             /\ UNCHANGED bootAt
     /\ UNCHANGED <<messages, owned, readiness, core, versionRead, vector, older, bootDeaths>>

\* ensureSchema() reads the version before its transaction begins.
ReadVersion(p) ==
  /\ bootAt[p] = "version"
  /\ versionRead' = [versionRead EXCEPT ![p] = db.version] /\ BootGoto(p, "migrate")
  /\ UNCHANGED <<db, messages, owned, readiness, core, vector, older, bootDeaths>>

Migrate(p) ==
  /\ bootAt[p] = "migrate"
  /\ db' = [Migrated(db, versionRead[p], vector[p]) EXCEPT !.version = Latest]
  /\ BootGoto(p, "drop")
  /\ UNCHANGED <<messages, owned, readiness, core, versionRead, vector, older, bootDeaths>>

Drop(p) ==
  /\ bootAt[p] = "drop" /\ db' = DropLegacy(db, vector[p]) /\ BootGoto(p, "look")
  /\ UNCHANGED <<messages, owned, readiness, core, versionRead, vector, older, bootDeaths>>

\* seedPersonalReadiness(): a row there is stays.
Look(p) ==
  /\ bootAt[p] = "look" /\ BootGoto(p, IF readiness = "none" THEN "seed" ELSE "core")
  /\ UNCHANGED <<db, messages, owned, readiness, core, versionRead, vector, older, bootDeaths>>

\* Rows or files, whoever wrote them, make it legacy; an insert over a row that
\* came meanwhile throws.
Seed(p) ==
  /\ bootAt[p] = "seed" /\ readiness = "none"
  /\ readiness' = (IF messages > 0 \/ core # "none" THEN "legacy" ELSE "ready")
  /\ BootGoto(p, "core")
  /\ UNCHANGED <<db, messages, owned, core, versionRead, vector, older, bootDeaths>>

\* ensureCoreFiles() copies the templates that are missing.
SeedCore(p) ==
  /\ bootAt[p] = "core" /\ BootGoto(p, "serving")
  /\ core' = (IF core = "none" THEN "templates" ELSE core)
  /\ UNCHANGED <<db, messages, owned, readiness, versionRead, vector, older, bootDeaths>>

\* A boot fails on a busy database or an insert over a row; a process dies.
BootFails(p) ==
  /\ bootAt[p] # "down" /\ BootGoto(p, "down")
  /\ IF bootAt[p] = "seed" /\ readiness # "none" THEN UNCHANGED bootDeaths
     ELSE bootDeaths < MaxBootDeath /\ bootDeaths' = bootDeaths + 1
  /\ UNCHANGED <<db, messages, owned, readiness, core, versionRead, vector, older>>

CloseDatabase(p) ==
  /\ bootAt[p] = "serving" /\ BootGoto(p, "down")
  /\ UNCHANGED <<db, messages, owned, readiness, core, versionRead, vector, older, bootDeaths>>

-----------------------------------------------------------------------------
(* What else writes *)

StoreMessage(p) ==
  /\ bootAt[p] = "serving" /\ messages < MaxMessage
  /\ messages' = messages + 1 /\ owned' = TRUE
  /\ UNCHANGED <<db, readiness, core, bootAt, versionRead, vector, older, bootDeaths>>

\* reconcile() of an installation or an update: templates that are missing.
ReconcileCore ==
  /\ core = "none" /\ core' = "templates"
  /\ UNCHANGED <<db, messages, owned, readiness, bootAt, versionRead, vector, older, bootDeaths>>

\* An older release boots: it knows fewer migrations and records their number,
\* and its base schema has the tables of the legacy model.
BootOlder ==
  /\ older < MaxOlder /\ db.version > 0 /\ \A p \in BootProcess : bootAt[p] = "down"
  /\ older' = older + 1
  /\ \E v \in {3, 10, 13} :
       /\ v < db.version
       /\ db' = [db EXCEPT !.version = v, !.legacy = {"memories", "vectors"}]
  /\ UNCHANGED <<messages, owned, readiness, core, bootAt, versionRead, vector, bootDeaths>>

BootNext ==
  \/ \E p \in BootProcess :
       \/ OpenDatabase(p) \/ Create(p) \/ ReadVersion(p) \/ Migrate(p) \/ Drop(p) \/ Look(p)
       \/ Seed(p) \/ SeedCore(p) \/ BootFails(p) \/ CloseDatabase(p) \/ StoreMessage(p)
  \/ ReconcileCore \/ BootOlder

BootSpec == BootInit /\ [][BootNext]_bootVars

-----------------------------------------------------------------------------

\* What the handlers of a served database rely on: a ledger that takes
\* "in_flight", identifiers that keep a snowflake, every table, and nothing of
\* the legacy model that could be dropped.
DatabaseWhole(p) ==
  /\ db.ledger = "new" /\ db.ids = "text" /\ Needed \subseteq db.tables /\ readiness # "none"
  /\ "memories" \notin db.legacy /\ (vector[p] => "vectors" \notin db.legacy)

\* What a step may do: who comes to serve has a whole database; generations and
\* messages only grow; readiness stays, and is not "ready" of what was owned.
BootStep ==
  /\ \A p \in BootProcess : bootAt[p] # "serving" /\ bootAt'[p] = "serving" => DatabaseWhole(p)'
  /\ db'.generation >= db.generation /\ messages' >= messages
  /\ readiness # "none" => readiness' = readiness
  /\ readiness = "none" /\ readiness' = "ready" => ~owned

\* Whatever release left the database, however boots of several processes
\* interleave or die: a process that comes to serve has a whole database, and no
\* boot starts the key generations over, loses a message, or says "ready" of a
\* store that has something of the user's and never said so.
BootConverges == [][BootStep]_bootVars

\* "readiness is evaluated on the empty store, so install-seeded templates never
\* read as legacy content" (cli/abmind-install.ts:138): an installation that
\* holds nothing of the user's is not refused as legacy.
FreshIsReady == readiness = "legacy" => owned

=============================================================================
