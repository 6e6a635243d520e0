--------------------------- MODULE SchemaUpgrade ---------------------------
(***************************************************************************)
(* Installation and upgrade of the database schema                         *)
(* (database::upgrade_schema, services/db/schema/*.sql), by any number of  *)
(* schema_upgrade processes, and the version check of the applications     *)
(* that open a connection (database::check_schema_version).                *)
(*                                                                         *)
(* Every statement of a script commits on its own: there is no transaction *)
(* and nobody uses the columns updater_id and update_started_at.  A        *)
(* statement that creates what exists fails, and so does its script.       *)
(* Module Startup runs these operations in a deployment.                   *)
(***************************************************************************)
EXTENDS Naturals, Sequences

CONSTANTS
    Upgraders,  \* schema_upgrade processes
    Apps,       \* processes that open a checked connection
    MaxDeaths   \* bound on processes killed or cut off from what they use

ASSUME SchemaAssumption ==
    /\ Upgraders \cap Apps = {}
    /\ MaxDeaths \in Nat

VARIABLES
    dialect,  \* --database
    objects,  \* tables, columns added later, indexes and views that exist
    rows,     \* the rows of table howling_version, by v
    names,    \* enum tables that hold the names of the protos
    granted,  \* objects the application's user may use
    pc,       \* where each process is in upgrade_schema or check_schema_version
    script,   \* the file an upgrader reads, and the number of its next command
    deaths    \* processes killed so far, for MaxDeaths

schemaVars == <<dialect, objects, rows, names, granted, script>>
vars == <<schemaVars, pc, deaths>>

-----------------------------------------------------------------------------
(* The scripts.                                                            *)

Create(created) == [kind |-> "create", creates |-> created, v |-> 0]
SetVersion(n) == [kind |-> "update", creates |-> {}, v |-> n]
InsertVersion(n) == [kind |-> "insert", creates |-> {}, v |-> n]

\* Two commands per update file or more: what it creates, then its version.
UpdateVersionFirst(creations, n) == <<SetVersion(n)>> \o creations
UpdateFile(creations, n) == Append(creations, SetVersion(n))

Updates == <<
    << >>,
    UpdateFile(<<Create({"auth_tokens"})>>, 2),
    UpdateFile(<<Create({"last_notified_at"})>>, 3),
    UpdateFile(<<Create({"notice_token"}), Create({"expires_at"})>>, 4),
    UpdateFile(<<Create({"enum_symbols"}), Create({"enum_actions"}), Create({"v_trades"})>>, 5)>>

\* db_internal::get_schema_version: the number of the last update file.
Latest == Len(Updates)

\* full.sql.
FullSchema == <<
    Create({"howling_version"}),
    Create({"auth_tokens", "notice_token", "last_notified_at", "expires_at"}),
    Create({"candles"}), Create({"market"}), Create({"trades"}), Create({"idx_trades"}),
    Create({"enum_symbols"}), Create({"enum_actions"}), Create({"v_trades"}),
    InsertVersion(Latest)>>

\* The commands of a file; full.sql stands before the updates.
Full == 0
File(n) == IF n = Full THEN FullSchema ELSE Updates[n]

\* Where a reader of the files is, and where none is.
Place(n, k) == [file |-> n, command |-> k]
End == Place(Latest + 1, 1)
Places == {End} \cup UNION {{Place(n, k) : k \in DOMAIN File(n)} : n \in {Full} \cup 2..Latest}

Command(place) == File(place.file)[place.command]

\* get_schema_update, from its first command; no file is called update_1.
UpdatesFromVersion(from) == IF from \in 2..Latest THEN Place(from, 1) ELSE Place(2, 1)
UpdatesAfter(from) == IF from < Latest THEN Place(from + 1, 1) ELSE End

\* split_commands goes through one file; only updates are followed by another.
Following(place) ==
    IF place.command < Len(File(place.file))
    THEN [place EXCEPT !.command = @ + 1]
    ELSE IF place.file = Full THEN End ELSE UpdatesAfter(place.file)

\* What a file creates, and what exists at a version.
Creations(commands) == UNION {commands[k].creates : k \in DOMAIN commands}
AllObjects == Creations(FullSchema)
ObjectsOf(version) == AllObjects \ UNION {Creations(Updates[n]) : n \in version + 1..Latest}

EnumTables == {"enum_symbols", "enum_actions"}

\* Tables that the prepared queries mention.
Queried == {"candles", "market", "trades", "auth_tokens", "notice_token", "last_notified_at", "expires_at"}

-----------------------------------------------------------------------------
(* The statements, each a step of its own.                                 *)

Goto(p, label) == pc' = [pc EXCEPT ![p] = label]
Unchanged == UNCHANGED <<dialect, objects, rows, names, granted, deaths>>

\* upgrade_schema is called, first or again, by schema_upgrade.
StartUpgrade(u) ==
    /\ pc[u] \in {"idle", "failed", "done"}
    /\ Goto(u, "exists")
    /\ Unchanged /\ UNCHANGED script

\* get_schema_version's first query.  Without a version table an upgrader
\* installs everything and an application gives up.
ExistsQuery(p) ==
    /\ pc[p] = "exists"
    /\ IF "howling_version" \in objects
       THEN Goto(p, "version") /\ UNCHANGED script
       ELSE /\ Goto(p, IF p \in Upgraders THEN "script" ELSE "failed")
            /\ script' = IF p \in Upgraders THEN [script EXCEPT ![p] = Place(Full, 1)] ELSE script
    /\ Unchanged

\* Its second query throws unless there is exactly one row.
UpgraderReadsVersion(u) ==
    /\ pc[u] = "version"
    /\ IF Len(rows) # 1
       THEN Goto(u, "failed") /\ UNCHANGED script
       ELSE Goto(u, "script") /\ script' = [script EXCEPT ![u] = UpdatesAfter(rows[1])]
    /\ Unchanged

AcceptsAnyVersion == Len(rows) = 1
Accepts == rows = <<Latest>>

AppReadsVersion(a) ==
    /\ pc[a] = "version"
    /\ Goto(a, IF Accepts THEN "prepare" ELSE "failed")
    /\ Unchanged /\ UNCHANGED script

\* A statement that creates an object fails if it exists.
CreatesIfNotExists(st) == TRUE
Succeeds(st) == st.creates \cap objects = {}

\* What a statement does to the version rows.
VersionRows(st) ==
    CASE st.kind = "create" -> rows
      [] st.kind = "insert" -> Append(rows, st.v)
      [] st.kind = "update" -> [i \in DOMAIN rows |-> st.v]

\* full_schema_install and the loop over get_schema_update.
Execute(u) ==
    LET st == Command(script[u]) IN
    /\ pc[u] = "script" /\ script[u] # End
    /\ IF Succeeds(st)
       THEN /\ objects' = objects \cup st.creates
            /\ rows' = VersionRows(st)
            /\ script' = [script EXCEPT ![u] = Following(@)]
            /\ UNCHANGED pc
       ELSE /\ Goto(u, "failed")
            /\ script' = [script EXCEPT ![u] = End]
            /\ UNCHANGED <<objects, rows>>
    /\ UNCHANGED <<dialect, names, granted, deaths>>

\* With SQLite nothing follows the script.
AfterScript == IF dialect = "postgres" THEN "enum_symbols" ELSE "done"

ScriptDone(u) ==
    /\ pc[u] = "script" /\ script[u] = End
    /\ Goto(u, AfterScript)
    /\ Unchanged /\ UNCHANGED script

\* sync_proto_enums fills one table, then the other.
SyncEnum(u) ==
    \E table \in EnumTables :
      /\ pc[u] = table
      /\ IF table \in objects
         THEN /\ names' = names \cup {table}
              /\ Goto(u, IF table = "enum_symbols" THEN "enum_actions" ELSE "grant")
         ELSE Goto(u, "failed") /\ UNCHANGED names
      /\ UNCHANGED <<dialect, objects, rows, granted, script, deaths>>

\* The GRANT statements, on the tables that exist.
Grant(u) ==
    /\ pc[u] = "grant"
    /\ granted' = granted \cup objects
    /\ Goto(u, "prepare")
    /\ UNCHANGED <<dialect, objects, rows, names, script, deaths>>

\* _prepare_queries, the last step of both calls with Postgres.
Prepare(p) ==
    /\ pc[p] = "prepare"
    /\ Goto(p, IF dialect = "postgres" /\ ~ Queried \subseteq objects
               THEN "failed" ELSE IF p \in Apps THEN "certificate" ELSE "done")
    /\ Unchanged /\ UNCHANGED script

\* A process is killed or loses its connection between two statements.
Dies(p) ==
    /\ pc[p] \notin {"idle", "failed", "done"} /\ deaths < MaxDeaths
    /\ deaths' = deaths + 1
    /\ Goto(p, "failed")
    /\ script' = IF p \in Upgraders THEN [script EXCEPT ![p] = End] ELSE script
    /\ UNCHANGED <<dialect, objects, rows, names, granted>>

-----------------------------------------------------------------------------

\* An empty database, one at a version, or one a later release has upgraded.
SchemaInit ==
    /\ dialect \in {"postgres", "sqlite"}
    /\ \/ rows = << >> /\ objects = {}
       \/ \E v \in 1..Latest : rows = <<v>> /\ objects = ObjectsOf(v)
       \/ rows = <<Latest + 1>> /\ objects = AllObjects
    /\ names = {}
    /\ granted = {}
    /\ pc = [p \in Upgraders \cup Apps |-> "idle"]
    /\ script = [u \in Upgraders |-> End]
    /\ deaths = 0

UpgraderStep(u) ==
    \/ ExistsQuery(u)
    \/ UpgraderReadsVersion(u)
    \/ Execute(u)
    \/ ScriptDone(u)
    \/ SyncEnum(u)
    \/ Grant(u)
    \/ Prepare(u)

ConnectStep(a) == ExistsQuery(a) \/ AppReadsVersion(a) \/ Prepare(a)

-----------------------------------------------------------------------------
(* Properties.                                                             *)

Labels == EnumTables \cup {"idle", "waiting", "secrets", "credentials", "exists", "version", "script", "grant",
    "prepare", "certificate", "numbers", "details", "positions", "done", "running", "failed"}

\* Every variable has its type, and there is one version row at most.
TypeOK ==
    /\ dialect \in {"postgres", "sqlite"}
    /\ objects \subseteq AllObjects /\ granted \subseteq objects
    /\ rows \in {<< >>} \cup {<<v>> : v \in 1..Latest + 1}
    /\ names \subseteq EnumTables
    /\ pc \in [Upgraders \cup Apps -> Labels]
    /\ script \in [Upgraders -> Places]
    /\ deaths \in 0..MaxDeaths

\* Whatever upgraders interleave or die, the version in the table never claims
\* an object that does not exist.
VersionMeansObjects ==
    /\ TypeOK
    /\ \A i \in DOMAIN rows : ObjectsOf(rows[i]) \subseteq objects

\* The objects go beyond the version, and no statement that is due can bring
\* the version up to them: a process died between a creating statement and its
\* version.
Torn ==
    /\ \A u \in Upgraders :
         script[u] # End => Command(script[u]).creates \cap objects # {}
    /\ objects # IF rows = << >> THEN {} ELSE ObjectsOf(rows[1])

=============================================================================
