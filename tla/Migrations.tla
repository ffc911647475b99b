----------------------------- MODULE Migrations -----------------------------
(***************************************************************************)
(* Migrator::run (migrations/mod.rs).  The API server, ingest, neon-sync   *)
(* (for both databases) and search-eval run it when they start: it reads   *)
(* the versions recorded once, then executes and records each version it   *)
(* did not find, in two statements.  Nothing keeps two programs from doing *)
(* so at once.                                                             *)
(*                                                                         *)
(* Of the scripts (migrations/), those are modelled that touch the cache   *)
(* of vectors (table embeddings) or the full-text functions: 001, 002, 004,*)
(* 005, 011, 012 and 015.  The others can be executed again, or refuse     *)
(* (007, when code_changes holds vectors): then the run ends as in Abort.  *)
(***************************************************************************)
EXTENDS Naturals, Sequences, FiniteSets

CONSTANTS
    Migrators,      \* programs that start
    Models,         \* embedding models of the current release
    MaxStarts       \* bound on the starts

ASSUME MigrationsAssumption == MaxStarts \in Nat

VARIABLES
    recorded,       \* table _migrations
    schema,         \* what the scripts are about
    embeddings,     \* table embeddings: the models with a vector of a row
    current,        \* those of them stored since 011 was recorded
    migrator,       \* applied and position of each program
    overtaken,      \* versions executed after they had been recorded
    starts

migrationsVars == <<recorded, schema, embeddings, current, migrator, overtaken, starts>>

embedded == <<"001", "002", "004", "005", "011", "012", "015">>
Position == 1 .. Len(embedded)
AllVersions == {embedded[i] : i \in Position}
Stopped  == [at |-> "stopped", applied |-> {}, next |-> 1]
Serving  == [at |-> "serving", applied |-> {}, next |-> 1]

(* dimension: of the vectors in the cache, "other" in a database from      *)
(* before 2048; source: idx_embeddings_source; model: idx_embeddings_-     *)
(* source_model; fts: the full-text functions.                             *)
Schemas == [dimension : {"none", "other", "2048", "any"}, source : {"none", "plain", "unique"},
            model : {"none", "unique"}, fts : {"none", "plain", "guarded"}]
Empty   == [dimension |-> "none", source |-> "none", model |-> "none", fts |-> "none"]

MigrationsTypeOK ==
    /\ recorded \subseteq AllVersions /\ overtaken \subseteq AllVersions
    /\ schema \in Schemas /\ embeddings \subseteq Models /\ current \subseteq Models
    /\ \A p \in Migrators : /\ migrator[p].at \in {"stopped", "execute", "record", "serving"}
                            /\ migrator[p].next \in Position
                            /\ migrator[p].applied \subseteq AllVersions
    /\ starts \in 0 .. MaxStarts

-----------------------------------------------------------------------------
(* The schema after a script.  005 and 011 are to rebuild a table whose    *)
(* dimension is wrong, but compare the type modifier, which for a vector   *)
(* is its dimension, with 2052: they always do.                            *)
Script(v, s) ==
    CASE v = "001" -> [s EXCEPT !.dimension = IF @ = "none" THEN "2048" ELSE @,
                                !.source = IF @ = "none" THEN "plain" ELSE @,
                                !.fts = "plain"]
      [] v = "002" -> [s EXCEPT !.fts = "plain"]
      [] v = "004" -> [s EXCEPT !.source = "unique"]
      [] v \in {"005", "011"} -> [s EXCEPT !.dimension = "2048", !.source = "unique",
                                           !.model = "none"]
      [] v = "012" -> [s EXCEPT !.fts = "guarded"]
      [] v = "015" -> [s EXCEPT !.dimension = "any", !.source = "none", !.model = "unique"]

(* What a script may leave of the cached vectors of a row: 004 leaves the  *)
(* newest, whatever its model; 005 and 011 drop the table.                 *)
Left(v, c) ==
    IF v \in {"005", "011"} THEN {{}}
    ELSE IF v = "004" /\ c # {} THEN {{m} : m \in c}
    ELSE {c}

(* The database after the first n scripts, in order. *)
Built[n \in 0 .. Len(embedded)] ==
    IF n = 0 THEN Empty ELSE Script(embedded[n], Built[n - 1])

(* A database an older or the same release left, which had one model until *)
(* 015, and another dimension, perhaps, until 011.                         *)
MigrationsInit ==
    /\ \E n \in 0 .. Len(embedded) :
         /\ recorded = {embedded[i] : i \in 1 .. n}
         /\ \/ schema = Built[n]
            \/ n \in 1 .. 4 /\ schema = [Built[n] EXCEPT !.dimension = "other"]
         /\ \/ embeddings = {}
            \/ n > 0 /\ \E m \in Models : embeddings = {m}
            \/ n = 7 /\ embeddings \in SUBSET Models
         /\ current = IF n >= 5 THEN embeddings ELSE {}
    /\ migrator = [p \in Migrators |-> Stopped]
    /\ overtaken = {} /\ starts = 0

-----------------------------------------------------------------------------
(* Mutant: the version is recorded first. *)
RecordThenExecute == <<"record", "execute">>

(* The two statements for a version. *)
Order == <<"execute", "record">>

(* The first version from position n on that is not in applied, or the end.*)
Seek(applied, n) ==
    LET pending == {i \in Position : i >= n /\ embedded[i] \notin applied}
    IN  IF pending = {} THEN Serving
        ELSE [at |-> Order[1], applied |-> applied,
              next |-> CHOOSE i \in pending : \A j \in pending : i <= j]

(* CREATE TABLE IF NOT EXISTS _migrations; the versions are read once. *)
StartMigrator(p) ==
    /\ migrator[p] = Stopped /\ starts < MaxStarts
    /\ starts' = starts + 1
    /\ migrator' = [migrator EXCEPT ![p] = Seek(recorded, 1)]
    /\ UNCHANGED <<recorded, schema, embeddings, current, overtaken>>

Onward(p) ==
    IF migrator[p].at = Order[1] THEN [migrator[p] EXCEPT !.at = Order[2]]
    ELSE IF migrator[p].next = Len(embedded) THEN Serving
    ELSE Seek(migrator[p].applied, migrator[p].next + 1)

(* raw_sql: the statements of a script are one implicit transaction. *)
Execute(p) ==
    LET v == embedded[migrator[p].next]
    IN  /\ migrator[p].at = "execute"
        /\ schema' = Script(v, schema)
        /\ embeddings' \in Left(v, embeddings)
        /\ overtaken' = overtaken \cup ({v} \cap recorded)
        /\ migrator' = [migrator EXCEPT ![p] = Onward(p)]
        /\ UNCHANGED <<recorded, current, starts>>

(* version is the PRIMARY KEY: one recorded meanwhile ends the program. *)
Record(p) ==
    LET v == embedded[migrator[p].next]
    IN  /\ migrator[p].at = "record"
        /\ recorded' = recorded \cup {v}
        /\ migrator' = [migrator EXCEPT ![p] = IF v \in recorded THEN Stopped ELSE Onward(p)]
        /\ UNCHANGED <<schema, embeddings, current, overtaken, starts>>

(* store_embedding, by a program whose migrations have run: an upsert that *)
(* needs the index on the model, and no other that is in its way.          *)
StoreEmbedding(p, m) ==
    /\ migrator[p] = Serving
    /\ schema.model = "unique" /\ (schema.source = "unique" => embeddings \subseteq {m})
    /\ embeddings' = embeddings \cup {m} /\ current' = current \cup {m}
    /\ UNCHANGED <<recorded, schema, migrator, overtaken, starts>>

(* The process ends or is killed, or a statement fails. *)
Abort(p) ==
    /\ migrator[p] # Stopped
    /\ migrator' = [migrator EXCEPT ![p] = Stopped]
    /\ UNCHANGED <<recorded, schema, embeddings, current, overtaken, starts>>

MigrationsNext ==
    \E p \in Migrators :
        \/ StartMigrator(p) \/ Execute(p) \/ Record(p) \/ Abort(p)
        \/ \E m \in Models : StoreEmbedding(p, m)

MigrationsSpec == MigrationsInit /\ [][MigrationsNext]_migrationsVars

-----------------------------------------------------------------------------
(* Some of these were executed by a program that had read the versions     *)
(* before another recorded them: it then fails to record them again, but   *)
(* what they did stays done.                                               *)
Undone(versions) == overtaken \cap versions # {}

(* When every version is recorded the schema is the current one and an     *)
(* upgrade loses no vector cached since 011: scripts executed again after  *)
(* a death between the two statements (Migrator::run), or by two programs  *)
(* at once, do no harm.  The exceptions are named: a script executed       *)
(* after another program had recorded it can bring back the unguarded      *)
(* full-text functions (001, 002), an index that refuses a second model    *)
(* (001, 004, 005, 011), the column of one dimension without the index     *)
(* that store_embedding needs (005, 011), and can lose vectors (004, 005,  *)
(* 011).                                                                   *)
UpgradeIsSafe ==
    /\ recorded = AllVersions =>
         /\ schema.fts = "guarded" \/ Undone({"001", "002"})
         /\ schema.source = "none" \/ Undone({"001", "004", "005", "011"})
         /\ (schema.dimension = "any" /\ schema.model = "unique") \/ Undone({"005", "011"})
    /\ current \subseteq embeddings \/ Undone({"004", "005", "011"})
=============================================================================
