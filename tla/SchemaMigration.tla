--------------------------- MODULE SchemaMigration ---------------------------
(***************************************************************************)
(* The init container of a client's pod (cmd/cli): it brings the schema of *)
(* ClickHouse up to date with golang-migrate, which keeps a version and a  *)
(* mark, dirty, in a table.  Its lock is one of the process: migrations of *)
(* two pods run into each other.  Each file creates one table if it does   *)
(* not exist.  ClientLifecycle composes it with the rest of the pod.       *)
(***************************************************************************)
EXTENDS Naturals

CONSTANTS
  Pod,
  Migrations  \* the number of migration files

ASSUME MigrationsAssumption == Migrations \in Nat

VARIABLES
  schema,  \* the last row of schema_migrations: a version and its mark
  tables,  \* the migrations whose table exists
  job      \* job[p]: the migration p is at and what it does next; 0: not in Up
schemaVars == <<schema, tables, job>>

Idle == [at |-> 0, next |-> "nothing"]

SchemaInit ==
  /\ schema = [at |-> 0, dirty |-> FALSE] /\ tables = {}
  /\ job = [p \in Pod |-> Idle]

\* Up reads the version once.
UpReads(p) ==
  /\ job[p] = Idle /\ ~schema.dirty /\ schema.at < Migrations
  /\ job' = [job EXCEPT ![p] = [at |-> schema.at + 1, next |-> "mark"]]
  /\ UNCHANGED <<schema, tables>>

SetVersion(k, dirty) == schema' = [at |-> k, dirty |-> dirty]
Goes(p, k, next) == job' = [job EXCEPT ![p] = [at |-> k, next |-> next]]

MarkDirty(p) ==
  /\ job[p].next = "mark"
  /\ SetVersion(job[p].at, TRUE) /\ Goes(p, job[p].at, "create")
  /\ UNCHANGED tables
RunFile(p) ==
  /\ job[p].next = "create"
  /\ tables' = tables \cup {job[p].at} /\ Goes(p, job[p].at, "clear")
  /\ UNCHANGED schema
MarkClean(p) ==
  /\ job[p].next = "clear"
  /\ SetVersion(job[p].at, FALSE)
  /\ IF job[p].at = Migrations THEN Goes(p, job[p].at, "done")
     ELSE Goes(p, job[p].at + 1, "mark")
  /\ UNCHANGED tables

\* Migrate returns nil after its last file, or without a change; it fails on a
\* dirty version, which it never repairs.
\* (Mutant: an error does not end the container.)
MigratedQuietly(p) ==
  job[p].next = "done" \/ (job[p] = Idle /\ (schema.at = Migrations \/ schema.dirty))
Migrated(p) ==
  job[p].next = "done" \/ (job[p] = Idle /\ schema.at = Migrations /\ ~schema.dirty)
Refused(p) == job[p] = Idle /\ schema.dirty

\* The process of p ends, wherever it is.
Leaves(p) == job' = [job EXCEPT ![p] = Idle] /\ UNCHANGED <<schema, tables>>

UpSteps(p) == UpReads(p) \/ MarkDirty(p) \/ RunFile(p) \/ MarkClean(p)
=============================================================================
