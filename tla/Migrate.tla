------------------------------- MODULE Migrate -------------------------------
(***************************************************************************)
(* database/migrate.cpp, as DatabaseStorage::Init calls it: every start of *)
(* a process applies its release's migrations to the database file, in one *)
(* transaction.  Several processes may start at one time, a process may    *)
(* die at any point, and may be started again from another release.        *)
(*                                                                         *)
(* A migration is its version and its SQL; its checksum tells SQL texts    *)
(* apart, so the SQL stands for it.  Its flag exec chooses between Exec    *)
(* and NextWhile, which differ in running the statements after the first;  *)
(* it is left out: Init passes true.  The rows of the file are the         *)
(* _migrations table, what is recorded in it, and what the SQL created.    *)
(***************************************************************************)
EXTENDS SQLiteConnection, SequencesExt

CONSTANTS
    Releases,     \* the lists of migrations that releases of the program pass
    MaxStarts     \* starts of processes, at most (a bound)

ASSUME MigrateAssumption ==
    /\ Releases \subseteq Seq([version : Nat, sql : STRING])
    /\ MaxStarts \in Nat

VARIABLES
    pc,           \* where each process is
    migrations,   \* migrations_
    applied,      \* what GetAppliedMigrations returned
    i,            \* the loop's index
    starts

vars == <<sqliteVars, pc, migrations, applied, i, starts>>

TableRow       == <<"_migrations", 0, "">>
AppliedRow(m)  == <<"applied", m.version, m.sql>>
SchemaRow(m)   == <<"schema", 0, m.sql>>

(* The releases' migrations by version; the sort is not stable, so equal
   versions may come in any order. *)
Sorted(list) ==
    {m \in {[k \in DOMAIN list |-> list[f[k]]] : f \in Bijection(DOMAIN list, DOMAIN list)} :
        \A k, l \in DOMAIN m : k < l => m[k].version <= m[l].version}

(* The rows of _migrations, and the SQL whose effects the schema has. *)
Applied(rows) == {[version |-> r[2], sql |-> r[3]] : r \in {x \in rows : x[1] = "applied"}}
Schema(rows)  == {r[3] : r \in {x \in rows : x[1] = "schema"}}

Rising(l) == \A j, k \in DOMAIN l : j < k => l[j].version < l[k].version

(* "select version, checksum from _migrations order by version" *)
AppliedList(rows) ==
    CHOOSE l \in [1..Cardinality(Applied(rows)) -> Applied(rows)] : Rising(l)

Init ==
    /\ SQLiteInit
    /\ pc = [p \in Conns |-> "idle"]
    /\ migrations = [p \in Conns |-> <<>>]
    /\ applied = [p \in Conns |-> <<>>]
    /\ i = [p \in Conns |-> 1]
    /\ starts = 0

Goto(p, label) == pc' = [pc EXCEPT ![p] = label]

(* Init connects; the constructor sorts the migrations by version. *)
Start(p) ==
    /\ pc[p] = "idle" /\ starts < MaxStarts
    /\ starts' = starts + 1
    /\ \E list \in Releases : \E m \in Sorted(list) :
          migrations' = [migrations EXCEPT ![p] = m]
    /\ \/ (\E h \in Handles : ConnectOk(p, h, TRUE)) /\ Goto(p, "begin")
       \/ UNCHANGED sqliteVars /\ Goto(p, "error")
    /\ applied' = [applied EXCEPT ![p] = <<>>]
    /\ i' = [i EXCEPT ![p] = 1]

Begin(p) ==
    /\ pc[p] = "begin"
    /\ \/ TransactionOk(p) /\ Goto(p, "create")
       \/ TransactionFails(p) /\ Goto(p, "rollback")
    /\ UNCHANGED <<migrations, applied, i, starts>>

(* The loop is at a migration that the database does not have. *)
Pending(p) == i[p] <= Len(migrations[p]) /\ i[p] > Len(applied[p])

(* A query returns an error: ApplyMigrations goes to its or_else. *)
QueryFails(p) ==
    /\ pc[p] \in {"create", "read", "apply", "record"}
    /\ pc[p] = "apply" => Pending(p)
    /\ Goto(p, "rollback")
    /\ UNCHANGED <<sqliteVars, migrations, applied, i, starts>>

CreateMigrationsTable(p) ==
    /\ pc[p] = "create"
    /\ IF TableRow \in Rows(database[p]) THEN Read(database[p])
                                         ELSE Write(database[p], {TableRow})
    /\ Goto(p, "read")
    /\ UNCHANGED <<migrations, applied, i, starts>>

GetAppliedMigrations(p) ==
    /\ pc[p] = "read"
    /\ Read(database[p])
    /\ applied' = [applied EXCEPT ![p] = AppliedList(Rows(database[p]))]
    /\ Goto(p, "apply")
    /\ UNCHANGED <<migrations, i, starts>>

(* The i-th applied migration is compared with the i-th of this release. *)
SameVersion(p) == applied[p][i[p]].version = migrations[p][i[p]].version  \* mutant

Matches(p) == applied[p][i[p]] = migrations[p][i[p]]

CheckApplied(p) ==
    /\ pc[p] = "apply" /\ i[p] <= Len(migrations[p]) /\ i[p] <= Len(applied[p])
    /\ IF Matches(p)
       THEN i' = [i EXCEPT ![p] = @ + 1] /\ UNCHANGED pc
       ELSE Goto(p, "rollback") /\ UNCHANGED i
    /\ UNCHANGED <<sqliteVars, migrations, applied, starts>>

ApplyMigrationSql(p) ==
    /\ pc[p] = "apply" /\ Pending(p)
    /\ Write(database[p], {SchemaRow(migrations[p][i[p]])})
    /\ Goto(p, "record")
    /\ UNCHANGED <<migrations, applied, i, starts>>

RecordMigrationTwice(p) ==                          \* mutant: i counted twice
    /\ pc[p] = "record"
    /\ Write(database[p], {AppliedRow(migrations[p][i[p]])})
    /\ i' = [i EXCEPT ![p] = @ + 2]
    /\ Goto(p, "apply")
    /\ UNCHANGED <<migrations, applied, starts>>

(* version is the primary key of _migrations. *)
RecordMigration(p) ==
    /\ pc[p] = "record"
    /\ \A r \in Rows(database[p]) :
          ~(r[1] = "applied" /\ r[2] = migrations[p][i[p]].version)
    /\ Write(database[p], {AppliedRow(migrations[p][i[p]])})
    /\ i' = [i EXCEPT ![p] = @ + 1]
    /\ Goto(p, "apply")
    /\ UNCHANGED <<migrations, applied, starts>>

Commit(p) ==
    /\ pc[p] = "apply" /\ i[p] > Len(migrations[p])
    /\ \/ CommitOk(p) /\ Goto(p, "ok")
       \/ CommitFails(p) /\ Goto(p, "rollback")
    /\ UNCHANGED <<migrations, applied, i, starts>>

ReturnWithoutRollback(p) ==                         \* mutant
    /\ pc[p] = "rollback"
    /\ Goto(p, "error")
    /\ UNCHANGED <<sqliteVars, migrations, applied, i, starts>>

CommitAnyway(p) ==                                  \* mutant: or_else commits
    /\ pc[p] = "rollback"
    /\ CommitOk(p) \/ CommitFails(p)
    /\ Goto(p, "error")
    /\ UNCHANGED <<migrations, applied, i, starts>>

(* Either way the caller gets an error: the first one, or Rollback's own. *)
Rollback(p) ==
    /\ pc[p] = "rollback"
    /\ RollbackOk(p) \/ RollbackFails(p)
    /\ Goto(p, "error")
    /\ UNCHANGED <<migrations, applied, i, starts>>

(* The process ends, or dies on the way; it may be started again. *)
Exit(p) ==
    /\ pc[p] # "idle"
    /\ CloseAll({p}, {database[p]} \ {None})
    /\ Goto(p, "idle")
    /\ UNCHANGED <<migrations, applied, i, starts>>

Step(p) ==
    \/ Begin(p) \/ QueryFails(p) \/ CreateMigrationsTable(p) \/ GetAppliedMigrations(p)
    \/ CheckApplied(p) \/ ApplyMigrationSql(p) \/ RecordMigration(p)
    \/ Commit(p) \/ Rollback(p)

OtherReads == OtherProcess /\ UNCHANGED <<pc, migrations, applied, i, starts>>

Next == (\E p \in Conns : Start(p) \/ Step(p) \/ Exit(p)) \/ OtherReads

Spec == Init /\ [][Next]_vars

-----------------------------------------------------------------------------
(***************************************************************************)
(* Properties.                                                             *)
(***************************************************************************)
Known == UNION {Range(list) : list \in Releases}

(* Every variable has its type; the file holds rows of known migrations only. *)
TypeOK ==
    /\ SQLiteTypeOK
    /\ file \cup work \subseteq
          {TableRow} \cup {AppliedRow(m) : m \in Known} \cup {SchemaRow(m) : m \in Known}
    /\ pc \in [Conns -> {"idle", "begin", "create", "read", "apply", "record", "rollback",
                         "ok", "error"}]
    /\ \A p \in Conns : i[p] \in 1..Len(migrations[p]) + 1
    /\ starts \in 0..MaxStarts

(* Whatever fails or dies, the durable schema is what _migrations records. *)
RecordedIffApplied == Schema(file) = {m.sql : m \in Applied(file)}

(* No migration is run on a schema that has it, whoever put it there: what
   GetAppliedMigrations read is still true when the loop acts on it. *)
NeverReapplied ==
    \A p \in Conns : pc[p] = "apply" /\ Pending(p) /\ ~WriterBusy(database[p])
        => SchemaRow(migrations[p][i[p]]) \notin Rows(database[p])

(* Success means that this release's migrations, in order of version, are the
   first ones of the database: its schema is the one the release expects, with
   later ones at most added by a newer release. *)
SuccessMatches ==
    \A p \in Conns : pc[p] = "ok" => IsPrefix(migrations[p], AppliedList(file))

(* ApplyMigrations never returns inside a transaction: no lock outlives it. *)
NoTransactionLeft ==
    \A p \in Conns : pc[p] \in {"ok", "error"} /\ database[p] # None => handle[database[p]] = "open"

(* The file changes in no step but a commit that reports success. *)
OnlySuccessCommits ==
    [][file' # file => \E p \in Conns : pc[p] # "ok" /\ pc'[p] = "ok"]_vars
=============================================================================
