------------------------------- MODULE Backup -------------------------------
(***************************************************************************)
(* Backup and restore of the broker's two tables, and the schema versions  *)
(* of the rows in them.  The export scans page by page while the broker's  *)
(* replicas write; a job may die anywhere; a replica may run a newer build *)
(* than another, whose rows the older one refuses to read.                 *)
(***************************************************************************)
EXTENDS Integers, FiniteSets

CONSTANTS
    Ids,          \* instance ids; binding k is a binding of instance k
    Replicas,     \* of the broker
    MaxSchema,    \* newest schema version a build may have
    Migrations,   \* versions that builds which know a newer one have a migration from
    MaxWrites,    \* bound: writes and deletes of the broker
    PageSize      \* items a scan evaluates per page

ASSUME BackupAssumption == MaxSchema \in Nat \ {0} /\ MaxWrites \in Nat

VARIABLES
    rows,      \* table -> id -> row
    build,     \* replica -> CURRENT_SCHEMA_VERSIONS of its code
    job,       \* the backup or restore that runs
    stored,    \* the snapshot in S3, with the tables as they were when its
               \* export began and the rows written during it
    lookup,    \* the last read of an instance
    rowWrites

backupVars == <<rows, build, job, stored, lookup, rowWrites>>

SNAPSHOT_TABLES == {"instances", "bindings"}
RowIds == SNAPSHOT_TABLES \X Ids

Absent == [value |-> 0, schema |-> 0]
NoRows == [p \in RowIds |-> Absent]
NoJob == [pc |-> "idle", left |-> {}, taken |-> NoRows, before |-> NoRows, touched |-> {}]
NotStored == [rows |-> NoRows, before |-> NoRows, touched |-> {}, there |-> FALSE]

BackupInit ==
    /\ rows = NoRows
    /\ build = [r \in Replicas |-> 1]
    /\ job = NoJob /\ stored = NotStored
    /\ lookup = [replica |-> "none", version |-> 0, outcome |-> "none"]
    /\ rowWrites = 0

-----------------------------------------------------------------------------
(* Rows and their schema versions.                                           *)

\* Versions a build has registered a migration from, each to the next.
migrations(current) == Migrations \cap 1..(current - 1)

\* migrate_payload returns: the row is no newer than the build, and every step
\* from its version to the build's is registered.
migrate_payload(row, current) ==
    row.schema <= current /\ row.schema..(current - 1) \subseteq migrations(current)

readable(r, k) ==
    LET row == rows[<<"instances", k>>]
    IN row # Absent /\ migrate_payload(row, build[r])

\* get_instance: SchemaMigrationError is no ClientError and leaves the handler.
get_instance(r, k) ==
    /\ rows[<<"instances", k>>] # Absent
    /\ lookup' = [replica |-> r, version |-> build[r],
                  outcome |-> IF readable(r, k) THEN "row" ELSE "error"]
    /\ UNCHANGED <<rows, build, job, stored, rowWrites>>

write_row(p, row) ==
    /\ rowWrites < MaxWrites
    /\ rows' = [rows EXCEPT ![p] = row]
    /\ rowWrites' = rowWrites + 1
    /\ job' = [job EXCEPT !.touched = @ \cup {p}]
    /\ UNCHANGED <<build, stored, lookup>>

\* Mutant: the default of the model is ahead of CURRENT_SCHEMA_VERSIONS.
new_row_ahead(r) == [value |-> rowWrites + 1, schema |-> build[r] + 1]

new_row(r) == [value |-> rowWrites + 1, schema |-> build[r]]

\* put_instance by a handler that has found no instance or read the one there is.
put_instance(r, k) ==
    /\ rows[<<"instances", k>>] = Absent \/ readable(r, k)
    /\ write_row(<<"instances", k>>, new_row(r))

\* deprovision: the instance's bindings stay.
delete_instance(r, k) == readable(r, k) /\ write_row(<<"instances", k>>, Absent)

\* bind and unbind read the instance and not the binding.
put_binding(r, k) == readable(r, k) /\ write_row(<<"bindings", k>>, new_row(r))
delete_binding(r, k) == readable(r, k) /\ write_row(<<"bindings", k>>, Absent)

\* A replica is replaced by one of a newer build.
deploy(r) ==
    /\ build[r] < MaxSchema
    /\ build' = [build EXCEPT ![r] = @ + 1]
    /\ UNCHANGED <<rows, job, stored, lookup, rowWrites>>

\* The accident a backup is for: a table's rows are lost.
data_loss(t) ==
    /\ stored.there /\ job.pc = "idle"
    /\ rows' = [p \in RowIds |-> IF p[1] = t THEN Absent ELSE rows[p]]
    /\ UNCHANGED <<build, job, stored, lookup, rowWrites>>

-----------------------------------------------------------------------------
(* Backup: export_snapshot, write_snapshot_to_s3.                            *)

export_snapshot ==
    /\ job.pc = "idle" /\ ~stored.there
    /\ job' = [NoJob EXCEPT !.pc = "instances", !.left = Ids, !.before = rows]
    /\ UNCHANGED <<rows, build, stored, lookup, rowWrites>>

\* Mutant: what the first page leaves is not asked for.
after_page_none(page) == {}

\* ExclusiveStartKey is the last key of the page.
after_page(page) == job.left \ page

\* _scan_all: a page holds the rows it evaluates as they are at that moment.
scan_page ==
    /\ job.pc \in SNAPSHOT_TABLES /\ job.left # {}
    /\ \E page \in SUBSET job.left :
         /\ page # {} /\ Cardinality(page) <= PageSize
         /\ job' = [job EXCEPT
              !.taken = [p \in RowIds |-> IF p[1] = job.pc /\ p[2] \in page THEN rows[p] ELSE @[p]],
              !.left = after_page(page)]
    /\ UNCHANGED <<rows, build, stored, lookup, rowWrites>>

scan_next_table ==
    /\ job.pc = "instances" /\ job.left = {}
    /\ job' = [job EXCEPT !.pc = "bindings", !.left = Ids]
    /\ UNCHANGED <<rows, build, stored, lookup, rowWrites>>

write_snapshot_to_s3 ==
    /\ job.pc = "bindings" /\ job.left = {}
    /\ stored' = [rows |-> job.taken, before |-> job.before, touched |-> job.touched,
                  there |-> TRUE]
    /\ job' = NoJob
    /\ UNCHANGED <<rows, build, lookup, rowWrites>>

-----------------------------------------------------------------------------
(* Restore: read_snapshot_from_s3, restore_snapshot.                         *)

\* Mutant: only rows that are missing are put.
to_restore_missing == {p \in RowIds : stored.rows[p] # Absent /\ rows[p] = Absent}

to_restore == {p \in RowIds : stored.rows[p] # Absent}

restore_snapshot ==
    /\ job.pc = "idle" /\ stored.there
    /\ job' = [NoJob EXCEPT !.pc = "restore", !.left = to_restore]
    /\ UNCHANGED <<rows, build, stored, lookup, rowWrites>>

\* batch_writer: a batch of puts, as the rows were stored.
restore_batch ==
    /\ job.pc = "restore" /\ job.left # {}
    /\ \E batch \in SUBSET job.left :
         /\ batch # {} /\ Cardinality(batch) <= PageSize
         /\ rows' = [p \in RowIds |-> IF p \in batch THEN stored.rows[p] ELSE rows[p]]
         /\ job' = [job EXCEPT !.left = @ \ batch, !.touched = @ \ batch]
    /\ UNCHANGED <<build, stored, lookup, rowWrites>>

restored ==
    /\ job.pc = "restore" /\ job.left = {}
    /\ job' = NoJob
    /\ UNCHANGED <<rows, build, stored, lookup, rowWrites>>

\* The operator's process dies; it is started again from the beginning.
job_dies ==
    /\ job.pc # "idle"
    /\ job' = NoJob
    /\ UNCHANGED <<rows, build, stored, lookup, rowWrites>>

BackupNext ==
    \/ \E r \in Replicas : \/ \E k \in Ids :
                                \/ get_instance(r, k) \/ put_instance(r, k)
                                \/ delete_instance(r, k)
                                \/ put_binding(r, k) \/ delete_binding(r, k)
                           \/ deploy(r)
    \/ \E t \in SNAPSHOT_TABLES : data_loss(t)
    \/ export_snapshot \/ scan_page \/ scan_next_table \/ write_snapshot_to_s3
    \/ restore_snapshot \/ restore_batch \/ restored \/ job_dies

BackupSpec == BackupInit /\ [][BackupNext]_backupVars

-----------------------------------------------------------------------------
BackupTypeOK ==
    /\ rows \in [RowIds -> [value : 0..MaxWrites, schema : 0..MaxSchema]]
    /\ build \in [Replicas -> 1..MaxSchema]
    /\ job.pc \in {"idle", "restore"} \cup SNAPSHOT_TABLES
    /\ lookup.outcome \in {"none", "row", "error"}

\* The export is a fuzzy one, and no worse: a row the broker leaves alone while
\* it runs is in the snapshot as it was, over however many pages (_scan_all).
SnapshotCovers ==
    \A p \in RowIds \ stored.touched : stored.rows[p] = stored.before[p]

\* A restore that ends, after any number of attempts that did not, has put back
\* every row of the snapshot but those the broker has written since that very
\* row was put (restore_snapshot: "idempotent — put_item overwrites by key").
RestoreBrings ==
    [][restored => \A p \in RowIds \ job.touched :
                      stored.rows[p] # Absent => rows[p] = stored.rows[p]]_backupVars

\* backup.py:6-8: "a snapshot taken under an old schema restores cleanly into
\* newer code": if no migration was forgotten, the newest build reads every row there
\* is, an older build's or a restored one; a read fails only at a replica that is
\* behind another.
OldRowsReadable ==
    1..(MaxSchema - 1) \subseteq Migrations /\ lookup.outcome = "error"
        => \E r \in Replicas : build[r] > lookup.version

\* Violated by the code.  migrations.py:12-13: "a half-migrated table keeps
\* serving because every read normalises to the current version"; while a new
\* build is rolled out, a replica of the old one refuses the rows of the new.
HalfMigratedServes == lookup.outcome # "error"

\* Violated by the code.  The tables are scanned one after the other: an instance
\* and its binding made in between leave a binding in the snapshot whose instance
\* is not, though the tables never held the one without the other.
SnapshotConsistent ==
    \A k \in Ids : stored.rows[<<"bindings", k>>] # Absent
                      => \/ stored.rows[<<"instances", k>>] # Absent
                         \/ rows[<<"instances", k>>] = Absent

=============================================================================
