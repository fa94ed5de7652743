---------------------------- MODULE StoreProofs -----------------------------
(***************************************************************************)
(* What a startup leaves in the catalog, what an export holds and a restore *)
(* brings back, what the connectors stage and what the monitor reports of  *)
(* the stored instances, for any number of types, rows, replicas, pages,   *)
(* instances and coroutines, and any pattern of outages and restarts.      *)
(***************************************************************************)
EXTENDS Startup, Backup, Connectors, Monitor, TLAPS

-----------------------------------------------------------------------------
(* Startup, and the usage table (Startup).                                 *)

\* The two records have their fields.
Shapes ==
    /\ broker = [pc |-> broker.pc, todo |-> broker.todo, registry |-> broker.registry,
                 missed |-> broker.missed, seeding |-> broker.seeding]
    /\ metering \in [ensured : BOOLEAN, request : {"none", "record"}]

\* While entries are seeded: those still to come and those that failed are the only
\* ones that may be missing.
SeedingSoFar ==
    broker.pc = "seed" => broker.registry \ (broker.missed \cup broker.seeding) \subseteq catalog

\* Once ensured the usage table stays, and a request that found DynamoDB there goes
\* on with the table there.
UsageTable ==
    /\ metering.ensured => "usage" \in tables
    /\ metering.request = "record" =>
         usage = "unavailable" \/ (usage = "none" /\ "usage" \in tables)

BrokerPart == Shapes /\ SeedingSoFar /\ SeededButForFailures
UsagePart == UsageTable /\ UsageHeals
StartupInv == BrokerPart /\ UsagePart

-----------------------------------------------------------------------------

\* StartupInit establishes the invariant.
LEMMA StartupInitial == StartupInit => StartupInv
  BY DEF StartupInit, Off, StartupInv, BrokerPart, UsagePart, Shapes, SeedingSoFar,
     SeededButForFailures, UsageTable, UsageHeals

\* Steps that leave the broker and its catalog alone keep what is said of them.
LEMMA BrokerAlone == BrokerPart /\ UNCHANGED <<broker, catalog>> /\ Shapes' => BrokerPart'
  BY Zenon DEF BrokerPart, SeedingSoFar, SeededButForFailures

\* Tables are only ever added: steps of the others keep what is said of metering.
LEMMA UsageAlone == UsagePart /\ UNCHANGED <<metering, usage>> /\ tables \subseteq tables'
                      => UsagePart'
  BY Zenon DEF UsagePart, UsageTable, UsageHeals

\* Every step keeps the invariant.
LEMMA StartupStep == StartupInv /\ [StartupNext]_startupVars => StartupInv'
  <1> SUFFICES ASSUME StartupInv, [StartupNext]_startupVars PROVE StartupInv'
    BY Zenon
  <1> USE DEF StartupInv
  <1>1. ASSUME NEW b \in Backends, outage(b) \/ recovery(b) PROVE StartupInv'
    BY <1>1, BrokerAlone, UsageAlone, Zenon DEF outage, recovery, BrokerPart, Shapes
  <1>2. CASE restart_broker
    <2>1. BrokerPart'
      BY <1>2, Zenon DEF restart_broker, Off, BrokerPart, Shapes, SeedingSoFar, SeededButForFailures
    <2> QED BY <1>2, <2>1, UsageAlone, Zenon DEF restart_broker
  <1>3. CASE ensure_table
    <2>1. /\ broker' = [broker EXCEPT !.todo = broker'.todo]
          /\ broker.pc = "ensure" /\ tables \subseteq tables'
          /\ UNCHANGED <<catalog, metering, usage>>
      BY <1>3, Zenon DEF ensure_table, BrokerPart, Shapes
    <2>2. BrokerPart'
      BY <2>1, Zenon DEF BrokerPart, Shapes, SeedingSoFar, SeededButForFailures
    <2> QED BY <2>1, <2>2, UsageAlone, Zenon
  <1>4. CASE discover_packs
    <2>1. PICK found \in SUBSET Entries :
            broker' = [broker EXCEPT !.todo = Tail(@), !.registry = found]
      BY <1>4, Zenon DEF discover_packs
    <2>2. broker'.pc = "ensure" /\ UNCHANGED <<tables, metering, usage>>
      BY <1>4, <2>1, Zenon DEF discover_packs, BrokerPart, Shapes
    <2>3. BrokerPart'
      BY <2>1, <2>2, Zenon DEF BrokerPart, Shapes, SeedingSoFar, SeededButForFailures
    <2> QED BY <2>2, <2>3, UsageAlone, Zenon
  <1>5. CASE seed_catalog
    <2>1. tables \subseteq tables' /\ UNCHANGED <<catalog, metering, usage>>
      BY <1>5, Zenon DEF seed_catalog
    <2>2. \/ broker' = [broker EXCEPT !.pc = "seed", !.seeding = broker.registry]
          \/ broker' = [broker EXCEPT !.pc = "serving", !.missed = broker.registry]
      BY <1>5, Zenon DEF seed_catalog
    <2>3. BrokerPart'
      BY <2>1, <2>2, Zenon DEF BrokerPart, Shapes, SeedingSoFar, SeededButForFailures
    <2> QED BY <2>1, <2>3, UsageAlone, Zenon
  <1>6. CASE seed_entry
    <2>1. PICK t \in broker.seeding :
            \/ /\ catalog' = catalog \cup {t}
               /\ broker' = [broker EXCEPT !.seeding = @ \ {t}]
            \/ /\ broker' = [broker EXCEPT !.seeding = @ \ {t}, !.missed = @ \cup {t}]
               /\ UNCHANGED catalog
            \/ broker' = Off
      BY <1>6, Zenon DEF seed_entry, put_service, NextToSeed
    <2>2. broker.pc = "seed" /\ UNCHANGED <<tables, metering, usage>>
      BY <1>6, Zenon DEF seed_entry
    <2>3. BrokerPart'
      <3>1. CASE broker' = [broker EXCEPT !.seeding = @ \ {t}] /\ catalog' = catalog \cup {t}
        BY <2>2, <3>1, ZenonT(30) DEF BrokerPart, Shapes, SeedingSoFar, SeededButForFailures
      <3>2. CASE /\ broker' = [broker EXCEPT !.seeding = @ \ {t}, !.missed = @ \cup {t}]
                 /\ UNCHANGED catalog
        BY <2>2, <3>2, ZenonT(30) DEF BrokerPart, Shapes, SeedingSoFar, SeededButForFailures
      <3>3. CASE broker' = Off
        BY <2>2, <3>3, Zenon DEF Off, BrokerPart, Shapes, SeedingSoFar, SeededButForFailures
      <3> QED BY <2>1, <3>1, <3>2, <3>3, Zenon
    <2> QED BY <2>2, <2>3, UsageAlone, Zenon
  <1>7. CASE serve
    <2>1. BrokerPart'
      BY <1>7, Zenon DEF serve, BrokerPart, Shapes, SeedingSoFar, SeededButForFailures
    <2> QED BY <1>7, <2>1, UsageAlone, Zenon DEF serve
  <1>8. CASE get_catalog \/ restart_control \/ ensure_bucket
    BY <1>8, BrokerAlone, UsageAlone, Zenon DEF get_catalog, restart_control, ensure_bucket,
         BrokerPart, Shapes
  <1>9. CASE usage_request
    <2>1. Shapes' /\ UNCHANGED <<broker, catalog>>
      BY <1>9, Zenon DEF usage_request, get_store, BrokerPart, Shapes
    <2>2. UsagePart'
      BY <1>9, Zenon DEF usage_request, get_store, UsagePart, UsageTable, UsageHeals, BrokerPart,
                         Shapes
    <2> QED BY <2>1, <2>2, BrokerAlone, Zenon
  <1>10. CASE record_usage
    <2>1. Shapes' /\ UNCHANGED <<broker, catalog>>
      BY <1>10, Zenon DEF record_usage, BrokerPart, Shapes
    <2>2. UsagePart'
      BY <1>10, Zenon DEF record_usage, UsagePart, UsageTable, UsageHeals, BrokerPart, Shapes
    <2> QED BY <2>1, <2>2, BrokerAlone, Zenon
  <1>11. CASE UNCHANGED startupVars
    BY <1>11, BrokerAlone, UsageAlone, Zenon DEF startupVars, BrokerPart, Shapes
  <1> QED BY <1>1, <1>2, <1>3, <1>4, <1>5, <1>6, <1>7, <1>8, <1>9, <1>10, <1>11,
             Zenon DEF StartupNext

-----------------------------------------------------------------------------

\* The invariant holds throughout.
THEOREM StartupInvariant == StartupSpec => []StartupInv
  BY StartupInitial, StartupStep, PTL DEF StartupSpec

\* A broker that serves has seeded all it discovered but for the entries that failed
\* on their own (_seed_catalog).
THEOREM CatalogSeeded == StartupSpec => []SeededButForFailures
  <1>1. StartupInv => SeededButForFailures
    BY Zenon DEF StartupInv, BrokerPart
  <1> QED BY <1>1, StartupInvariant, PTL

\* A usage record is refused only while DynamoDB is away (_get_store).
THEOREM MeteringHeals == StartupSpec => []UsageHeals
  <1>1. StartupInv => UsageHeals
    BY Zenon DEF StartupInv, UsagePart
  <1> QED BY <1>1, StartupInvariant, PTL

-----------------------------------------------------------------------------
(* Backup, restore and schema versions (Backup).                           *)

Row == [value : Nat, schema : 0..MaxSchema]
Table == [RowIds -> Row]
Exporting == job.pc \in SNAPSHOT_TABLES

BackupTypes ==
    /\ rows \in Table
    /\ build \in [Replicas -> 1..MaxSchema]
    /\ job \in [pc : {"idle", "restore"} \cup SNAPSHOT_TABLES, left : SUBSET (Ids \cup RowIds),
                taken : Table, before : Table, touched : SUBSET RowIds]
    /\ stored \in [rows : Table, before : Table, touched : SUBSET RowIds, there : BOOLEAN]
    /\ lookup.version \in Nat
    /\ rowWrites \in Nat

\* The rows the scan has passed.
Scanned(p) ==
    \/ job.pc = "instances" /\ p[1] = "instances" /\ p[2] \notin job.left
    \/ job.pc = "bindings" /\ (p[1] = "instances" \/ p[2] \notin job.left)

\* While it runs: a row nobody has touched is as it was at the start, and where the
\* scan has passed it was taken so.
ExportSoFar ==
    Exporting => \A p \in RowIds \ job.touched :
                    rows[p] = job.before[p] /\ (Scanned(p) => job.taken[p] = job.before[p])

\* A row that is put and not touched since is as in the snapshot.
RestoreSoFar ==
    job.pc = "restore" => \A p \in RowIds \ job.touched :
        stored.rows[p] # Absent /\ p \notin job.left => rows[p] = stored.rows[p]

\* Some replica has the schema of a row, wherever the row is.
Known(row) == row # Absent => row.schema >= 1 /\ \E r \in Replicas : row.schema <= build[r]

AllKnown ==
    \A p \in RowIds : Known(rows[p]) /\ Known(job.taken[p]) /\ Known(stored.rows[p])

BackupInv ==
    /\ BackupTypes /\ ExportSoFar /\ RestoreSoFar /\ AllKnown
    /\ SnapshotCovers /\ OldRowsReadable

-----------------------------------------------------------------------------

\* A row has one table and one id.
LEMMA RowIdFacts ==
    /\ \A k \in Ids, t \in SNAPSHOT_TABLES : <<t, k>> \in RowIds
    /\ \A p \in RowIds : p[1] \in SNAPSHOT_TABLES /\ p[2] \in Ids
    /\ Absent \in Row /\ NoRows \in Table
  BY BackupAssumption DEF RowIds, SNAPSHOT_TABLES, Absent, Row, NoRows, Table

\* BackupInit establishes the invariant.
LEMMA BackupInitial == BackupInit => BackupInv
  <1> SUFFICES ASSUME BackupInit PROVE BackupInv
    BY Zenon
  <1>1. BackupTypes
    BY RowIdFacts, BackupAssumption DEF BackupInit, BackupTypes, NoJob, NotStored
  <1>2. ExportSoFar /\ RestoreSoFar
    BY Zenon DEF BackupInit, NoJob, ExportSoFar, RestoreSoFar, Exporting, SNAPSHOT_TABLES
  <1>3. AllKnown /\ SnapshotCovers
    BY Zenon DEF BackupInit, NoJob, NotStored, NoRows, AllKnown, Known, SnapshotCovers
  <1>4. OldRowsReadable
    BY Zenon DEF BackupInit, OldRowsReadable
  <1> QED BY <1>1, <1>2, <1>3, <1>4, Zenon DEF BackupInv

\* A read of a row that some replica has the schema of fails only at a replica that
\* is behind that one, if no migration is missing (migrate_payload).
LEMMA ReadFails ==
    ASSUME BackupTypes, 1..(MaxSchema - 1) \subseteq Migrations, NEW r \in Replicas, NEW k \in Ids,
           rows[<<"instances", k>>] # Absent, Known(rows[<<"instances", k>>]),
           ~readable(r, k)
    PROVE  \E q \in Replicas : build[q] > build[r]
  <1> DEFINE row == rows[<<"instances", k>>]
  <1>1. row \in Row /\ build[r] \in 1..MaxSchema
    BY RowIdFacts, Zenon DEF BackupTypes, Table, SNAPSHOT_TABLES
  <1>2. row.schema >= 1 /\ \E q \in Replicas : row.schema <= build[q]
    BY Zenon DEF Known
  <1>3. row.schema > build[r]
    BY <1>1, <1>2, BackupAssumption DEF readable, migrate_payload, migrations, Row
  <1> QED BY <1>1, <1>2, <1>3, BackupAssumption DEF Row, BackupTypes

\* A row the broker writes in any of its four ways (write_row) keeps the invariant:
\* it is marked as touched, and its schema is the writer's.
LEMMA WriteKeeps ==
    ASSUME BackupInv, NEW p \in RowIds, NEW row \in Row, Known(row), write_row(p, row)
    PROVE  BackupInv'
  <1> USE DEF BackupInv, write_row
  <1>0. /\ rows' = [rows EXCEPT ![p] = row]
        /\ job' = [job EXCEPT !.touched = @ \cup {p}]
        /\ UNCHANGED <<build, stored, lookup>>
    BY Zenon
  <1>1. /\ job'.pc = job.pc /\ job'.left = job.left /\ job'.taken = job.taken
        /\ job'.before = job.before /\ job'.touched = job.touched \cup {p}
    BY <1>0, Zenon DEF BackupTypes
  <1>2. \A q \in RowIds : rows'[q] = IF q = p THEN row ELSE rows[q]
    BY <1>0, Zenon DEF BackupTypes, Table
  <1>3. BackupTypes'
    BY <1>0 DEF BackupTypes, Table
  <1>4. ExportSoFar'
    BY <1>1, <1>2 DEF ExportSoFar, Exporting, Scanned
  <1>5. RestoreSoFar'
    BY <1>0, <1>1, <1>2, Zenon DEF RestoreSoFar
  <1>6. AllKnown'
    BY <1>0, <1>1, <1>2 DEF AllKnown, Known
  <1>7. SnapshotCovers' /\ OldRowsReadable'
    BY <1>0, Zenon DEF SnapshotCovers, OldRowsReadable
  <1> QED BY <1>3, <1>4, <1>5, <1>6, <1>7, Zenon

\* Every step keeps the invariant.
LEMMA BackupStep == BackupInv /\ [BackupNext]_backupVars => BackupInv'
  <1> SUFFICES ASSUME BackupInv, [BackupNext]_backupVars PROVE BackupInv'
    BY Zenon
  <1> USE DEF BackupInv
  <1>1. ASSUME NEW r \in Replicas, NEW k \in Ids, get_instance(r, k) PROVE BackupInv'
    <2>1. BackupTypes' /\ ExportSoFar' /\ RestoreSoFar' /\ AllKnown' /\ SnapshotCovers'
      BY <1>1, BackupAssumption DEF get_instance, BackupTypes, ExportSoFar, Exporting, Scanned,
           RestoreSoFar, AllKnown, Known, SnapshotCovers
    <2>2. Known(rows[<<"instances", k>>])
      BY RowIdFacts, Zenon DEF AllKnown, SNAPSHOT_TABLES
    <2>3. CASE readable(r, k)
      BY <1>1, <2>1, <2>3, Zenon DEF get_instance, OldRowsReadable
    <2>4. CASE ~readable(r, k)
      <3>1. /\ lookup'.version = build[r] /\ UNCHANGED build
            /\ rows[<<"instances", k>>] # Absent
        BY <1>1, Zenon DEF get_instance
      <3>2. OldRowsReadable'
        BY <2>2, <2>4, <3>1, ReadFails, Zenon DEF OldRowsReadable
      <3> QED BY <2>1, <3>2, Zenon
    <2> QED BY <2>3, <2>4, Zenon
  <1>2. ASSUME NEW r \in Replicas PROVE Known(new_row(r)) /\ new_row(r) \in Row
    BY <1>2, BackupAssumption DEF Known, new_row, BackupTypes, Row
  <1>3. Known(Absent) /\ Absent \in Row
    BY RowIdFacts, Zenon DEF Known
  <1>4. ASSUME NEW r \in Replicas, NEW k \in Ids,
               \/ put_instance(r, k) \/ delete_instance(r, k)
               \/ put_binding(r, k) \/ delete_binding(r, k)
        PROVE  BackupInv'
    <2>1. <<"instances", k>> \in RowIds /\ <<"bindings", k>> \in RowIds
      BY RowIdFacts, Zenon DEF SNAPSHOT_TABLES
    <2> QED BY <1>2, <1>3, <1>4, <2>1, WriteKeeps, Zenon
              DEF put_instance, delete_instance, put_binding, delete_binding
  <1>5. ASSUME NEW r \in Replicas, deploy(r) PROVE BackupInv'
    <2>1. /\ build' \in [Replicas -> 1..MaxSchema]
          /\ \A q \in Replicas : build'[q] >= build[q]
      BY <1>5, BackupAssumption DEF deploy, BackupTypes
    <2>2. BackupTypes' /\ ExportSoFar' /\ RestoreSoFar' /\ SnapshotCovers'
      BY <1>5, <2>1, Zenon DEF deploy, BackupTypes, ExportSoFar, Exporting, Scanned, RestoreSoFar,
           SnapshotCovers
    <2>3. \A row \in Row : Known(row) => Known(row)'
      BY <2>1, BackupAssumption DEF Known, Row, BackupTypes
    <2>4. AllKnown'
      BY <1>5, <2>3, Zenon DEF deploy, AllKnown, BackupTypes, Table
    <2>5. OldRowsReadable'
      BY <1>5, <2>1, BackupAssumption DEF deploy, OldRowsReadable, BackupTypes
    <2> QED BY <2>2, <2>4, <2>5, Zenon
  <1>6. ASSUME NEW t \in SNAPSHOT_TABLES, data_loss(t) PROVE BackupInv'
    <2>1. BackupTypes'
      BY <1>6, RowIdFacts, Zenon DEF data_loss, BackupTypes, Table
    <2>2. ExportSoFar' /\ RestoreSoFar' /\ SnapshotCovers' /\ OldRowsReadable'
      BY <1>6, Zenon DEF data_loss, ExportSoFar, Exporting, RestoreSoFar, SnapshotCovers,
           OldRowsReadable, SNAPSHOT_TABLES
    <2>3. AllKnown'
      BY <1>6, Zenon DEF data_loss, AllKnown, Known
    <2> QED BY <2>1, <2>2, <2>3, Zenon
  <1>7. CASE export_snapshot
    <2>1. BackupTypes'
      BY <1>7, RowIdFacts, Zenon DEF export_snapshot, NoJob, BackupTypes, SNAPSHOT_TABLES
    <2>2. ExportSoFar'
      BY <1>7, RowIdFacts, Zenon DEF export_snapshot, NoJob, ExportSoFar, Scanned
    <2>3. RestoreSoFar' /\ SnapshotCovers' /\ OldRowsReadable'
      BY <1>7, Zenon DEF export_snapshot, NoJob, RestoreSoFar, SnapshotCovers, OldRowsReadable
    <2>4. AllKnown'
      BY <1>7, Zenon DEF export_snapshot, NoJob, NoRows, AllKnown, Known
    <2> QED BY <2>1, <2>2, <2>3, <2>4, Zenon
  <1>8. CASE scan_page
    <2>1. PICK page \in SUBSET job.left :
            job' = [job EXCEPT
              !.taken = [p \in RowIds |-> IF p[1] = job.pc /\ p[2] \in page THEN rows[p] ELSE @[p]],
              !.left = after_page(page)]
      BY <1>8, Zenon DEF scan_page
    <2>2. /\ job'.pc = job.pc /\ job'.before = job.before /\ job'.touched = job.touched
          /\ job'.left = job.left \ page
          /\ job'.taken = [p \in RowIds |-> IF p[1] = job.pc /\ p[2] \in page THEN rows[p]
                                             ELSE job.taken[p]]
      BY <2>1, Zenon DEF after_page, BackupTypes
    <2>3. job.pc \in SNAPSHOT_TABLES /\ UNCHANGED <<rows, build, stored, lookup, rowWrites>>
      BY <1>8, Zenon DEF scan_page
    <2>4. BackupTypes'
      <3>1. job'.taken \in Table
        BY <2>2 DEF BackupTypes, Table
      <3> QED BY <2>1, <2>2, <2>3, <3>1, Zenon DEF BackupTypes
    <2>5. ExportSoFar'
      <3> SUFFICES ASSUME NEW p \in RowIds \ job.touched
                   PROVE  rows'[p] = job'.before[p] /\ (Scanned(p)' => job'.taken[p] = job'.before[p])
        BY <2>2, Zenon DEF ExportSoFar
      <3>1. rows[p] = job.before[p] /\ (Scanned(p) => job.taken[p] = job.before[p])
        BY <2>3, Zenon DEF ExportSoFar, Exporting
      <3>2. job'.taken[p] = IF p[1] = job.pc /\ p[2] \in page THEN rows[p] ELSE job.taken[p]
        BY <2>2, Zenon
      <3>3. Scanned(p)' => Scanned(p) \/ (p[1] = job.pc /\ p[2] \in page)
        BY <2>2, RowIdFacts, Zenon DEF Scanned, SNAPSHOT_TABLES
      <3> QED BY <2>2, <2>3, <3>1, <3>2, <3>3, Zenon
    <2>6. RestoreSoFar' /\ SnapshotCovers' /\ OldRowsReadable'
      BY <2>2, <2>3, Zenon DEF RestoreSoFar, SnapshotCovers, OldRowsReadable, SNAPSHOT_TABLES
    <2>7. AllKnown'
      BY <2>2, <2>3 DEF AllKnown, Known
    <2> QED BY <2>4, <2>5, <2>6, <2>7, Zenon
  <1>9. CASE scan_next_table
    <2>1. /\ job'.pc = "bindings" /\ job'.before = job.before /\ job'.touched = job.touched
          /\ job'.left = Ids /\ job'.taken = job.taken
          /\ job.pc = "instances" /\ job.left = {}
          /\ UNCHANGED <<rows, build, stored, lookup, rowWrites>>
      BY <1>9, Zenon DEF scan_next_table, BackupTypes
    <2>2. BackupTypes'
      BY <1>9, <2>1, Zenon DEF scan_next_table, BackupTypes, SNAPSHOT_TABLES
    <2>3. ExportSoFar'
      BY <2>1, RowIdFacts, Zenon DEF ExportSoFar, Exporting, Scanned, SNAPSHOT_TABLES
    <2>4. RestoreSoFar' /\ SnapshotCovers' /\ OldRowsReadable' /\ AllKnown'
      BY <2>1 DEF RestoreSoFar, SnapshotCovers, OldRowsReadable, AllKnown, Known
    <2> QED BY <2>2, <2>3, <2>4, Zenon
  <1>10. CASE write_snapshot_to_s3
    <2>1. /\ stored' = [rows |-> job.taken, before |-> job.before, touched |-> job.touched,
                        there |-> TRUE]
          /\ job' = NoJob /\ UNCHANGED <<rows, build, lookup, rowWrites>>
      BY <1>10, Zenon DEF write_snapshot_to_s3
    <2>2. BackupTypes'
      BY <2>1, RowIdFacts, Zenon DEF BackupTypes, NoJob
    <2>3. SnapshotCovers'
      BY <1>10, <2>1 DEF write_snapshot_to_s3, SnapshotCovers, ExportSoFar, Exporting, Scanned,
           SNAPSHOT_TABLES
    <2>4. ExportSoFar' /\ RestoreSoFar' /\ OldRowsReadable'
      BY <2>1, Zenon DEF ExportSoFar, Exporting, RestoreSoFar, OldRowsReadable, NoJob,
                         SNAPSHOT_TABLES
    <2>5. AllKnown'
      BY <2>1, Zenon DEF AllKnown, Known, NoJob, NoRows
    <2> QED BY <2>2, <2>3, <2>4, <2>5, Zenon
  <1>11. CASE restore_snapshot
    <2>1. BackupTypes'
      BY <1>11, RowIdFacts, Zenon DEF restore_snapshot, NoJob, BackupTypes, to_restore
    <2>2. ExportSoFar' /\ SnapshotCovers' /\ OldRowsReadable'
      BY <1>11, Zenon DEF restore_snapshot, NoJob, ExportSoFar, Exporting, SnapshotCovers,
           OldRowsReadable, SNAPSHOT_TABLES
    <2>3. RestoreSoFar'
      BY <1>11, Zenon DEF restore_snapshot, NoJob, RestoreSoFar, to_restore
    <2>4. AllKnown'
      BY <1>11, Zenon DEF restore_snapshot, NoJob, NoRows, AllKnown, Known
    <2> QED BY <2>1, <2>2, <2>3, <2>4, Zenon
  <1>12. CASE restore_batch
    <2>1. PICK batch \in SUBSET job.left :
            /\ rows' = [p \in RowIds |-> IF p \in batch THEN stored.rows[p] ELSE rows[p]]
            /\ job' = [job EXCEPT !.left = @ \ batch, !.touched = @ \ batch]
      BY <1>12, Zenon DEF restore_batch
    <2>2. /\ job'.pc = job.pc /\ job.pc = "restore" /\ job'.left = job.left \ batch
          /\ job'.touched = job.touched \ batch /\ job'.taken = job.taken
          /\ UNCHANGED <<build, stored, lookup, rowWrites>>
      BY <1>12, <2>1, Zenon DEF restore_batch, BackupTypes
    <2>3. BackupTypes'
      BY <2>1, <2>2, Zenon DEF BackupTypes, Table
    <2>4. ExportSoFar' /\ SnapshotCovers' /\ OldRowsReadable'
      BY <2>2, Zenon DEF ExportSoFar, Exporting, SnapshotCovers, OldRowsReadable, SNAPSHOT_TABLES
    <2>5. RestoreSoFar'
      BY <2>1, <2>2, Zenon DEF RestoreSoFar
    <2>6. AllKnown'
      BY <2>1, <2>2, Zenon DEF AllKnown, Known
    <2> QED BY <2>3, <2>4, <2>5, <2>6, Zenon
  <1>13. CASE restored \/ job_dies
    <2>1. job' = NoJob /\ UNCHANGED <<rows, build, stored, lookup, rowWrites>>
      BY <1>13, Zenon DEF restored, job_dies
    <2>2. BackupTypes'
      BY <2>1, RowIdFacts, Zenon DEF BackupTypes, NoJob
    <2>3. ExportSoFar' /\ RestoreSoFar' /\ SnapshotCovers' /\ OldRowsReadable'
      BY <2>1, Zenon DEF ExportSoFar, Exporting, RestoreSoFar, SnapshotCovers, OldRowsReadable,
                         NoJob,
           SNAPSHOT_TABLES
    <2>4. AllKnown'
      BY <2>1, Zenon DEF AllKnown, Known, NoJob, NoRows
    <2> QED BY <2>2, <2>3, <2>4, Zenon
  <1>14. CASE UNCHANGED backupVars
    BY <1>14 DEF backupVars, BackupTypes, ExportSoFar, Exporting, Scanned, RestoreSoFar, AllKnown,
         Known, SnapshotCovers, OldRowsReadable
  <1> QED BY <1>1, <1>4, <1>5, <1>6, <1>7, <1>8, <1>9, <1>10, <1>11, <1>12, <1>13, <1>14, Zenon
            DEF BackupNext

-----------------------------------------------------------------------------

\* The invariant holds throughout.
THEOREM BackupInvariant == BackupSpec => []BackupInv
  BY BackupInitial, BackupStep, PTL DEF BackupSpec

\* An export holds every row that was left alone while it ran, for tables of any
\* size scanned in any pages beside any writes (export_snapshot).
THEOREM ExportCovers == BackupSpec => []SnapshotCovers
  <1>1. BackupInv => SnapshotCovers
    BY Zenon DEF BackupInv
  <1> QED BY <1>1, BackupInvariant, PTL

\* If no migration was forgotten, a read fails only at a replica that is behind
\* another, over restores and rollouts of any number of versions (migrate_payload).
THEOREM NewestReadsAll == BackupSpec => []OldRowsReadable
  <1>1. BackupInv => OldRowsReadable
    BY Zenon DEF BackupInv
  <1> QED BY <1>1, BackupInvariant, PTL

\* A restore that ends has put back every row of the snapshot that was not written
\* again since (restore_snapshot).
THEOREM RestoreComplete == BackupSpec => RestoreBrings
  <1>1. BackupInv /\ [BackupNext]_backupVars =>
          [restored => \A p \in RowIds \ job.touched :
              stored.rows[p] # Absent => rows[p] = stored.rows[p]]_backupVars
    BY Zenon DEF BackupInv, RestoreSoFar, restored
  <1> QED BY <1>1, BackupInvariant, PTL DEF BackupSpec, RestoreBrings

-----------------------------------------------------------------------------
(* The connectors (Connectors).                                            *)

Ingesting == [pc : {"fetch", "put", "ok", "failed"}, loc : Locations, size : Sizes,
              limit : {SizeLimit, NoLimit}, body : Sizes]

IngestTypes == ingests \in [Coroutines -> {NoIngest} \cup Ingesting]

\* What waits to be staged, or is, was measured.
Measured ==
    \A c \in Coroutines : ingests[c].pc \in {"put", "ok"} => ingests[c].body <= ingests[c].limit

ConnectorsInv == ConnectorsTypeOK /\ IngestTypes /\ Measured

-----------------------------------------------------------------------------

\* Calls that begin no ingest and stage nothing.
LEMMA OtherCallsKeep ==
    ASSUME ConnectorsInv, UNCHANGED ingests, ConnectorsTypeOK'
    PROVE  ConnectorsInv'
  BY Zenon DEF ConnectorsInv, IngestTypes, Measured

\* A descriptor names a resource that was there.
LEMMA DescriptorTypes ==
    ASSUME ConnectorsTypeOK, NEW locations, locations \subseteq {l \in Locations : source[l] # 0}
    PROVE  Descriptors(locations) \subseteq [loc : Locations, size : Sizes \ {0}]
  BY DEF Descriptors, ConnectorsTypeOK

\* The calls of connect, list and aclose, and a change of the source.
LEMMA SessionCallsKeep ==
    ASSUME ConnectorsInv,
           \/ \E l \in Locations, size \in Sizes : change(l, size)
           \/ connect_s3 \/ connect_github \/ user_answered \/ aclose
           \/ \E container \in Containers : list_objects(container) \/ list_contents(container)
    PROVE  ConnectorsInv'
  <1>0. ConnectorsTypeOK
    BY Zenon DEF ConnectorsInv
  <1>1. ASSUME NEW l \in Locations, NEW size \in Sizes, change(l, size)
        PROVE  ConnectorsInv'
    <2>1. ConnectorsTypeOK'
      BY <1>0, <1>1, ConnectorsAssumption DEF ConnectorsTypeOK, change
    <2> QED BY <1>1, <2>1, OtherCallsKeep, Zenon DEF change
  <1>2. CASE connect_s3 \/ connect_github \/ user_answered \/ aclose
    <2>1. UNCHANGED <<connectorType, source, changes, listed, ingests, staged>>
      BY <1>2, Zenon DEF connect_s3, connect_github, user_answered, aclose
    <2>2. session' \in [client : BOOLEAN, ok : BOOLEAN, asking : BOOLEAN]
      <3>0. session \in [client : BOOLEAN, ok : BOOLEAN, asking : BOOLEAN]
        BY <1>0, Zenon DEF ConnectorsTypeOK
      <3>1. CASE connect_s3
        BY <3>0, <3>1, Zenon DEF connect_s3
      <3>2. CASE connect_github
        <4>1. \/ session' = [session EXCEPT !.ok = FALSE]
              \/ session' = [client |-> TRUE, ok |-> FALSE, asking |-> TRUE]
          BY <3>2, Zenon DEF connect_github
        <4>2. [session EXCEPT !.ok = FALSE] \in [client : BOOLEAN, ok : BOOLEAN, asking : BOOLEAN]
          BY <3>0, Zenon
        <4>3. [client |-> TRUE, ok |-> FALSE, asking |-> TRUE]
                \in [client : BOOLEAN, ok : BOOLEAN, asking : BOOLEAN]
          BY Zenon
        <4> QED BY <4>1, <4>2, <4>3, Zenon
      <3>3. CASE user_answered
        <4>1. PICK ok \in BOOLEAN : session' = [session EXCEPT !.ok = ok, !.asking = FALSE]
          BY <3>3, Zenon DEF user_answered
        <4> QED BY <3>0, <4>1, Zenon
      <3>4. CASE aclose
        BY <3>0, <3>4, Zenon DEF aclose
      <3> QED BY <1>2, <3>1, <3>2, <3>3, <3>4, Zenon
    <2>3. ConnectorsTypeOK'
      BY <1>0, <2>1, <2>2, Zenon DEF ConnectorsTypeOK
    <2> QED BY <2>1, <2>3, OtherCallsKeep, Zenon
  <1>3. ASSUME NEW container \in Containers, list_objects(container) \/ list_contents(container)
        PROVE  ConnectorsInv'
    <2>1. UNCHANGED <<connectorType, source, changes, session, ingests, staged>>
      BY <1>3, Zenon DEF list_objects, list_contents
    <2>2. PICK locations \in SUBSET There(container) : listed' \in {Descriptors(locations), {}}
      BY <1>3, Zenon DEF list_objects, list_contents
    <2>3. listed' \subseteq [loc : Locations, size : Sizes \ {0}]
      BY <1>0, <2>2, DescriptorTypes DEF There
    <2>4. ConnectorsTypeOK'
      BY <1>0, <2>1, <2>3, Zenon DEF ConnectorsTypeOK
    <2> QED BY <2>1, <2>4, OtherCallsKeep, Zenon
  <1> QED BY <1>1, <1>2, <1>3, Zenon

\* An ingest begins, fetches or fails: nothing is staged yet.
LEMMA IngestKeeps ==
    ASSUME ConnectorsInv, NEW c \in Coroutines,
           \/ \E resource \in listed, limit \in {SizeLimit, NoLimit} : ingest(c, resource, limit)
           \/ get_object(c) \/ get_contents(c)
    PROVE  ConnectorsInv'
  <1>0. /\ ConnectorsTypeOK /\ ingests \in [Coroutines -> {NoIngest} \cup Ingesting]
        /\ SizeLimit \in Nat /\ NoLimit \in Nat /\ Sizes \subseteq Nat /\ 0 \in Sizes
        /\ NoIngest.pc = "none"
    BY ConnectorsAssumption DEF ConnectorsInv, IngestTypes, NoLimit, Sizes, NoIngest
  <1>1. UNCHANGED <<connectorType, source, changes, session, listed, staged>>
    BY Zenon DEF ingest, get_object, get_contents, fetched
  <1>2. SUFFICES ASSUME NEW next \in Ingesting, ingests' = [ingests EXCEPT ![c] = next],
                        next.pc # "ok", next.pc = "put" => next.body <= next.limit
                 PROVE  ConnectorsInv'
    <2>1. ASSUME NEW resource \in listed, NEW limit \in {SizeLimit, NoLimit},
                 ingest(c, resource, limit)
          PROVE  ConnectorsInv'
      <3> DEFINE next == [pc |-> "fetch", loc |-> resource.loc, size |-> resource.size,
                         limit |-> limit, body |-> 0]
      <3>1. next \in Ingesting /\ next.pc = "fetch"
        BY <1>0, Zenon DEF Ingesting, ConnectorsTypeOK
      <3>2. ingests' = [ingests EXCEPT ![c] = next]
        BY <2>1, Zenon DEF ingest
      <3> HIDE DEF next
      <3> QED BY <1>2, <3>1, <3>2, Zenon
    <2>2. ASSUME NEW usable, fetched(c, usable)
          PROVE  ConnectorsInv'
      <3>1. ingests[c] \in Ingesting
        BY <1>0, <2>2, Zenon DEF fetched
      <3>2. CASE ingests' = [ingests EXCEPT ![c].pc = "failed"]
        <4> DEFINE next == [ingests[c] EXCEPT !.pc = "failed"]
        <4>1. next \in Ingesting /\ next.pc = "failed"
          BY <3>1, Zenon DEF Ingesting
        <4>2. ingests' = [ingests EXCEPT ![c] = next]
          BY <3>2, Zenon
        <4> HIDE DEF next
        <4> QED BY <1>2, <4>1, <4>2, Zenon
      <3>3. ASSUME ~too_large(ingests[c], source[ingests[c].loc]),
                   ingests' = [ingests EXCEPT ![c].pc = "put", ![c].body = source[ingests[c].loc]]
            PROVE  ConnectorsInv'
        <4> DEFINE body == source[ingests[c].loc]
                   next == [ingests[c] EXCEPT !.pc = "put", !.body = body]
        <4>1. body \in Sizes /\ ingests[c].limit \in Nat
          BY <1>0, <3>1, Zenon DEF Ingesting, ConnectorsTypeOK
        <4>2. body <= ingests[c].limit
          BY <1>0, <3>3, <4>1 DEF too_large
        <4> HIDE DEF body
        <4>3. next \in Ingesting /\ next.pc = "put" /\ next.body <= next.limit
          BY <3>1, <4>1, <4>2, Zenon DEF Ingesting
        <4>4. ingests' = [ingests EXCEPT ![c] = next]
          BY <1>0, <3>3, Zenon DEF body
        <4> HIDE DEF next
        <4> QED BY <1>2, <4>3, <4>4, Zenon
      <3> QED BY <2>2, <3>2, <3>3, Zenon DEF fetched
    <2>3. CASE get_object(c) \/ get_contents(c)
      <3>1. fetched(c, TRUE) \/ fetched(c, source[ingests[c].loc] < BlobSize)
        BY <2>3, Zenon DEF get_object, get_contents
      <3> QED BY <3>1, <2>2, Zenon
    <2> QED BY <2>1, <2>3, Zenon
  <1>3. IngestTypes' /\ \A d \in Coroutines : ingests'[d] = IF d = c THEN next ELSE ingests[d]
    BY <1>0, <1>2, Zenon DEF IngestTypes
  <1>4. next.pc \in {"none", "fetch", "put", "ok", "failed"}
    BY Zenon DEF Ingesting
  <1>5. ConnectorsTypeOK'
    BY <1>0, <1>1, <1>3, <1>4, Zenon DEF ConnectorsTypeOK
  <1>6. Measured'
    BY <1>2, <1>3 DEF ConnectorsInv, Measured
  <1> QED BY <1>3, <1>5, <1>6, Zenon DEF ConnectorsInv

\* What was fetched is staged, or is not.
LEMMA PutKeeps ==
    ASSUME ConnectorsInv, NEW c \in Coroutines, put_object(c)
    PROVE  ConnectorsInv'
  <1>0. ConnectorsTypeOK /\ ingests \in [Coroutines -> {NoIngest} \cup Ingesting] /\ NoIngest.pc = "none"
    BY Zenon DEF ConnectorsInv, IngestTypes, NoIngest
  <1>1. UNCHANGED <<connectorType, source, changes, session, listed>> /\ ingests[c].pc = "put"
    BY Zenon DEF put_object
  <1>2. ingests[c] \in Ingesting
    BY <1>0, <1>1, Zenon
  <1>3. PICK pc \in {"ok", "failed"} : ingests' = [ingests EXCEPT ![c].pc = pc]
    BY Zenon DEF put_object
  <1>4. /\ IngestTypes' /\ ingests'[c].pc = pc /\ ingests'[c].loc = ingests[c].loc
        /\ ingests'[c].body = ingests[c].body /\ ingests'[c].limit = ingests[c].limit
        /\ \A d \in Coroutines \ {c} : ingests'[d] = ingests[d]
    BY <1>0, <1>2, <1>3, Zenon DEF IngestTypes, Ingesting
  <1>5. ConnectorsTypeOK'
    BY <1>0, <1>1, <1>4, Zenon DEF ConnectorsTypeOK
  <1>6. Measured'
    BY <1>1, <1>4, Zenon DEF ConnectorsInv, Measured
  <1> QED BY <1>4, <1>5, <1>6, Zenon DEF ConnectorsInv

\* ConnectorsInv is an inductive invariant.
LEMMA ConnectorsInvariant == ConnectorsSpec => []ConnectorsInv
  <1>1. ConnectorsInit => ConnectorsInv
    BY ConnectorsAssumption DEF ConnectorsInit, ConnectorsInv, ConnectorsTypeOK, IngestTypes,
                                Measured, NoIngest, Sizes
  <1>2. ConnectorsInv /\ [ConnectorsNext]_connectorVars => ConnectorsInv'
    <2> SUFFICES ASSUME ConnectorsInv, [ConnectorsNext]_connectorVars PROVE ConnectorsInv'
      BY Zenon
    <2>1. CASE UNCHANGED connectorVars
      BY <2>1, Zenon DEF connectorVars, ConnectorsInv, ConnectorsTypeOK, IngestTypes, Measured
    <2>2. CASE ConnectorsNext
      BY <2>2, SessionCallsKeep, IngestKeeps, PutKeeps, Zenon DEF ConnectorsNext
    <2> QED BY <2>1, <2>2, Zenon
  <1> QED BY <1>1, <1>2, PTL DEF ConnectorsSpec

\* What an ingest stages is no larger than its caller allowed, though the resource may
\* grow between its listing and its ingest (max_size_bytes of both connectors' ingest).
THEOREM MaxSizeKept == ConnectorsSpec => []WithinMaxSize
  <1>1. ConnectorsInv => WithinMaxSize
    BY Zenon DEF ConnectorsInv, Measured, WithinMaxSize
  <1> QED BY <1>1, ConnectorsInvariant, PTL

-----------------------------------------------------------------------------
(* The continuous monitor (Monitor).                                       *)

MonitorTypes ==
    /\ versions \in [Inventory -> 0..MaxVersion]
    /\ operation \in [Inventory -> {"none", "render", "teardown"}]
    /\ log \in Seq(Actors \cup {"allow"}) /\ recent \in 0..Len(log) /\ Len(log) <= MaxLog
    /\ artefacts \subseteq Inventory \X (1..MaxVersion)
    /\ pass = [pc |-> pass.pc, listed |-> pass.listed, todo |-> pass.todo,
               missing |-> pass.missing, failed |-> pass.failed]
    /\ pass.todo \cup pass.missing \subseteq DOMAIN pass.listed
    /\ pass.pc # "heads" => DOMAIN pass.listed = {}
    /\ DOMAIN pass.listed \subseteq Inventory
    /\ \A i \in DOMAIN pass.listed : pass.listed[i] \in 1..MaxVersion

\* The broker renders and removes only what it has stored.
StoredFirst == \A i \in Inventory : operation[i] # "none" => versions[i] # 0

\* A settled instance has the artefact of the version it was listed with, whatever it
\* was updated to since, and no deprovision of it is under way.
SettledSince ==
    \A i \in settled : /\ i \in DOMAIN pass.listed /\ operation[i] # "teardown"
                       /\ <<i, pass.listed[i]>> \in artefacts

\* A stray is as it was listed, without its artefact, and will be reported or is.
StraysStay ==
    pass.pc = "heads" =>
        \A i \in strays \cap DOMAIN pass.listed :
            /\ i \in pass.todo \cup pass.missing
            /\ versions[i] = pass.listed[i] /\ <<i, pass.listed[i]>> \notin artefacts

MonitorInv ==
    /\ MonitorTypes /\ StoredFirst /\ SettledSince /\ StraysStay
    /\ ReportedForAReason

-----------------------------------------------------------------------------

\* A pass between two checks holds nothing of the state check.
LEMMA EndCheckEffect ==
    ASSUME NEW status, end_check(status), pass.pc \in DOMAIN NextCheck
    PROVE  /\ pass' = [pc |-> pass'.pc, listed |-> [i \in {} |-> 0], todo |-> {}, missing |-> {},
                       failed |-> pass'.failed]
           /\ pass'.pc # "heads"
  <1>1. pass' = [NoPass EXCEPT !.pc = NextCheck[pass.pc], !.failed = pass.failed \/ status = "FAIL"]
    BY Zenon DEF end_check
  <1>2. NextCheck[pass.pc] # "heads"
    BY DEF NextCheck
  <1> QED BY <1>1, <1>2, Zenon DEF NoPass

\* Such a pass keeps the invariant.
LEMMA BetweenChecks ==
    ASSUME MonitorInv, UNCHANGED <<brokerVars, log, recent>>, settled' = {},
           pass' = [pc |-> pass'.pc, listed |-> [i \in {} |-> 0], todo |-> {}, missing |-> {},
                    failed |-> pass'.failed],
           pass'.pc # "heads"
    PROVE  MonitorInv'
  <1>1. pass'.todo = {} /\ pass'.missing = {} /\ DOMAIN pass'.listed = {}
    OBVIOUS
  <1>2. MonitorTypes'
    BY <1>1, Zenon DEF MonitorInv, MonitorTypes, brokerVars
  <1> QED BY <1>1, <1>2, Zenon DEF MonitorInv, StoredFirst, SettledSince, StraysStay,
                                   ReportedForAReason,
                            brokerVars

\* The checks but the state check, and what ends it.
LEMMA ChecksKeep ==
    ASSUME MonitorInv,
           \/ main \/ check_opa_policy_tests \/ check_image_scan_freshness
           \/ check_settings_sentinels \/ check_audit_freshness \/ check_policy_deny_spike
           \/ report_state
    PROVE  MonitorInv'
  <1>0. DOMAIN NextCheck = {"opa", "freshness", "spike", "list", "heads", "images", "sentinels"}
    BY Zenon DEF NextCheck
  <1>1. UNCHANGED <<brokerVars, log, recent>>
    BY Zenon DEF main, check_opa_policy_tests, check_image_scan_freshness, check_settings_sentinels,
           check_outside, check_audit_freshness, check_policy_deny_spike, report_state
  <1>s. settled' = {}
    <2>1. pass.pc # "heads" => settled = {}
      BY Zenon DEF MonitorInv, MonitorTypes, SettledSince
    <2> QED BY <2>1 DEF main, check_opa_policy_tests, check_image_scan_freshness,
                check_settings_sentinels, check_outside, check_audit_freshness,
                check_policy_deny_spike, report_state
  <1>2. CASE main
    <2>1. pass' = [NoPass EXCEPT !.pc = "opa"]
      BY <1>2, Zenon DEF main
    <2> QED BY <1>1, <1>s, <2>1, BetweenChecks, Zenon DEF NoPass
  <1>3. CASE ~main
    <2>1. pass.pc \in DOMAIN NextCheck /\ \E status : end_check(status)
      BY <1>0, <1>3, Zenon DEF check_opa_policy_tests, check_image_scan_freshness,
                               check_settings_sentinels,
         check_outside, check_audit_freshness, check_policy_deny_spike, report_state
    <2> QED BY <1>1, <1>s, <2>1, EndCheckEffect, BetweenChecks, Zenon
  <1> QED BY <1>2, <1>3, Zenon

\* The audit log takes no part in the state check.
LEMMA LogKeeps ==
    ASSUME MonitorInv, (\E e \in Actors \cup {"allow"} : persist_event(e)) \/ time_passes
    PROVE  MonitorInv'
  <1>1. UNCHANGED <<brokerVars, pass, settled, refused, strays>>
    BY Zenon DEF persist_event, time_passes
  <1>2. log \in Seq(Actors \cup {"allow"}) /\ recent \in 0..Len(log) /\ Len(log) <= MaxLog
    BY Zenon DEF MonitorInv, MonitorTypes
  <1>3. log' \in Seq(Actors \cup {"allow"}) /\ recent' \in 0..Len(log') /\ Len(log') <= MaxLog
    <2>1. ASSUME NEW e \in Actors \cup {"allow"}, persist_event(e)
          PROVE  log' \in Seq(Actors \cup {"allow"}) /\ recent' \in 0..Len(log') /\ Len(log') <= MaxLog
      <3>1. log' = Append(log, e) /\ recent' = recent + 1 /\ Len(log) < MaxLog
        BY <2>1, Zenon DEF persist_event
      <3>2. log' \in Seq(Actors \cup {"allow"}) /\ Len(log') = Len(log) + 1
        BY <1>2, <3>1
      <3>3. Len(log) \in Nat /\ MaxLog \in Nat
        BY <1>2, MonitorAssumption
      <3> QED BY <1>2, <3>1, <3>2, <3>3
    <2>2. CASE recent > 0 /\ recent' = recent - 1 /\ UNCHANGED log
      BY <1>2, <2>2
    <2>3. CASE Len(log) > recent /\ log' = Tail(log) /\ UNCHANGED recent
      <3>1. Len(log) \in Nat /\ recent \in Nat
        BY <1>2
      <3>2. log # <<>>
        BY <1>2, <2>3, <3>1
      <3>3. log' \in Seq(Actors \cup {"allow"}) /\ Len(log') = Len(log) - 1
        BY <1>2, <2>3, <3>2
      <3> QED BY <1>2, <2>3, <3>1, <3>3, MonitorAssumption
    <2> QED BY <2>1, <2>2, <2>3, Zenon DEF time_passes
  <1>4. MonitorTypes'
    BY <1>1, <1>3, Zenon DEF MonitorInv, MonitorTypes, brokerVars
  <1> QED BY <1>1, <1>4, Zenon DEF MonitorInv, StoredFirst, SettledSince, StraysStay,
                                   ReportedForAReason,
                            brokerVars

\* A new version, or a render of the one there is: no artefact goes.
LEMMA StoreKeeps ==
    ASSUME MonitorInv, NEW i \in Inventory, store_version(i) \/ begin_reconcile(i)
    PROVE  MonitorInv'
  <1>1. /\ operation' = [operation EXCEPT ![i] = "render"]
        /\ UNCHANGED <<artefacts, log, recent, pass, settled, refused>>
    BY Zenon DEF store_version, begin_reconcile
  <1>2. \/ /\ versions[i] < MaxVersion /\ versions' = [versions EXCEPT ![i] = @ + 1]
           /\ strays' = strays \ {i}
        \/ versions[i] # 0 /\ UNCHANGED <<versions, strays>>
    BY Zenon DEF store_version, begin_reconcile
  <1>3. /\ versions \in [Inventory -> 0..MaxVersion] /\ MaxVersion \in Nat
        /\ operation \in [Inventory -> {"none", "render", "teardown"}]
        /\ DOMAIN pass.listed \subseteq Inventory
    BY MonitorAssumption, Zenon DEF MonitorInv, MonitorTypes
  <1>4. /\ versions' \in [Inventory -> 0..MaxVersion] /\ versions'[i] # 0
        /\ \A j \in Inventory \ {i} : versions'[j] = versions[j]
        /\ i \in strays' => versions'[i] = versions[i]
        /\ strays' \subseteq strays
    BY <1>2, <1>3
  <1>5. operation'[i] = "render" /\ \A j \in Inventory \ {i} : operation'[j] = operation[j]
    BY <1>1, <1>3, Zenon
  <1>6. MonitorTypes'
    BY <1>1, <1>3, <1>4, Zenon DEF MonitorInv, MonitorTypes
  <1>7. StoredFirst'
    BY <1>4, <1>5, Zenon DEF MonitorInv, StoredFirst
  <1>8. SettledSince'
    BY <1>1, <1>3, <1>5, Zenon DEF MonitorInv, SettledSince
  <1>9. StraysStay'
    <2> SUFFICES ASSUME pass.pc = "heads", NEW j \in strays' \cap DOMAIN pass.listed
                 PROVE  /\ j \in pass.todo \cup pass.missing
                        /\ versions'[j] = pass.listed[j] /\ <<j, pass.listed[j]>> \notin artefacts
      BY <1>1, Zenon DEF StraysStay
    <2>1. /\ j \in pass.todo \cup pass.missing
          /\ versions[j] = pass.listed[j] /\ <<j, pass.listed[j]>> \notin artefacts
      BY <1>4, Zenon DEF MonitorInv, StraysStay
    <2>2. versions'[j] = versions[j]
      BY <1>3, <1>4, Zenon
    <2> QED BY <2>1, <2>2, Zenon
  <1> QED BY <1>1, <1>6, <1>7, <1>8, <1>9, Zenon DEF MonitorInv, ReportedForAReason

\* A render that ends writes an artefact, or none.
LEMMA PutArtefactKeeps ==
    ASSUME MonitorInv, NEW i \in Inventory, put_artefact(i)
    PROVE  MonitorInv'
  <1>1. /\ operation[i] = "render" /\ strays' = strays \ {i}
        /\ operation' = [operation EXCEPT ![i] = "none"]
        /\ artefacts' = artefacts \/ artefacts' = artefacts \cup {<<i, versions[i]>>}
        /\ UNCHANGED <<versions, log, recent, pass, settled, refused>>
    BY Zenon DEF put_artefact
  <1>2. /\ versions \in [Inventory -> 0..MaxVersion] /\ MaxVersion \in Nat
        /\ operation \in [Inventory -> {"none", "render", "teardown"}]
        /\ DOMAIN pass.listed \subseteq Inventory
    BY MonitorAssumption, Zenon DEF MonitorInv, MonitorTypes
  <1>3. /\ operation'[i] = "none" /\ versions[i] # 0
        /\ \A j \in Inventory \ {i} : operation'[j] = operation[j]
    BY <1>1, <1>2, Zenon DEF MonitorInv, StoredFirst
  <1>4. MonitorTypes'
    <2>1. <<i, versions[i]>> \in Inventory \X (1..MaxVersion)
      <3>1. versions[i] \in 1..MaxVersion
        BY <1>2, <1>3
      <3> QED BY <3>1, Zenon
    <2> QED BY <1>1, <1>2, <2>1, Zenon DEF MonitorInv, MonitorTypes
  <1>5. StoredFirst'
    BY <1>1, <1>3, Zenon DEF MonitorInv, StoredFirst
  <1>6. SettledSince'
    BY <1>1, <1>2, <1>3, Zenon DEF MonitorInv, SettledSince
  <1>7. StraysStay'
    BY <1>1, <1>2, <1>3, Zenon DEF MonitorInv, StraysStay
  <1> QED BY <1>1, <1>4, <1>5, <1>6, <1>7, Zenon DEF MonitorInv, ReportedForAReason

\* An artefact goes, in a deprovision or otherwise: its instance is settled no more.
LEMMA ArtefactGoes ==
    ASSUME MonitorInv, NEW i \in Inventory, delete_artefact(i) \/ lose_artefact(i)
    PROVE  MonitorInv'
  <1>1. PICK a \in artefacts : a[1] = i /\ artefacts' = artefacts \ {a}
    BY Zenon DEF delete_artefact, lose_artefact
  <1>2. UNCHANGED <<versions, operation, log, recent, pass, refused, strays>>
    BY Zenon DEF delete_artefact, lose_artefact
  <1>3. settled' \subseteq settled /\ i \notin settled'
    BY Zenon DEF delete_artefact, lose_artefact, MonitorInv, SettledSince
  <1>4. MonitorTypes'
    BY <1>1, <1>2, Zenon DEF MonitorInv, MonitorTypes
  <1>5. SettledSince'
    <2> SUFFICES ASSUME NEW j \in settled' PROVE <<j, pass.listed[j]>> \in artefacts'
      BY <1>2, <1>3, Zenon DEF MonitorInv, SettledSince
    <2>1. <<j, pass.listed[j]>> \in artefacts /\ j # i
      BY <1>3, Zenon DEF MonitorInv, SettledSince
    <2>2. <<j, pass.listed[j]>> # a
      BY <1>1, <2>1
    <2> QED BY <1>1, <2>1, <2>2, Zenon
  <1>6. StraysStay'
    BY <1>1, <1>2, Zenon DEF MonitorInv, StraysStay
  <1> QED BY <1>2, <1>3, <1>4, <1>5, <1>6, Zenon DEF MonitorInv, StoredFirst, ReportedForAReason

\* A deprovision takes its instance from those that are settled, and its row last.
LEMMA TeardownKeeps ==
    ASSUME MonitorInv, NEW i \in Inventory, begin_teardown(i) \/ remove_row(i)
    PROVE  MonitorInv'
  <1>0. /\ versions \in [Inventory -> 0..MaxVersion] /\ MaxVersion \in Nat
        /\ operation \in [Inventory -> {"none", "render", "teardown"}]
        /\ DOMAIN pass.listed \subseteq Inventory
    BY MonitorAssumption, Zenon DEF MonitorInv, MonitorTypes
  <1>1. CASE begin_teardown(i)
    <2>1. /\ operation[i] = "none" /\ versions[i] # 0 /\ settled' = settled \ {i}
          /\ operation' = [operation EXCEPT ![i] = "teardown"]
          /\ UNCHANGED <<versions, artefacts, log, recent, pass, refused, strays>>
      BY <1>1, Zenon DEF begin_teardown
    <2>2. /\ operation'[i] = "teardown"
          /\ \A j \in Inventory \ {i} : operation'[j] = operation[j]
      BY <1>0, <2>1, Zenon
    <2>3. MonitorTypes'
      BY <1>0, <2>1, Zenon DEF MonitorInv, MonitorTypes
    <2>4. StoredFirst'
      BY <2>1, <2>2, Zenon DEF MonitorInv, StoredFirst
    <2>5. SettledSince' /\ StraysStay' /\ ReportedForAReason'
      BY <1>0, <2>1, <2>2, Zenon DEF MonitorInv, SettledSince, StraysStay, ReportedForAReason
    <2> QED BY <2>3, <2>4, <2>5, Zenon DEF MonitorInv
  <1>2. CASE remove_row(i)
    <2>1. /\ operation[i] = "teardown" /\ strays' = strays \ {i}
          /\ operation' = [operation EXCEPT ![i] = "none"]
          /\ versions' = versions \/ versions' = [versions EXCEPT ![i] = 0]
          /\ UNCHANGED <<artefacts, log, recent, pass, settled, refused>>
      BY <1>2, Zenon DEF remove_row
    <2>2. /\ operation'[i] = "none" /\ versions' \in [Inventory -> 0..MaxVersion]
          /\ \A j \in Inventory \ {i} : versions'[j] = versions[j] /\ operation'[j] = operation[j]
      BY <1>0, <2>1
    <2>3. MonitorTypes'
      BY <1>0, <2>1, <2>2, Zenon DEF MonitorInv, MonitorTypes
    <2>4. StoredFirst'
      BY <2>2, Zenon DEF MonitorInv, StoredFirst
    <2>5. SettledSince' /\ StraysStay'
      BY <1>0, <2>1, <2>2, ZenonT(30) DEF MonitorInv, SettledSince, StraysStay
    <2> QED BY <2>1, <2>3, <2>4, <2>5, Zenon DEF MonitorInv, ReportedForAReason
  <1> QED BY <1>1, <1>2, Zenon

\* The listing: what it finds is as it is stored, and what is settled has its artefact.
LEMMA ListKeeps ==
    ASSUME MonitorInv, list_state
    PROVE  MonitorInv'
  <1>0. pass.pc = "list" /\ UNCHANGED <<brokerVars, log, recent>>
    BY Zenon DEF list_state
  <1>1. CASE (\E status \in {"SKIP", "FAIL"} : end_check(status)) /\ UNCHANGED settled
    <2>1. pass.pc \in DOMAIN NextCheck
      BY <1>0, Zenon DEF NextCheck
    <2>2. settled' = {}
      BY <1>0, <1>1, Zenon DEF MonitorInv, MonitorTypes, SettledSince
    <2> QED BY <1>0, <1>1, <2>1, <2>2, EndCheckEffect, BetweenChecks, Zenon
  <1>2. ASSUME NEW found \in list_instances,
               pass' = [pass EXCEPT !.pc = "heads", !.listed = found, !.todo = DOMAIN found],
               settled' = {i \in DOMAIN found : ~Astray(i) /\ operation[i] # "teardown"},
               strays' = {i \in Inventory : Astray(i)}
        PROVE  MonitorInv'
    <2>1. /\ DOMAIN found \subseteq Inventory
          /\ \A i \in DOMAIN found : found[i] = versions[i] /\ versions[i] # 0
      BY Zenon DEF list_instances
    <2>2. /\ pass'.pc = "heads" /\ pass'.listed = found /\ pass'.todo = DOMAIN found
          /\ pass'.missing = {} /\ pass'.failed = pass.failed
          /\ pass' = [pc |-> "heads", listed |-> found, todo |-> DOMAIN found, missing |-> {},
                      failed |-> pass.failed]
      BY <1>0, <1>2, Zenon DEF MonitorInv, MonitorTypes
    <2>3. /\ versions \in [Inventory -> 0..MaxVersion] /\ MaxVersion \in Nat
          /\ operation \in [Inventory -> {"none", "render", "teardown"}]
      BY MonitorAssumption, Zenon DEF MonitorInv, MonitorTypes
    <2>4. MonitorTypes'
      <3>1. \A i \in DOMAIN found : found[i] \in 1..MaxVersion
        BY <2>1, <2>3
      <3> QED BY <1>0, <2>1, <2>2, <3>1, Zenon DEF MonitorInv, MonitorTypes, brokerVars
    <2>5. SettledSince'
      BY <1>0, <1>2, <2>1, <2>2, Zenon DEF SettledSince, Astray, brokerVars
    <2>6. StraysStay'
      BY <1>0, <1>2, <2>1, <2>2 DEF StraysStay, Astray, brokerVars
    <2> QED BY <1>0, <2>2, <2>4, <2>5, <2>6, Zenon DEF MonitorInv, StoredFirst,
                                        ReportedForAReason, brokerVars
  <1> QED BY <1>1, <1>2, Zenon DEF list_state

\* A look for an artefact: a stray's is not there, and one that is there and missed has
\* its reason.
LEMMA HeadKeeps ==
    ASSUME MonitorInv, NEW i \in Inventory, head_object(i)
    PROVE  MonitorInv'
  <1>1. /\ pass.pc = "heads" /\ i \in pass.todo
        /\ UNCHANGED <<brokerVars, log, recent, settled, strays>>
    BY Zenon DEF head_object
  <1>2. pass = [pc |-> pass.pc, listed |-> pass.listed, todo |-> pass.todo,
                missing |-> pass.missing, failed |-> pass.failed]
    BY Zenon DEF MonitorInv, MonitorTypes
  <1>3. /\ pass'.pc = "heads" /\ pass'.listed = pass.listed /\ pass'.todo = pass.todo \ {i}
        /\ pass'.failed = pass.failed
        /\ pass' = [pc |-> pass'.pc, listed |-> pass'.listed, todo |-> pass'.todo,
                    missing |-> pass'.missing, failed |-> pass'.failed]
        /\ \/ /\ <<i, pass.listed[i]>> \in artefacts /\ pass'.missing = pass.missing
              /\ refused' = refused
           \/ /\ pass'.missing = pass.missing \cup {i}
              /\ \/ <<i, pass.listed[i]>> \in artefacts /\ refused' = refused \cup {i}
                 \/ <<i, pass.listed[i]>> \notin artefacts /\ refused' = refused
    <2>1. CASE /\ <<i, pass.listed[i]>> \in artefacts /\ pass' = [pass EXCEPT !.todo = @ \ {i}]
               /\ refused' = refused
      BY <1>1, <1>2, <2>1, Zenon
    <2>2. CASE /\ pass' = [pass EXCEPT !.todo = @ \ {i}, !.missing = @ \cup {i}]
               /\ \/ <<i, pass.listed[i]>> \in artefacts /\ refused' = refused \cup {i}
                  \/ <<i, pass.listed[i]>> \notin artefacts /\ refused' = refused
      BY <1>1, <1>2, <2>2, Zenon
    <2> QED BY <2>1, <2>2, Zenon DEF head_object, artefact_key
  <1>4. i \in DOMAIN pass.listed /\ refused \subseteq refused'
    BY <1>1, <1>3, Zenon DEF MonitorInv, MonitorTypes
  <1>5. MonitorTypes'
    BY <1>1, <1>3, <1>4, Zenon DEF MonitorInv, MonitorTypes, brokerVars
  <1>6. StoredFirst' /\ SettledSince'
    BY <1>1, <1>3, <1>4, Zenon DEF MonitorInv, StoredFirst, SettledSince, brokerVars
  <1>7. StraysStay'
    BY <1>1, <1>3, <1>4, Zenon DEF MonitorInv, StraysStay, brokerVars
  <1>8. ReportedForAReason'
    BY <1>1, <1>3, <1>4, Zenon DEF MonitorInv, ReportedForAReason, SettledSince, brokerVars
  <1> QED BY <1>5, <1>6, <1>7, <1>8, Zenon DEF MonitorInv

\* MonitorInv is an inductive invariant.
LEMMA MonitorInvariant == MonitorSpec => []MonitorInv
  <1>1. MonitorInit => MonitorInv
    <2> SUFFICES ASSUME MonitorInit PROVE MonitorInv
      BY Zenon
    <2>1. /\ pass.pc = "idle" /\ pass.todo = {} /\ pass.missing = {} /\ DOMAIN pass.listed = {}
          /\ pass = [pc |-> pass.pc, listed |-> pass.listed, todo |-> pass.todo,
                     missing |-> pass.missing, failed |-> pass.failed]
      BY Zenon DEF MonitorInit, NoPass
    <2>2. log \in Seq(Actors \cup {"allow"}) /\ recent \in 0..Len(log) /\ Len(log) <= MaxLog
      BY MonitorAssumption DEF MonitorInit
    <2>3. MonitorTypes
      BY <2>1, <2>2, MonitorAssumption DEF MonitorInit, MonitorTypes
    <2> QED BY <2>1, <2>3, Zenon DEF MonitorInit, MonitorInv, StoredFirst, SettledSince, StraysStay,
                              ReportedForAReason
  <1>2. MonitorInv /\ [MonitorNext]_monitorVars => MonitorInv'
    <2> SUFFICES ASSUME MonitorInv, [MonitorNext]_monitorVars PROVE MonitorInv'
      BY Zenon
    <2>1. CASE UNCHANGED monitorVars
      BY <2>1, Zenon DEF monitorVars, MonitorInv, MonitorTypes, StoredFirst, SettledSince,
                         StraysStay,
                  ReportedForAReason
    <2>2. CASE MonitorNext
      BY <2>2, StoreKeeps, PutArtefactKeeps, ArtefactGoes, TeardownKeeps, HeadKeeps, LogKeeps, ChecksKeep,
         ListKeeps, Zenon
         DEF MonitorNext
    <2> QED BY <2>1, <2>2, Zenon
  <1> QED BY <1>1, <1>2, PTL DEF MonitorSpec

\* The monitor reports an instance that had its artefact when it was listed only if it is
\* being deprovisioned, if someone removed an artefact of it since, or if the look for it
\* failed (check_state_drift): the broker's updates and reconciles meanwhile are no reason.
THEOREM ReportsHaveReasons == MonitorSpec => []ReportedForAReason
  <1>1. MonitorInv => ReportedForAReason
    BY Zenon DEF MonitorInv
  <1> QED BY <1>1, MonitorInvariant, PTL

\* An instance that is listed, lacks its artefact from the listing on and that no
\* operation touches is among those the check reports when it is through
\* (check_state_drift).
THEOREM StraysReported == MonitorSpec => []StrayReported
  <1>1. MonitorInv => StrayReported
    BY Zenon DEF MonitorInv, StraysStay, StrayReported
  <1> QED BY <1>1, MonitorInvariant, PTL
=============================================================================
