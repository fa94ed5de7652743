------------------------------ MODULE MCEstate ------------------------------
(***************************************************************************)
(* What surrounds the broker's lifecycle: the service packs, the startup   *)
(* of the services, the Envoy documents, the mesh, backup and restore, the *)
(* metrics, the connectors and the continuous monitor.  They share no      *)
(* state (the mesh is built from the Envoy documents), so that one of them *)
(* moves in each behaviour; the monitor's check of the stored instances    *)
(* and its queries of the audit log share only its exit code.              *)
(***************************************************************************)
EXTENDS Packs, Startup, Mesh, Backup, Metrics, Connectors, Monitor

VARIABLE focus

allVars == <<focus, packVars, startupVars, envoyVars, meshVars, backupVars, metricsVars,
             connectorVars, monitorVars>>

OneContainer == {<<<<"org", "r">>, <<"a", "f">>>>, <<<<"org", "r">>, <<"b", "f">>>>}
Ingested == <<"ingested">>

Init ==
    /\ focus \in {"packs", "startup", "envoy", "mesh", "backup", "metrics", "connectors",
                  "inventory", "denies"}
    /\ PacksInit /\ StartupInit /\ EnvoyInit /\ MeshInit /\ BackupInit /\ MetricsInit
    /\ ConnectorsInit /\ MonitorInit
    /\ focus # "packs" => tools = {} /\ ~placed
    /\ focus # "startup" => up = {}
    /\ focus \notin {"envoy", "mesh"} => ~sds
    /\ focus # "connectors" => connectorType = "s3"

Next ==
    /\ UNCHANGED focus
    /\ IF focus = "packs" THEN PacksNext ELSE UNCHANGED packVars
    /\ IF focus = "startup" THEN StartupNext ELSE UNCHANGED startupVars
    /\ IF focus = "backup" THEN BackupNext ELSE UNCHANGED backupVars
    /\ IF focus = "metrics" THEN MetricsNext ELSE UNCHANGED metricsVars
    /\ IF focus = "connectors" THEN ConnectorsNext ELSE UNCHANGED connectorVars
    /\ \/ focus = "mesh" /\ MeshNext
       \/ focus = "envoy" /\ EnvoyNext /\ UNCHANGED meshVars
       \/ focus \notin {"mesh", "envoy"} /\ UNCHANGED <<envoyVars, meshVars>>
    /\ \/ focus = "inventory" /\ MonitorNext /\ UNCHANGED <<log, recent>>
       \/ focus = "denies" /\ MonitorNext /\ UNCHANGED brokerVars
       \/ focus \notin {"inventory", "denies"} /\ UNCHANGED monitorVars

Spec == Init /\ [][Next]_allVars

-----------------------------------------------------------------------------

\* Types of the components' states: of the one that moves, for the others stay as
\* they were.
EstateTypeOK ==
    /\ focus = "packs" => PacksTypeOK
    /\ focus = "startup" => StartupTypeOK
    /\ focus \in {"envoy", "mesh"} => EnvoyTypeOK /\ MeshTypeOK
    /\ focus = "backup" => BackupTypeOK
    /\ focus = "metrics" => MetricsTypeOK
    /\ focus = "connectors" => ConnectorsTypeOK
    /\ focus \in {"inventory", "denies"} => MonitorTypeOK

Symmetry == Permutations(Replicas) \cup Permutations(Coroutines)
=============================================================================
