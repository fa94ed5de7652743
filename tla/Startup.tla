------------------------------ MODULE Startup -------------------------------
(***************************************************************************)
(* How the services come up: the broker ensures its tables, discovers the  *)
(* packs and seeds the catalog, the control plane ensures its bucket, the  *)
(* metering service ensures its table on the first request it serves.      *)
(* DynamoDB and S3 come and go between any two calls, and a process may be *)
(* restarted anywhere in its startup.                                      *)
(***************************************************************************)
EXTENDS Integers, Sequences, FiniteSets

CONSTANTS
    Types,        \* service types with a renderer, of the chassis or of an installed pack
    ConnectorTypes, \* likewise the types of connectors
    BuiltIn,      \* those of both that the chassis itself registers
    MaxOutages,   \* bound: times a backend goes away
    MaxBoots      \* bound: times the broker or the control plane is started

VARIABLES
    up,        \* backends that answer, among "dynamodb" and "s3"
    tables,    \* the tables that exist
    bucket,    \* the config bucket exists
    catalog,   \* service and connector entries of the catalog table
    broker,    \* [pc, todo, registry, seeding, missed]: the steps of startup left, the
               \* renderers and connectors registered, the entries left to seed, the
               \* entries this startup could not put, or that there are none of
    control,   \* the control plane: "off", "starting", "serving"
    metering,  \* [ensured, request]: _table_ensured; the request in progress
    usage,     \* outcome of the last usage record: "none", "accepted",
               \* "unavailable" (DynamoDB was away during it), "refused"
    listing,   \* the last answer of GET /v2/catalog: [status, types]
    outages, boots

startupVars == <<up, tables, bucket, catalog, broker, control, metering, usage, listing,
                 outages, boots>>

Backends == {"dynamodb", "s3"}

\* What _startup does, in order: the tables it ensures, with the discovery of the
\* packs after the store's two and the seeding of the catalog at the end.
Steps == <<"instances", "bindings", "packs", "tenants", "roles", "quotas", "usage", "catalog">>

Tables == {Steps[i] : i \in DOMAIN Steps} \ {"packs"}

Entries == Types \cup ConnectorTypes

Off == [pc |-> "off", todo |-> <<>>, registry |-> {}, missed |-> {}, seeding |-> {}]

StartupInit ==
    /\ up \in SUBSET Backends
    /\ tables = {} /\ bucket = FALSE /\ catalog = {}
    /\ broker = Off /\ control = "off"
    /\ metering = [ensured |-> FALSE, request |-> "none"]
    /\ usage = "none"
    /\ listing = [status |-> 0, types |-> {}]
    /\ outages = 0 /\ boots = 0

\* A backend goes away, or comes back.
outage(b) ==
    /\ b \in up /\ outages < MaxOutages
    /\ up' = up \ {b} /\ outages' = outages + 1
    /\ UNCHANGED <<tables, bucket, catalog, broker, control, metering, usage, listing, boots>>

recovery(b) ==
    /\ b \notin up
    /\ up' = up \cup {b}
    /\ UNCHANGED <<tables, bucket, catalog, broker, control, metering, usage, listing,
                   outages, boots>>

-----------------------------------------------------------------------------
(* The broker.                                                               *)

restart_broker ==
    /\ boots < MaxBoots
    /\ boots' = boots + 1
    /\ broker' = [Off EXCEPT !.pc = "ensure", !.todo = Steps]
    /\ UNCHANGED <<up, tables, bucket, catalog, control, metering, usage, listing, outages>>

\* ensure_table of one table: it exists afterwards, or the call raised.  A raise
\* out of Store.ensure_tables leaves its second table unensured; the tenancy
\* tables have a try of their own each.
ensure_table ==
    /\ broker.pc = "ensure" /\ Head(broker.todo) \notin {"packs", "catalog"}
    /\ \/ /\ "dynamodb" \in up
          /\ tables' = tables \cup {Head(broker.todo)}
          /\ broker' = [broker EXCEPT !.todo = Tail(@)]
       \/ /\ "dynamodb" \notin up
          /\ broker' = [broker EXCEPT !.todo =
                IF Head(@) = "instances" THEN Tail(Tail(@)) ELSE Tail(@)]
          /\ UNCHANGED tables
    /\ UNCHANGED <<up, bucket, catalog, control, metering, usage, listing, outages, boots>>

\* discover_packs: a pack that fails to import or to register is logged and
\* left out; the chassis comes up without it.
discover_packs ==
    /\ broker.pc = "ensure" /\ Head(broker.todo) = "packs"
    /\ \E found \in SUBSET Entries :
         /\ BuiltIn \subseteq found
         /\ broker' = [broker EXCEPT !.todo = Tail(@), !.registry = found]
    /\ UNCHANGED <<up, tables, bucket, catalog, control, metering, usage, listing, outages,
                   boots>>

\* _seed_catalog: ensure_table of the catalog, or nothing is seeded.
seed_catalog ==
    /\ broker.pc = "ensure" /\ Head(broker.todo) = "catalog"
    /\ \/ /\ "dynamodb" \in up
          /\ tables' = tables \cup {"catalog"}
          /\ broker' = [broker EXCEPT !.pc = "seed", !.seeding = broker.registry]
       \/ /\ "dynamodb" \notin up
          /\ broker' = [broker EXCEPT !.pc = "serving", !.missed = broker.registry]
          /\ UNCHANGED tables
    /\ UNCHANGED <<up, bucket, catalog, control, metering, usage, listing, outages, boots>>

\* Mutant: the first entry that cannot be put ends the seeding.
put_service_stops(t) ==
    IF "dynamodb" \in up
    THEN /\ catalog' = catalog \cup {t}
         /\ broker' = [broker EXCEPT !.seeding = @ \ {t}]
    ELSE /\ broker' = [broker EXCEPT !.seeding = {}, !.missed = @ \cup {t}]
         /\ UNCHANGED catalog

\* put_service or put_connector of one entry, with its own try.
put_service(t) ==
    IF "dynamodb" \in up
    THEN /\ catalog' = catalog \cup {t}
         /\ broker' = [broker EXCEPT !.seeding = @ \ {t}]
    ELSE /\ broker' = [broker EXCEPT !.seeding = @ \ {t}, !.missed = @ \cup {t}]
         /\ UNCHANGED catalog

\* The loop over the renderers comes before the one over the connectors.
NextToSeed ==
    IF broker.seeding \cap Types # {} THEN broker.seeding \cap Types ELSE broker.seeding

\* catalog_entry returns an entry to put, or None; what it raises ends the process.
seed_entry ==
    /\ broker.pc = "seed"
    /\ \E t \in NextToSeed :
         \/ put_service(t)
         \/ /\ broker' = [broker EXCEPT !.seeding = @ \ {t}, !.missed = @ \cup {t}]
            /\ UNCHANGED catalog
         \/ broker' = Off /\ UNCHANGED catalog
    /\ UNCHANGED <<up, tables, bucket, control, metering, usage, listing, outages, boots>>

serve ==
    /\ broker.pc = "seed" /\ broker.seeding = {}
    /\ broker' = [broker EXCEPT !.pc = "serving"]
    /\ UNCHANGED <<up, tables, bucket, catalog, control, metering, usage, listing, outages,
                   boots>>

\* GET /v2/catalog.  An error of the service (a missing table) becomes a
\* RuntimeError and the live registry is listed; an endpoint that cannot be
\* reached raises a BotoCoreError, which nothing catches.
get_catalog ==
    /\ broker.pc = "serving"
    /\ listing' =
         CASE "dynamodb" \notin up -> [status |-> 500, types |-> {}]
           [] "dynamodb" \in up /\ "catalog" \in tables -> [status |-> 200, types |-> catalog]
           [] "dynamodb" \in up /\ "catalog" \notin tables ->
                [status |-> 200, types |-> broker.registry]
    /\ UNCHANGED <<up, tables, bucket, catalog, broker, control, metering, usage, outages,
                   boots>>

\* GET /readyz: the instances table can be described, the control plane answers.
readyz == "dynamodb" \in up /\ "instances" \in tables /\ control = "serving"

-----------------------------------------------------------------------------
(* The control plane.                                                        *)

restart_control ==
    /\ boots < MaxBoots
    /\ boots' = boots + 1
    /\ control' = "starting"
    /\ UNCHANGED <<up, tables, bucket, catalog, broker, metering, usage, listing, outages>>

\* _startup: head_bucket, create_bucket if it is missing; S3 away is logged.
ensure_bucket ==
    /\ control = "starting"
    /\ bucket' = (bucket \/ "s3" \in up)
    /\ control' = "serving"
    /\ UNCHANGED <<up, tables, catalog, broker, metering, usage, listing, outages, boots>>

-----------------------------------------------------------------------------
(* The metering service.                                                     *)

\* _get_store: ensure_table until it has succeeded once.
get_store ==
    /\ metering' = [ensured |-> metering.ensured \/ "dynamodb" \in up, request |-> "record"]
    /\ tables' = IF "dynamodb" \in up /\ ~metering.ensured THEN tables \cup {"usage"} ELSE tables

usage_request ==
    /\ metering.request = "none"
    /\ get_store
    /\ usage' = IF "dynamodb" \in up THEN "none" ELSE "unavailable"
    /\ UNCHANGED <<up, bucket, catalog, broker, control, listing, outages, boots>>

record_usage ==
    /\ metering.request = "record"
    /\ metering' = [metering EXCEPT !.request = "none"]
    /\ usage' = CASE "dynamodb" \in up /\ "usage" \in tables -> "accepted"
                  [] "dynamodb" \in up /\ "usage" \notin tables ->
                       IF usage = "unavailable" THEN usage ELSE "refused"
                  [] "dynamodb" \notin up -> "unavailable"
    /\ UNCHANGED <<up, tables, bucket, catalog, broker, control, listing, outages, boots>>

StartupNext ==
    \/ \E b \in Backends : outage(b) \/ recovery(b)
    \/ restart_broker \/ ensure_table \/ discover_packs \/ seed_catalog \/ seed_entry \/ serve
    \/ get_catalog
    \/ restart_control \/ ensure_bucket
    \/ usage_request \/ record_usage

StartupSpec == StartupInit /\ [][StartupNext]_startupVars

-----------------------------------------------------------------------------
StartupTypeOK ==
    /\ up \subseteq Backends /\ bucket \in BOOLEAN
    /\ tables \subseteq Tables
    /\ catalog \subseteq Entries
    /\ broker.pc \in {"off", "ensure", "seed", "serving"}
    /\ broker.registry \subseteq Entries /\ broker.missed \subseteq broker.registry
    /\ control \in {"off", "starting", "serving"}
    /\ usage \in {"none", "accepted", "unavailable", "refused"}

\* Seeding fails entry by entry: once the broker serves, the catalog has every
\* type of renderer or connector its registries have but those that have no entry or
\* whose own could not be put in this startup, or all of them if the table could not
\* be ensured (_seed_catalog).
SeededButForFailures ==
    broker.pc = "serving" => broker.registry \ broker.missed \subseteq catalog

\* The metering service heals by itself: a usage record is refused only if
\* DynamoDB was away during that very request, whatever happened to earlier
\* ones (_get_store, "will retry on next request").
UsageHeals == usage # "refused"

\* Violated by the code.  apps/broker/app/main.py:568 logs "ensure_tables failed
\* at startup; will retry on first request" and apps/control-plane/app/main.py:97
\* "S3 unavailable at startup; will retry on first request"; no request retries
\* either, so that a service that came up too early stays without its table or
\* bucket until it is restarted.
StartupHeals ==
    <>[](up = Backends /\ broker.pc = "serving" /\ control = "serving")
        => <>({"instances", "bindings"} \subseteq tables /\ bucket)

\* Violated by the code.  health.py:4 says readiness answers "can this instance
\* actually serve"; the check describes the instances table alone, and the
\* tables ensured after it may be missing.
ReadyCanServe == readyz => {"instances", "bindings", "tenants", "roles", "quotas"} \subseteq tables

\* Violated by the code.  main.py:610 logs "falling back to live registries"
\* when the catalog cannot be read; with DynamoDB out of reach it answers 500.
CatalogFallsBack == listing.status # 500

\* The services make progress and the backends come back; nobody restarts them.
StartupFairness ==
    /\ WF_startupVars(ensure_table) /\ WF_startupVars(discover_packs)
    /\ WF_startupVars(seed_catalog) /\ WF_startupVars(seed_entry) /\ WF_startupVars(serve)
    /\ WF_startupVars(ensure_bucket)
    /\ WF_startupVars(get_catalog) /\ WF_startupVars(usage_request)
    /\ WF_startupVars(record_usage)
    /\ \A b \in Backends : WF_startupVars(recovery(b))

=============================================================================
