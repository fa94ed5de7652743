# A TLA+ verification of the Sovereign Platform

The Sovereign Platform is an Open Service Broker (OSB) with a control plane, an
audit service and a metering service around it. This directory models its
lifecycle, admission, deployment and audit paths, and the parts that surround them
(access, packs, start-up, mesh, backup, metrics, connectors, monitoring), in TLA+,
checks them with TLC on small instances, and proves the central safety properties
with TLAPS for every size of the system.

## The system

| Part | Where | What it does |
|---|---|---|
| Broker | `apps/broker/app/main.py`, `libs/common/sovereign/store.py` | OSB requests on DynamoDB records; asks the control plane to render and diff; periodic reconciler |
| Admission | the gates in `main.py`, `quotas/`, `policy.py` | RBAC, quota, policy (OPA), obligations, in that order, before anything is stored or torn down |
| Control plane | `apps/control-plane/app/main.py`, `renderers/` | `/render` builds an artifact and applies its manifest, `/diff` compares it with the backends |
| Executors | `executors/` | carry out and compare the steps of a manifest, by kind |
| Audit service | `apps/audit-service/app/main.py`, `audit_spool.py` | chains events by hash, inserts them into ClickHouse, holds what it cannot insert in a ring buffer and a spool file |
| Metering | `apps/metering-service`, `metering.py`, `usage_store.py` | usage records, which the quota counts |
| Access | `tenancy/`, `idp/`, `security.py`, `mtls.py`, `settings.py`, `secrets.py`, `rotation.py`, `ratelimit.py` | roles along the tenant tree, OIDC keys, group sync, service credentials, rotating secrets, rate limits |
| Packs | `packs/`, `renderers/`, `catalog/` | service types with parameters, documents and manifests; discovered and seeded into the catalog at start-up |
| Envoy and mesh | `render.py`, `envoy_v3.py` | bootstrap documents of load balancers and of the services' sidecars |
| Operations | `backup.py`, `migrations.py`, `metrics.py`, `health.py`, `connectors/`, `scripts/continuous_monitor.py` | snapshots, schema versions, scraping, data sources, the periodic checks |

A provision passes admission, is written to the table, is rendered and applied by
the control plane, is written again with the outcome, then metered and audited.
Update and reconcile go the same way. All of them read the record, await an HTTP
call, and put the *whole* record back; nothing is a conditional write. This is the
source of most of the hazards in PROJECT.json.

## Modules

**Broker** models the lifecycle. `db` is the instance table, `bindings` the binding
table, `bucket` the artifacts in S3 by instance and version, `task` the coroutine of
each worker with its locals, `late` the render requests whose sender gave up,
`applied` (history) everything the control plane ever applied, `usage` and `audit`
the evidence. A worker is a request, a threadpool call (bind, unbind) or the periodic
reconciler. Each store access and each await is a step. Within one process a
coroutine runs from await to await alone (`CanRun`); replicas interleave freely.
The parameters and the plan of a request are one value of `Params`. The gates are
stuttering steps here. `Teardown` is one step. Faults: a failing read (which
`get_instance` turns into None), a failing write, a render that fails before or after
its effect, a timeout whose request is still carried out, a failed or skipped
teardown, failing metering, a failing catalog read, an artifact removed out of band,
a process restart.

**Admission** models the gates of provision, update and deprovision by several
requests of one tenant at once, over the usage records that the quota counts. The
record is written last, far from the check. `Window` stands for the 1000 records a
usage query returns. `max_compute_units` is not there: `at_limit` looks at
`max_instances` only. What OPA answers is any member of `Decisions`, or no usable
answer, which `PolicyClient.evaluate` turns into a deny.

**Dispatch** models one instance's manifest against its backends: apply step by step,
diff step by step, `_refresh_drift` and `_needs_reconcile` around them, and changes
behind the platform's back between any two steps. The broker may give up on an apply
(`give_up`: its ten seconds are over, or the connection breaks); the control plane goes on
with it beside the next one (`late_step`). It refines the single step that
`ControlPlaneRender` and `ControlPlaneDiff` are in Broker (an informal
correspondence, not checked).

**AuditService** models `POST /events` by several threads: chaining under its lock,
connecting, flushing the buffer, inserting, spooling, draining. Every lock region,
insert and file operation is a step. An event posted with a hash of its own (`Hashed`) is
not chained; what goes through the buffer is prepared again and keeps the hash it has. A
call may fail half way if `Ambiguous` names it: an insert whose answer is lost, a spool
write without fsync or of a part of the line, a spool file read and not removed. `scrap`
counts the lines of the file that do not parse: a drain skips them, and an event written
behind one that has no end yet becomes part of it. A write that stops right before the
line's end, which leaves a line a drain can read, is left out. Rows of a failed flush go
back one per step; `buffer_lock` keeps other threads away meanwhile. **AuditLog** is what
callers may rely on: an accepted event is pending until it is persisted, persisted events
stay, and events are lost only when more are pending than memory has room for, when an
event the spool file kept takes that room a second time (`torn`), when an event is written
behind half a line (`half`), or by a restart. The SIEM export is best effort and not
modelled.

What stands before every handler, composed by **MCAccess**:

* **Clock**: the time that the three caches share.
* **Secrets**: the process-wide provider, its TTL cache, threads that read through it and
  the webhook's refresh. A secret's value is its version. The backend is read outside the
  lock, as in the code.
* **Jwks**: threads that verify tokens through the discovery document and the key cache,
  fetched outside the lock; the key set is its generation. A request may fail or be answered
  with something that is not JSON, and a document may lack its `jwks_uri`; `outcome` keeps
  the exception a refused token ended with. `Latency` bounds the time from the provider's
  answer to its being stored.
* **RateLimit**: token buckets in an LRU of `MaxBuckets`; `since` (history) counts what each
  bucket let pass from each moment on.
* **Posture**: the settings with their environment-dependent defaults, the checks that
  refuse to start, `require_bearer`, `service_auth_headers`, the identity header and the
  broker's identification of callers. Credentials are what the checks tell apart.
* **Tenancy**: the tenant tree and one principal's bindings; a decision reads them in the
  code's several calls while others write; the group sync writes one by one. The loops of
  `get_ancestors` and `get_descendants` are as many rounds (`Iterate`) of `climb` and
  `descend`; `TreeWalksAgree` says that they are over by then. The stack of
  `get_descendants` is a set: what is popped first, or again, makes no difference to what is
  found. `Above` and `Entitled` are the reference definitions.

What surrounds the services, composed by **MCEstate**:

* **Packs**: each renderer class is a record (integer fields with bounds and default, flags,
  those its documents leave out, lists, file and document kind), and the methods every class
  repeats are operators over it: coercion of tags, render, validate, apply, teardown.
* **Startup**: the broker's tables, pack discovery and the seeding of the catalog with
  services, then connectors (an entry may be None, and `catalog_entry` may raise, which ends
  the process), the control plane's bucket, the metering service's table, with backends that
  come and go.
* **Envoy**, **Mesh**: documents reduced to chains, routes, clusters and TLS contexts, and
  what an Envoy that loads one does with a request; the roll-out of sidecars. A pool may
  have the name of the cluster that `_build_doc` adds for the SPIRE agent.
* **Backup**: export page by page, snapshot in S3, restore, and rows of several schema
  versions read by replicas of several builds, with the `Migrations` that are registered. A
  provision or a bind of the broker is one write here; Broker has them in detail.
* **Metrics**: recording on the event loop beside a render in a worker thread.
* **Connectors**: connect, listing and ingest of the S3 and GitHub connectors beside writers
  of the source. Names are sequences of path segments, which `staged_key` joins.
* **Monitor**: passes of the continuous monitor beside a broker reduced to its order of
  writes (row before artefact, artefacts before row, a reconcile that renders the stored
  version again), someone who removes artefacts, and GET /events.

In both compositions the parts share no state (but the clock), so a variable `focus`
lets one of them move in each behaviour: the state space is their sum and not their
product.

`MC*` modules hold the values for TLC, `*Proofs` modules the theorems. Operators
marked *Mutant* are plausible bugs; replacing the operator below by them breaks the
property PROJECT.json names, which shows that the property depends on that code.

## Runs

| Run | Instance | Shows |
|---|---|---|
| `broker_replicas` | 1 instance, 2 replicas (one with a reconciler), 3 requests, 2 versions, 1 fault of any kind | `SucceededIsApplied`, `SkippedIsApplied`, `MeteredIsApplied`: the table never claims what was not applied, although records may be overwritten by stale copies |
| `broker_one_process` | 2 workers in one event loop, failing writes, renders, timeouts | `ProvisionIsIdempotent`, `FailureAudited` |
| `broker_serial` | 1 worker that is client and reconciler, 4 requests, 3 versions, 2 faults | `ArtifactsImmutable`, `NoOrphanArtifacts` hold one operation at a time |
| `broker_converge` | client and reconciler, 2 faults, restarts | `Converges`, under fairness |
| `audit_threads` | 2 threads, buffer 2, spool 2, 6 events of which one has a hash, 5 faults, half-written lines | `NoDuplicates`, `EveryLossLogged` |
| `audit_log` | 2 threads, buffer 2, spool 1, 4 events, 5 faults, one event with a hash, every call `Ambiguous`, a restart | `TypeOK`: the caps are kept; `ChainsToPrior`: the chain has no gap and no fork between restarts; `ImplementsLog`: refinement of AuditLog |
| `admission` | 3 requests of any kind at once, cap 1 on a service, cap 2 on its pack, decisions with obligations, one without handler, OPA away | `OvershootBounded`, `AdmittedIsCleared`, `RefusalAudited` |
| `dispatch` | 3 steps, 2 faults, 2 out-of-band changes | `StopsAtFailure`, `InSyncIsTrue`, `Reconverges` |
| `access`: secrets | 2 threads and the webhook, TTL 1, 2 versions, time 0..2 | `StaleByOneTtl` |
| `access`: keys | 2 verifiers, TTL 1 (or max-age), grace 1, latency 1, 2 generations, time 0..4, failing and garbled answers | `KeysNotTooOld`, `RefusedForAReason` |
| `access`: limiter | 1 event loop, 3 keys for 2 buckets, burst 2, rate 1, time 0..2 | `WithinBudget` |
| `access`: posture | every environment with up to 3 overrides, one request | `NoDevCredential` |
| `access`: tenancy | every table of 3 tenants (gaps and cycles included), 1 binding and 1 concurrent write, decisions about one of them; tokens of 2 of 4 groups | `TreeWalksAgree`, `ExactWhenQuiet`, `GrantRestsOnBinding`, `SyncComplete` |
| `estate`: packs | every renderer, up to 2 tags, tools present or not | `RenderedAsAsked` |
| `estate`: start-up | 1 service type, built in, 1 connector, 1 outage, 2 boots | `SeededButForFailures` |
| `estate`: Envoy, mesh | 2 routes over 2 hosts, 2 pools, one named as the agent's cluster; 3 services and an outsider | `NoPlaintextHop`; `MeshedCallsIdentified` |
| `estate`: backup | 2 ids in 2 tables, page 1, 2 writes, 2 replicas, 2 schema versions and the migration between them | `SnapshotCovers`, `RestoreBrings` |
| `estate`: metrics | 1 route and /metrics, 2 bucket edges, 4 requests | `ScrapeOffByOne` |
| `estate`: connectors | 2 locations, 2 ingests at once, 1 change of the source | `WithinMaxSize` |
| `estate`: monitor | a load balancer and a pack instance, 2 versions, scan limit 1; 2 actors, threshold 2, 4 events | `ReportedForAReason` |

The type invariants of Broker, Admission and Dispatch are proved and in no run, that of
AuditService is both; `AccessTypeOK` and `EstateTypeOK` put those of their parts
together.

On the instances of `access` and `estate` these hold as well; they are stated in the modules
and not kept in the runs: `OneProvider`, `RefreshIsFresh`, `RefusedOnlyOverBudget`,
`UsageHeals`, `OldRowsReadable`, `PeerVerified`, `SelfCallAccepted`, `OwnArtifactValid`,
`SdsResolves`, `NotYetMigratedCallersServed`, `EveryRequestCounted`, `StrayReported`,
`BucketsBounded`, `VisibleIsReadable`, `OnlyBadPortsRefused` (all proved below) and
`SpikeReported`.

Bounds. One instance is enough for the broker's properties, which never relate two
instances (only the page limit does: `Converges` is checked with a page that holds the
table, and whoever lies beyond the page is never reconciled; the interval of the reconciler
is not 0, its default, under which it does not run); two workers produce every race between a
stale copy and a newer write; two versions, three in the serial run, tell *older*,
*same* and *newer* apart; one fault interrupts any single operation, and where the
runs allow two the second one hits the retry. A buffer of two and a spool of one or two
are at their limits within four events, and a flush of two rows goes back in two steps; a
half-written line, the event behind it and the drain that skips both fit into a spool of
two. Three tenants hold every shape of chain, gap and
cycle that a walk treats differently; three keys for two buckets evict and bring one
back; TTL, grace and latency of one tick each put every event before, at and after
each deadline; one write between the reads of a decision or the pages of a scan is
what a stale read takes; a service and a connector are one entry of each of the seeding's
loops; a scan or query limit of one or two is exceeded. The theorems
below remove these bounds for what is proved. `CHECK_DEADLOCK FALSE` is set for
Broker, AuditService, MCAccess and MCEstate, which stop when their bounds are used up.
Symmetry is used over threads, workers, replicas, coroutines and the two tenants no
group names, in runs without liveness.

Fairness. `Broker!Fairness`: the event loop's ready queue is first in, first out, so
a coroutine that is ready again and again runs (strong fairness of `Run`); the
control plane answers, or the HTTP timeout does (weak fairness of `ControlPlane`).
The periodic reconciler is part of `Run`: it sleeps and wakes for as long as the
process lives. `Dispatch!FairSpec`: the same reconciler. Faults, restarts and client
requests are not fair, only bounded. A diff may answer
*unknown* every time; `Converges` does not need it, because only succeeded instances
are compared. In Dispatch an unknown answer is a fault, and bounded.

## Disagreements between code and documentation

Two are runs that end in a violation; PROJECT.json quotes the text they contradict.

* `broker_stuck_operation`: a restart in the middle of a reconcile leaves its
  operation in progress for good, once the drift refresh finds the backend in sync.
* `audit_spool_crash`: draining removes the spool file before its events are stored.

These further ones are stated as properties and are violated on the instances given.
They are not kept as runs. Of those without an instance, the one of the run `access`
or `estate` will do.

| Property | Instance | What happens |
|---|---|---|
| `Broker!OnlyProvisionCreates` | 2 clients, one process | an update in flight writes a deprovisioned instance back |
| `Broker!VersionNeverGoesBack` | 2 clients, one process | the operation that ends last writes its older copy |
| `Broker!ProvisionIsIdempotent` | `Faults = {"read"}`, or two replicas | a second provision overwrites the record (`store.py:61`, `main.py:1064`) |
| `Broker!SucceededIsMetered` | `Faults = {"render"}`, with reconciler | the reconciler finalizes without metering |
| `Broker!Converges` | 2 instances, `BatchLimit = 1` | the second one is never in the page |
| `AuditService!SpooledNeverLost` | no restart, `BufferCap = 1`, `SpoolCap = 3` | drained events do not fit the buffer |
| `AuditService!EveryLossLogged` | without `scrap.events` | an event spooled behind half a line is skipped with it by the drain, and no drop is logged (`audit_spool.py:55-60`); `audit_spool.py:88-89` counts on "a torn final line (crash mid-write)" only |
| `AuditService!OldestDropped` | `BufferCap = 2`, no spool | requeueing gives up newer events |
| `Admission!AtCapRejects` | `Window = 2`, 4 records | other services' records hide those of the capped one |
| `Dispatch!ConfirmedIsDrifted` | 1 fault, 1 change | an unchecked step hides another one's drift in that pass |
| `Dispatch!FailedStepRecorded` | 1 fault | the failed step is lost in `render`'s error wrapping |
| `Dispatch!ChangeDetected` | manifest of s3-put and snapshot, s3-put not registered | the Envoy renderer's diff is always unknown |
| `Broker!EveryFailureAudited` | `Faults = {"render"}` | a failed update stores its state and emits no audit event (`main.py:1148`); `docs/adr/0003-execution-and-reconciliation.md:39` says a failed apply must "emit an audit event" |
| `Broker!ArtifactsImmutable` | 2 clients, one process | two updates of one version render different parameters under one key (`main.py:1143`); `README.md:265`: "Immutable, versioned config artifacts." |
| `Secrets!RefreshAlwaysFresh` | | a get that straddles the webhook puts the old value back into the cache the refresh reads (`settings.py:384-386`) |
| `RateLimit!WithinBudget` | `Callers = {c1, c2}` | the clock is read before the lock: a bucket goes back in time and refills twice. The services have one event loop, so this is a condition on their use |
| `Posture!SelfCallAlwaysAccepted` | | with neither mTLS, workload identity nor the shared token on, OIDC alone for one, a service has no credential to send (`security.py:39-40`) |
| `Jwks!OldKeysKeepWorking` | | a discovery document that is not JSON, or has no `jwks_uri`, refuses tokens although the cached keys are good (`oidc.py:10-11`: "on a fetch failure mid-cache the old keys keep working until they expire") |
| `Tenancy!DecisionIsSnapshot` | `MaxWrites = 2` | a decision mixes the tables of two moments (`authz.py:31`) |
| `Tenancy!SyncAllPersisted` | | two groups of one tenant: the first binding returned as written is overwritten (`group_sync.py:44-45`) |
| `Tenancy!VisibleAlwaysReadable` | | asked about a tenant that does not exist, the list names the tenants that have it as parent, which inherit nothing from it |
| `Packs!InvalidInputIs422` | | a pack's bad tag is a 500 (`renderers/base.py:42-43`) |
| `Packs!TeardownRemoves` | | the packs' teardown removes nothing (`renderers/base.py:78`) |
| `Packs!ListTagsAccepted` | | the AI pack takes no list from a tag |
| `Packs!OneMeaningOfTrue` | | "on" is true in one pack and false in the others |
| `Packs!AskedIsRendered` | | six renderer classes have flags their documents leave out, disk encryption of the edge node among them (`packs/edge/sovereign_edge/renderers.py:51-52`) |
| `Startup!StartupHeals` | with `StartupFairness` | the promised retry "on first request" is not there (broker `main.py:568`, control plane `main.py:97`) |
| `Startup!ReadyCanServe` | | readiness looks at one table (`health.py:4`) |
| `Startup!CatalogFallsBack` | | a DynamoDB out of reach is a 500, not the fallback (`main.py:610`) |
| `Envoy!NoPlaintextAtAll` | | a route that names the cluster of the SPIRE agent, `spiffe_sds`, goes to its socket without TLS (`render.py:172-175`, `258-261`); `render.py:140-142` says "leaving no plaintext hop when `mtls_enabled` is set" |
| `Envoy!HostsKeptApart` | | all routes share one virtual host |
| `Envoy!RenderedRoutesResolve` | | a route to a cluster that is not there passes the schema (`render.py:4-7`) |
| `Envoy!BadEndpointIs422` | | an endpoint without a port is a 500 (`renderers/base.py:42-43`) |
| `Mesh!HalfMigratedMeshWorks` | | a sidecar speaks mTLS to a service that has none yet (`settings.py:287-289`) |
| `Mesh!OutsidersReached`, `Mesh!OutsidersServed` | | the same for OPA (`production.yaml:25`) and, under strict mTLS, for the kubelet's probes (`production.yaml:166`) |
| `Backup!HalfMigratedServes` | | a replica of the older build refuses rows of the newer (`migrations.py:12-13`) |
| `Backup!SnapshotConsistent` | | a binding in the snapshot without its instance |
| `Metrics!Cumulative`, `Metrics!ScrapeSucceeds` | | a render beside a recording reports +Inf below the last bucket (`metrics.py:74-75`), or fails on a route's first request |
| `Connectors!ObjectsKeptApart` | `Locations`: the file `f` of containers `a` and `b` | the staged key of S3 leaves out the bucket (`s3.py:222`) |
| `Connectors!IngestsWhatWasListed` | | what is ingested is not what was listed (`types.py:46-47`) |
| `Connectors!ConnectedBeforeUse` | | a connect that failed leaves a client that the guards accept (`base.py:44-45`) |
| `Monitor!ReportedHasDiverged` | | instances being rendered, and all of packs, are reported (`docs/ssp/controls/cm.md:28`) |
| `Monitor!PassMeansReconciled` | | an unreadable table or a full page is a PASS (`continuous_monitor.py:229`) |

## Proofs

| Theorem | Assumes | Says |
|---|---|---|
| `BrokerProofs!TypeCorrect` | | `Spec => []TypeOK` |
| `BrokerProofs!SucceededOnlyWhenApplied` | | `Spec => []SucceededIsApplied` |
| `BrokerProofs!SkippedOnlyWhenApplied` | | `Spec => []SkippedIsApplied` |
| `BrokerProofs!MeteredOnlyWhenApplied` | | `Spec => []MeteredIsApplied` |
| `BrokerProofs!FailuresAudited` | no process dies | `Spec => []FailureAudited` |
| `BrokerProofs!ProvisionIdempotentInOneProcess` | one process, reads do not fail | `Spec => []ProvisionIsIdempotent` |
| `AdmissionProofs!AdmissionTyped` | | `Spec => []TypeOK` |
| `AdmissionProofs!QuotaOvershootBounded` | the usage query returns all records (`MaxRecords <= Window`) | `Spec => []OvershootBounded` |
| `AdmissionProofs!AdmittedCleared` | | `Spec => []AdmittedIsCleared` |
| `AdmissionProofs!RefusalsAudited` | | `Spec => []RefusalAudited` |
| `ServiceProofs!DispatchTyped` | | `Spec => []TypeOK` |
| `ServiceProofs!FailedApplyStops` | | `Spec => []StopsAtFailure` |
| `ServiceProofs!InSyncTold` | | `Spec => []InSyncIsTrue` |
| `AuditProofs!AuditTypes` | | `Spec => []TypeOK` |
| `AuditProofs!RefinesLog` | | `Spec => ImplementsLog`: AuditService implements AuditLog |
| `AuditProofs!LossesLogged` | no restart | `Spec => []EveryLossLogged` |
| `AuditProofs!EventsOnce` | no call fails after its whole effect | `Spec => []NoDuplicates` |
| `AuditProofs!ChainUnbroken` | | `Spec => []ChainsToPrior` |
| `CacheProofs!NeverStalerThanTtl` | | always `StaleByOneTtl` |
| `CacheProofs!ReadersShareProvider` | | always `OneProvider` |
| `CacheProofs!QuietRefreshFresh` | | always `RefreshIsFresh` |
| `CacheProofs!KeysExpire` | | always `KeysNotTooOld` |
| `CacheProofs!StaleKeysServe` | | the action property `RefusedForAReason` |
| `ServiceProofs!BudgetKept` | one caller | always `WithinBudget` |
| `ServiceProofs!RefusalsJust` | one caller | always `RefusedOnlyOverBudget` |
| `ServiceProofs!BucketsCapped` | | always `BucketsBounded` |
| `ServiceProofs!NoDevCredentials` | | always `NoDevCredential` |
| `ServiceProofs!PeersVerified` | | always `PeerVerified` |
| `ServiceProofs!SelfCallsAccepted` | | always `SelfCallAccepted` |
| `TenancyProofs!TreeWalks` | | always `TreeWalksAgree` |
| `TenancyProofs!GrantsRestOnBindings` | | always `GrantRestsOnBinding` |
| `TenancyProofs!DecisionsExact` | | always `ExactWhenQuiet` |
| `TenancyProofs!ListedAreReadable` | | always `VisibleIsReadable` |
| `TenancyProofs!SyncsComplete` | | always `SyncComplete` |
| `StoreProofs!CatalogSeeded` | | always `SeededButForFailures` |
| `StoreProofs!MeteringHeals` | | always `UsageHeals` |
| `StoreProofs!ExportCovers` | | always `SnapshotCovers` |
| `StoreProofs!NewestReadsAll` | | always `OldRowsReadable` |
| `StoreProofs!RestoreComplete` | | the action property `RestoreBrings` |
| `StoreProofs!MaxSizeKept` | | always `WithinMaxSize` |
| `StoreProofs!ReportsHaveReasons` | | always `ReportedForAReason` |
| `StoreProofs!StraysReported` | | always `StrayReported` |
| `ServingProofs!RendersAsAsked` | | always `RenderedAsAsked` |
| `ServingProofs!OwnArtifactsValid` | | always `OwnArtifactValid` |
| `ServingProofs!NoPlaintext` | | always `NoPlaintextHop` |
| `ServingProofs!MeshIdentifies` | | the action property `MeshedCallsIdentified` |
| `ServingProofs!PlainCallersServed` | | the action property `NotYetMigratedCallersServed` |
| `ServingProofs!SdsAlwaysResolves` | | always `SdsResolves` |
| `ServingProofs!RefusedOnlyForPorts` | | always `OnlyBadPortsRefused` |
| `ServingProofs!ScrapesOffByOne` | | always `ScrapeOffByOne` |
| `ServingProofs!RequestsCounted` | | always `EveryRequestCounted` |

They hold for every value of the constants that satisfies the named assumptions of
the modules: any number of instances, workers, processes, versions, faults, threads,
events, caps and manifest steps; any TTL, burst, rate and latency, table and page size;
any tenants, groups and mappings; any hosts, pools and services. The assumptions say that
bounds are numbers, that caps, bursts and bucket counts are not zero, that values such as
`Nil`, `Root` and `Absent` are not among the things they stand apart from, and that maps
and manifests have the keys and steps they are read with; tenants are finitely many.
CacheProofs (Secrets, Jwks), ServiceProofs (RateLimit, Posture, Dispatch), TenancyProofs
(Tenancy), StoreProofs (Startup, Backup, Connectors, Monitor) and ServingProofs
(Packs, Envoy, Mesh, Metrics) prove their theorems of each component alone, from its own
specification (`SecretsSpec`, `TenancySpec`, ...), whose initial predicate and next-state
relation the compositions use.

*Broker.* `SucceededIsApplied` is not inductive: a worker may write an old copy of a
record back. `AppliedInv` adds that every *copy* is sound too: `StoreSound` says that
a stored record whose operation succeeded, or which claims `applied = version`, was
applied as it is; `TasksSound` says the same of the record each worker holds and of
every entry of a pass's queue, and that a worker whose render returned ok holds
something applied. Every step either copies a sound record, or makes one from
the answer to its own render. Since `applied` only grows, a sound copy stays sound
however long it is held. Idempotence of provision is a different argument: between
the check and the put the worker is at a point that is not `Yielded`, so nobody else
of its process runs. `MeteredIsApplied` and `FailureAudited` are inductive beside
`AppliedInv`: a worker stores a failure in the step that takes it to its audit call, and
stays there until it has made the call, so that only its death can come between.

*Admission.* `CapInv` counts, for each scope, the records plus the requests that
passed its quota gate and have not been metered (`Holders`). It never exceeds the cap
plus the number of workers less one: a request comes to hold a scope only while the
records are below the cap, and no more than all workers hold it; metering turns a
holder into a record. `TrailInv` says of every request that goes on that its trail
has no denial, of a refused one that it has one, and of an allowed one that each
obligation is enforced or still to do.

*Audit.* `AuditInv` says, besides types and caps, which fields a request has at each of its
points (`Shape`), that nothing is held or stored that was not accepted (`Within`), and that,
unless the spool file kept an event held elsewhere, every pending event is in one place
(`Apart`). Each step of a thread is then shown to have one of five effects on the queues: it
moves events about (`Quiet`), stores some, gives some up, writes one behind half a line
(`Completes`), or takes a new one. The refinement maps these to stuttering or `Tear`,
`Persist`, `Overflow`, `Complete` and `Accept`, and a restart to `Restart`. The hard case is
`Overflow`: a full buffer with one more event in a thread's hands is more than `Capacity`
pending events only if the two have no event in common, which is `Apart`. `torn` is the
exception: with a buffer of two, a spool file that was read and not removed lets an event
fill the buffer twice, so that another is given up although no more than two are pending.
That the losses are logged follows from the same effects by counting, and `NoDuplicates`
from `Apart` and that a stored event is nowhere pending. `ChainInv`: the head in memory is
that of the next event too (`IsHead`), the last event chained since the start, or none. A
flush prepares its rows again; each has a hash by then, so that the head stays.

*Dispatch.* `ApplyInv` ties the executed steps to the loop index, of the apply in progress and
of each one that nobody waits for any more; `SyncInv` says that,
within a diff, every comparable step already passed is as desired, or made the pass
drifted or unknown, or was changed after it was looked at.

*Secrets.* `ValuesDated`: every cached value, and every value a reader is about to
cache, was current at or after the time it is stamped with, because the clock is read
before the backend. That is why a slow backend makes an entry expire early and never
late. `OneCache`: only the installed provider's cache is ever filled. `NothingOlder`:
in a refresh no get straddles, nothing older than its beginning is cached or about
to be.

*RateLimit.* `Covers` ties a bucket to its history: for every start of a window, what it
passed since plus the tokens left is at most burst plus refill; `Tight` says that for
some start it is equal. The first gives the budget, the second that a refusal is just.
`Ordered`, which needs the single caller, keeps time from going back in a bucket. `LruInv`
(the list is within the cap, without repetitions, and ends with the key last served) gives
`BucketsBounded` for any number of callers: what `touched` adds is at the end, and `evict`
takes from the front.

*Backup.* `ExportSoFar`: rows untouched since the export began are unchanged, and taken
if already scanned; `RestoreSoFar` is its counterpart. `AllKnown`: every row, live, in a
job or in the snapshot, has a schema version that some replica's build knows.

*Startup.* `SeedingSoFar`: the registered services and connectors that are neither missed
nor left to seed are in the catalog. `UsageTable`: a metering service that believes its
table is there is right, so that only an outage can refuse a record.

*Jwks.* `CacheDated` and `AnswersDated`: the keys in the cache, and those a thread is about
to store, were the provider's own at most `Latency` before the time they are dated with.
Concurrent fetches may store an older answer over a newer one; each is dated when it is
stored, so that the bound does not depend on the order. Why a token is refused is seen in the
step that refuses it: without a document or keys within the grace, or in one of the two
answers `RefusedForAReason` names.

*Posture.* `CheckedAtStart`: a service that is up passed the checks with the settings it
has. What is left are facts about the settings alone, by cases on the environment.

*Tenancy.* The walks are loops, so they need induction on the rounds. `Induct` states it of a
set of numbers, which the provers can instantiate where they cannot an operator; it rests on
the well-foundedness of strict inclusion of finite sets. `IterateFacts` then gives what no
round and one round more make. `Climbed` is the invariant of `get_ancestors`: after n rounds
the list holds the first n tenants above, or the walk is over. `Searched` is that of
`get_descendants`: all it saw or stacked is below, and the children of what it saw are seen or
stacked; `Left`, the stack and the tenants whose parent was not seen, falls with every round,
so that twice the number of tenants is enough. `TablesTyped`: the table is always one the
lemmas speak of. `DecisionInv`: whatever is written, each role a decision has collected comes
from a binding it has seen (`RolesBound`); while nothing is written, the roles are exactly
those of the tenants read so far (`QuietRoles`), and since the scan is `Above`, those of the
rule. The proof has to see that the binding `authz.py:76` leaves out, platform admin at the
tenant itself, is among the direct ones. What is listed can be read because `Above` is
transitive (`AboveIsTransitive`), on tables with cycles too.
`SyncedSoFar`: the groups a quiet sync is done with have their roles.

*Connectors.* `Measured`: an ingest that is about to put, or has, holds a body within its
limit. *Monitor.* `SettledSince`: a settled instance has the artefact of the version it was
listed with, whatever it was updated to since, and no deprovision of it is under way.

*Packs.* `ArtifactOfInstance`: the artifact in the bucket is the rendering of the recorded
tags, and the tags raised nothing. The rest are facts about the renderer records and the two
readings of a flag. *Envoy, Mesh.* `DocumentOfParameters`: an instance serves with the
document of its parameters. `StrictLast`: no service is strict before all have their
sidecar. A document also has the cluster of the SPIRE agent, a local socket without TLS,
whose name a route may use; `NoPlaintextHop` leaves that hop out. `RefusedForAPort` goes
through the schema one check at a time: the template puts in what an empty list leaves out.
`Envoy` assumes that no pool is named by the empty string, which stands for a route that
names no cluster.

*Metrics.* `ObservedAreTotal` counts the observations of a route, one pair per bucket and
tally: they are its total, or one more while a request is between the two. `RenderSoFar`: a
render has added up no more than the observations of the buckets it has passed, which can
only grow.

Only model-checked:

* liveness (`Converges`, `Reconverges`, `OperationsEnd`), which is out of the prover's reach;
* `NoOrphanArtifacts` and `ArtifactsImmutable`, which hold of one operation at a time only;
* `AccessTypeOK` and `EstateTypeOK`, which only put the shapes of separate parts together;
  the parts of them that the theorems need are in their inductive invariants;
* `SpikeReported`: the count of denies is the length of a `SelectSeq`, of which the prover has
  no definition.

## Not modelled

PROJECT.json lists every part with its reason. In short:

* cryptography, token parsing and TLS: functions of one input whose correctness is the
  libraries';
* the contents of generated documents beyond what routing, transport and deployment
  depend on;
* the Rego policies, which OPA evaluates, and pack policies;
* stateless request and response code: API versions, errors, CORS, tracing;
* the FinOps arithmetic, in floating point, over records read once;
* the portal, the pilot and release scripts, deployment files: clients and
  configuration of what is modelled.

Dispatch's manifest is not connected to Broker's one-step render by a checked
refinement, and the parts in `access` and `estate` move one at a time.

