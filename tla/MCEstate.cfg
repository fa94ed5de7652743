SPECIFICATION Spec
CONSTANTS
    MaxTags = 2
    Types = {t1}
    ConnectorTypes = {c1}
    BuiltIn = {t1}
    MaxOutages = 1
    MaxBoots = 2
    Hosts = {h1, h2}
    Pools = {p1, "spiffe_sds"}
    MaxRoutes = 2
    Chassis = {s1, s2, s3}
    Outsiders = {o1}
    Ids = {i1, i2}
    Replicas = {r1, r2}
    MaxSchema = 2
    Migrations = {1}
    MaxWrites = 2
    PageSize = 1
    Endpoints = {"/provision"}
    Buckets = 2
    MaxRequests = 4
    Locations <- OneContainer
    DestinationPrefix <- Ingested
    Coroutines = {k1, k2}
    MaxSize = 2
    BlobSize = 2
    SizeLimit = 1
    ListPage = 1
    MaxChanges = 1
    Inventory = {lb1, ai1}
    OfPacks = {ai1}
    MaxVersion = 2
    ScanLimit = 1
    AuditConfigured = TRUE
    Actors = {a1, a2}
    Threshold = 2
    QueryLimit = 2
    MaxLog = 4
INVARIANTS
    EstateTypeOK
    RenderedAsAsked
    SeededButForFailures
    NoPlaintextHop
    SnapshotCovers
    ScrapeOffByOne
    WithinMaxSize
    ReportedForAReason
PROPERTIES
    MeshedCallsIdentified
    RestoreBrings
SYMMETRY Symmetry
CHECK_DEADLOCK FALSE
