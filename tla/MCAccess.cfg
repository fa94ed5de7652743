SPECIFICATION Spec
CONSTANTS
    MaxTime = 4
    Threads = {t1, t2}
    Names = {"service-bearer-token"}
    FieldOrder <- MCFieldOrder
    Ttl = 1
    MaxVersion = 2
    Loop = loop
    NoProvider = none
    Transient = transient
    Verifiers = {v1, v2}
    CacheTtl = 1
    MaxAge = {0, 1}
    Grace = 1
    Latency = 1
    MaxGeneration = 2
    Callers = {c1}
    Keys = {k1, k2, k3}
    Burst = 2
    Rate = 1
    MaxBuckets = 2
    MaxOverrides = 3
    agency = agency
    bureau = bureau
    team = team
    Tenants = {agency, bureau, team}
    Root = Root
    Absent = Absent
    Groups = {"admins", "teams", "auditors", "others"}
    group_role_map <- GroupRoles
    group_tenant_map <- GroupTenants
    MaxWrites = 1
    MaxBindings = 1
    MaxGroups = 2
INVARIANTS
    AccessTypeOK
    StaleByOneTtl
    KeysNotTooOld
    WithinBudget
    NoDevCredential
    TreeWalksAgree GrantRestsOnBinding ExactWhenQuiet SyncComplete
 
CHECK_DEADLOCK FALSE
