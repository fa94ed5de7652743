------------------------------- MODULE Monitor -------------------------------
(***************************************************************************)
(* One pass after the other of scripts/continuous_monitor.py, beside a     *)
(* broker that goes on serving: the reconciliation of stored instances     *)
(* with their artefacts in S3, and the queries of GET /events for fresh    *)
(* events and for bursts of denies.  Every call is a step.                 *)
(***************************************************************************)
EXTENDS Integers, FiniteSets, Sequences

CONSTANTS
    Inventory,     \* instance ids
    OfPacks,       \* those of a pack's service type; their renderers write no envoy.yaml
    MaxVersion,    \* bound: versions of an instance
    ScanLimit,     \* instances one scan returns, 1000
    AuditConfigured, \* whether AUDIT_SERVICE_URL is set
    Actors,
    Threshold,     \* POLICY_DENY_SPIKE_THRESHOLD
    QueryLimit,    \* events one query returns, 1000
    MaxLog         \* bound: audit events of the last hour

ASSUME MonitorAssumption == MaxVersion \in Nat /\ MaxLog \in Nat

VARIABLES
    versions,    \* DynamoDB: version of each instance, 0 when there is none
    artefacts,   \* S3: <<id, version>> with an envoy.yaml
    operation,   \* the broker's operation on each instance: none, render, teardown
    log,         \* events of the last hour in ClickHouse, oldest first: the actor of a
                 \* deny, or "allow"
    recent,      \* how many of them are within the spike window
    pass,        \* [pc, listed, todo, missing, failed]
    settled,     \* history: instances that had their artefact when they were listed, but
                 \* for those deprovisioned, or robbed of an artefact, by now
    refused,     \* history: instances whose head_object failed though the artefact was there
    strays       \* history: instances without their artefact from the listing on

monitorVars == <<versions, artefacts, operation, log, recent, pass, settled, refused, strays>>
brokerVars == <<versions, artefacts, operation>>

NoPass == [pc |-> "idle", listed |-> [i \in {} |-> 0], todo |-> {}, missing |-> {},
           failed |-> FALSE]

MonitorInit ==
    /\ versions = [i \in Inventory |-> 0] /\ operation = [i \in Inventory |-> "none"]
    /\ artefacts = {} /\ log = <<>> /\ recent = 0
    /\ pass = NoPass /\ settled = {} /\ refused = {} /\ strays = {}

Astray(i) == versions[i] # 0 /\ <<i, versions[i]>> \notin artefacts

-----------------------------------------------------------------------------
(* The broker and its renderer, in the order of module Broker; one operation *)
(* of an instance at a time.                                                 *)

\* provision or update: the row is stored before the artefact is rendered.
store_version(i) ==
    /\ operation[i] = "none" /\ versions[i] < MaxVersion
    /\ versions' = [versions EXCEPT ![i] = @ + 1]
    /\ operation' = [operation EXCEPT ![i] = "render"]
    /\ strays' = strays \ {i}
    /\ UNCHANGED <<artefacts, log, recent, pass, settled, refused>>

\* _reconcile_instance: the version that is stored is rendered again.
begin_reconcile(i) ==
    /\ operation[i] = "none" /\ versions[i] # 0
    /\ operation' = [operation EXCEPT ![i] = "render"]
    /\ UNCHANGED <<versions, artefacts, log, recent, pass, settled, refused, strays>>

put_artefact(i) ==
    /\ operation[i] = "render"
    /\ operation' = [operation EXCEPT ![i] = "none"]
    /\ artefacts' \in {artefacts} \cup (IF i \in OfPacks THEN {}
                                        ELSE {artefacts \cup {<<i, versions[i]>>}})
    /\ strays' = strays \ {i}
    /\ UNCHANGED <<versions, log, recent, pass, settled, refused>>

\* deprovision: the artefacts go first, best effort, and the row last, if it does.
begin_teardown(i) ==
    /\ operation[i] = "none" /\ versions[i] # 0
    /\ operation' = [operation EXCEPT ![i] = "teardown"]
    /\ settled' = settled \ {i}
    /\ UNCHANGED <<versions, artefacts, log, recent, pass, refused, strays>>

delete_artefact(i) ==
    /\ operation[i] = "teardown"
    /\ \E a \in artefacts : a[1] = i /\ artefacts' = artefacts \ {a}
    /\ UNCHANGED <<versions, operation, log, recent, pass, settled, refused, strays>>

remove_row(i) ==
    /\ operation[i] = "teardown"
    /\ operation' = [operation EXCEPT ![i] = "none"]
    /\ versions' \in {versions, [versions EXCEPT ![i] = 0]}
    /\ strays' = strays \ {i}
    /\ UNCHANGED <<artefacts, log, recent, pass, settled, refused>>

\* Someone removes an artefact behind the broker's back.
lose_artefact(i) ==
    /\ \E a \in artefacts : a[1] = i /\ artefacts' = artefacts \ {a}
    /\ settled' = settled \ {i}
    /\ UNCHANGED <<versions, operation, log, recent, pass, refused, strays>>

-----------------------------------------------------------------------------
(* The audit log, and GET /events: the most recent of the events asked for.  *)

persist_event(e) ==
    /\ Len(log) < MaxLog
    /\ log' = Append(log, e) /\ recent' = recent + 1
    /\ UNCHANGED <<brokerVars, pass, settled, refused, strays>>

time_passes ==
    /\ \/ recent > 0 /\ recent' = recent - 1 /\ UNCHANGED log
       \/ Len(log) > recent /\ log' = Tail(log) /\ UNCHANGED recent
    /\ UNCHANGED <<brokerVars, pass, settled, refused, strays>>

Newest(s, n) == SubSeq(s, IF Len(s) <= n THEN 1 ELSE Len(s) - n + 1, Len(s))

Denies == SelectSeq(Newest(log, recent), LAMBDA e : e # "allow")

query_events(events) == Newest(events, QueryLimit)

-----------------------------------------------------------------------------
(* The checks, in the order of CHECKS.                                       *)

NextCheck == [opa |-> "freshness", freshness |-> "spike", spike |-> "list", list |-> "images",
              heads |-> "images", images |-> "sentinels", sentinels |-> "done"]

\* A check that raises is a FAIL; a SKIP is none.
end_check(status) ==
    pass' = [NoPass EXCEPT !.pc = NextCheck[pass.pc], !.failed = pass.failed \/ status = "FAIL"]

main ==
    /\ pass.pc \in {"idle", "done"}
    /\ pass' = [NoPass EXCEPT !.pc = "opa"]
    /\ UNCHANGED <<brokerVars, log, recent, settled, refused, strays>>

\* Three checks look at nothing of this model: the policy tests, the scan reports and
\* the settings are as they are, or are not there.
check_outside(pc) ==
    /\ pass.pc = pc
    /\ \E status \in {"PASS", "FAIL", "SKIP"} : end_check(status)
    /\ UNCHANGED <<brokerVars, log, recent, settled, refused, strays>>

check_opa_policy_tests == check_outside("opa")
check_image_scan_freshness == check_outside("images")
check_settings_sentinels == check_outside("sentinels")

\* No URL is configured, the query fails, or it answers.
check_audit_freshness ==
    /\ pass.pc = "freshness"
    /\ IF AuditConfigured
       THEN \/ end_check("FAIL")
            \/ end_check(IF query_events(log) = <<>> THEN "FAIL" ELSE "PASS")
       ELSE end_check("SKIP")
    /\ UNCHANGED <<brokerVars, log, recent, settled, refused, strays>>

Count(events, actor) == Cardinality({k \in DOMAIN events : events[k] = actor})

offenders(events) == {a \in Actors : Count(events, a) >= Threshold}

check_policy_deny_spike ==
    /\ pass.pc = "spike"
    /\ IF AuditConfigured
       THEN \/ end_check("FAIL")
            \/ end_check(IF offenders(query_events(Denies)) = {} THEN "PASS" ELSE "FAIL")
       ELSE end_check("SKIP")
    /\ UNCHANGED <<brokerVars, log, recent, settled, refused, strays>>

\* list_instances: one page of a scan; the store's errors make an empty list.
list_instances ==
    LET there == {i \in Inventory : versions[i] # 0}
        pages == {p \in SUBSET there : \/ Cardinality(p) = ScanLimit
                                       \/ p = there /\ Cardinality(p) < ScanLimit}
    IN {[i \in page |-> versions[i]] : page \in pages \cup {{}}}

\* check_state_drift, first half.  Missing credentials skip, other exceptions fail.
list_state ==
    /\ pass.pc = "list"
    /\ \/ /\ \E status \in {"SKIP", "FAIL"} : end_check(status)
          /\ UNCHANGED <<settled, strays>>
       \/ \E found \in list_instances :
            /\ pass' = [pass EXCEPT !.pc = "heads", !.listed = found, !.todo = DOMAIN found]
            /\ settled' = {i \in DOMAIN found : ~Astray(i) /\ operation[i] # "teardown"}
            /\ strays' = {i \in Inventory : Astray(i)}
    /\ UNCHANGED <<brokerVars, log, recent, refused>>

\* Mutant: the version now stored is looked for.
artefact_key_now(i, version) == <<i, versions[i]>>

artefact_key(i, version) == <<i, version>>

\* Second half: one head_object after the other; whatever it raises, the artefact
\* counts as missing.
head_object(i) ==
    /\ pass.pc = "heads" /\ i \in pass.todo
    /\ \/ /\ artefact_key(i, pass.listed[i]) \in artefacts
          /\ pass' = [pass EXCEPT !.todo = @ \ {i}]
          /\ UNCHANGED refused
       \/ /\ pass' = [pass EXCEPT !.todo = @ \ {i}, !.missing = @ \cup {i}]
          /\ IF artefact_key(i, pass.listed[i]) \in artefacts
             THEN refused' = refused \cup {i}
             ELSE UNCHANGED refused
    /\ UNCHANGED <<brokerVars, log, recent, settled, strays>>

report_state ==
    /\ pass.pc = "heads" /\ pass.todo = {}
    /\ end_check(IF pass.missing = {} THEN "PASS" ELSE "FAIL")
    /\ settled' = {} /\ refused' = {} /\ strays' = {}
    /\ UNCHANGED <<brokerVars, log, recent>>

MonitorNext ==
    \/ \E i \in Inventory : \/ store_version(i) \/ begin_reconcile(i) \/ put_artefact(i)
                            \/ begin_teardown(i) \/ delete_artefact(i) \/ remove_row(i)
                            \/ lose_artefact(i) \/ head_object(i)
    \/ \E e \in Actors \cup {"allow"} : persist_event(e)
    \/ time_passes \/ main
    \/ check_opa_policy_tests \/ check_image_scan_freshness \/ check_settings_sentinels
    \/ check_audit_freshness \/ check_policy_deny_spike \/ list_state \/ report_state

MonitorSpec == MonitorInit /\ [][MonitorNext]_monitorVars

-----------------------------------------------------------------------------
(* Properties.                                                               *)

\* Part of the type invariant of the run.
MonitorTypeOK ==
    /\ versions \in [Inventory -> 0..MaxVersion]
    /\ artefacts \subseteq Inventory \X (1..MaxVersion)
    /\ Len(log) <= MaxLog /\ recent \in 0..Len(log)
    /\ pass.todo \cup pass.missing \subseteq DOMAIN pass.listed

\* A listed instance that is without its artefact from the listing to the end of the
\* check, and that no operation touches, is reported.
StrayReported ==
    pass.pc = "heads" /\ pass.todo = {} => strays \cap DOMAIN pass.listed \subseteq pass.missing

\* An instance that had its artefact when it was listed is reported missing only if it is
\* being deprovisioned, if someone removed an artefact of it since, or if head_object
\* itself failed (continuous_monitor.py:289): an update or a reconcile that begins while
\* the monitor looks is never reported.
ReportedForAReason == pass.missing \cap settled \subseteq refused

\* A burst of denies of one actor within the window is passed over only when the
\* query fails, which is a FAIL of its own, or its limit cuts the window short.
SpikeReported ==
    [][ LET window == (Len(log) - recent + 1)..Len(log)
        IN AuditConfigured /\ pass.pc = "spike" /\ pass'.pc = "list" /\ ~pass'.failed =>
             \/ \A a \in Actors : Cardinality({k \in window : log[k] = a}) < Threshold
             \/ Cardinality({k \in window : log[k] # "allow"}) > QueryLimit ]_monitorVars

\* Violated by the code.  docs/ssp/controls/cm.md:28: the monitor "pages on-call when
\* they diverge"; an instance that is being rendered, and every instance of a pack, is
\* reported too.
ReportedHasDiverged ==
    \A i \in pass.missing : i \notin OfPacks /\ operation[i] = "none"

\* Violated by the code.  What a PASS stands for, continuous_monitor.py:229: "Every
\* DynamoDB ServiceInstance has a corresponding rendered S3 artefact"; a table that
\* cannot be read is an empty list, and a scan ends at its limit.
PassMeansReconciled ==
    pass.pc = "heads" /\ pass.todo = {} /\ pass.missing = {} => strays = {}
=============================================================================
