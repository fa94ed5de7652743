------------------------------- MODULE Broker -------------------------------
(***************************************************************************)
(* The OSB broker's instance lifecycle (apps/broker/app/main.py) over its  *)
(* DynamoDB tables (libs/common/sovereign/store.py), the control plane it  *)
(* calls to render and diff (apps/control-plane/app/main.py) and the       *)
(* per-version artifacts the Envoy renderer keeps in S3.                   *)
(*                                                                         *)
(* A worker is one request coroutine, one threadpool call (bind, unbind)   *)
(* or the periodic reconciler.  Each call that reads or writes the store,  *)
(* and each await, is a step of its own.  Inside one process the event     *)
(* loop runs a coroutine from await to await without interruption; workers *)
(* of different replicas interleave at every step.  CanRun expresses both. *)
(***************************************************************************)
EXTENDS Integers, FiniteSets

CONSTANTS
    Instances,    \* OSB instance ids
    Params,       \* what a request can ask for: plan_id together with parameters
    Bindings,     \* OSB binding ids
    Procs,        \* broker processes (replicas)
    Clients,      \* workers that serve requests
    Reconcilers,  \* workers that run _periodic_reconciler
    ProcOf,       \* the process a worker lives in
    Rank,         \* the order in which a table scan returns instances
    BatchLimit,   \* settings.reconcile_batch_limit
    Faults,       \* the kinds of fault the environment may inject
    MaxVersion,   \* bound: no update beyond this version
    MaxRequests,  \* bound: client requests in a behaviour
    MaxFaults,    \* bound: faults in a behaviour
    Nil           \* Python's None

Workers == Clients \cup Reconcilers

Versions == 1..MaxVersion

VARIABLES
    db,        \* table sovereign_instances: id -> ServiceInstance or Nil
    bindings,  \* table sovereign_bindings: id -> Binding or Nil
    bucket,    \* S3: (instance, version) -> the params its artifact was rendered from
    task,      \* what each worker is doing
    late,      \* render requests whose sender no longer waits for them
    applied,   \* history: every (instance, version, params) the control plane applied
    usage,     \* usage records in the metering store, per instance
    audit,     \* audit events emitted
    requests,  \* client requests so far
    faults     \* faults so far

vars == <<db, bindings, bucket, task, late, applied, usage, audit, requests, faults>>

-----------------------------------------------------------------------------
(* The persisted record: the fields of ServiceInstance that the code reads  *)
(* back.  applied = 0 stands for applied_version None.                      *)

ServiceInstance ==
    [params : Params, version : Versions, applied : 0..MaxVersion,
     status : {"provisioning", "succeeded", "failed"},
     op     : {"in progress", "succeeded", "failed"},
     optype : {"provision", "update", "reconcile"},
     drift  : {"in_sync", "drifted", "reconciling"}]

ASSUME BoundsAssumption ==
    /\ MaxVersion \in Nat \ {0}
    /\ MaxRequests \in Nat
    /\ MaxFaults \in Nat
    /\ BatchLimit \in Nat

ASSUME TopologyAssumption ==
    /\ ProcOf \in [Workers -> Procs]
    /\ Rank \in [Instances -> Nat]
    /\ Faults \subseteq {"read", "write", "render", "timeout", "teardown", "catalog",
                         "meter", "tamper", "crash"}

ASSUME NilAssumption == Nil \notin ServiceInstance

Binding == [inst : Instances, version : Versions]

Artifact == [inst : Instances, version : Versions, params : Params]

AuditActions == {"instance.provisioned", "instance.provision_failed",
                 "instance.updated", "instance.reconciled",
                 "instance.torn_down", "instance.teardown_failed", "instance.teardown_skipped",
                 "instance.deprovisioned", "binding.created", "binding.deleted"}

AuditEvent == [action : AuditActions, inst : Instances, version : Versions]

\* A worker's local state: the coroutine's program counter and locals.
Task ==
    [pc    : {"idle", "put", "render", "evidence", "teardown", "delete",
              "next", "diff", "bind", "unbind"},
     kind  : {"none", "provision", "update", "reconcile", "deprovision",
              "bind", "unbind"},
     inst  : Instances \cup {Nil},
     rec   : ServiceInstance \cup {Nil},
     bid   : Bindings \cup {Nil},
     res   : {"none", "ok", "fail", "unknown", "in_sync", "drifted"},
     fresh : BOOLEAN,
     queue : SUBSET (Instances \X ServiceInstance)]

Idle == [pc |-> "idle", kind |-> "none", inst |-> Nil, rec |-> Nil, bid |-> Nil,
         res |-> "none", fresh |-> FALSE, queue |-> {}]

ArtifactOf(i, r) == [inst |-> i, version |-> r.version, params |-> r.params]

begin_operation(r, type) ==
    [r EXCEPT !.op = "in progress", !.optype = type, !.drift = "reconciling"]

\* The control plane answers with the version it was sent.
mark_operation_succeeded(r) ==
    [r EXCEPT !.applied = r.version, !.op = "succeeded", !.drift = "in_sync"]

mark_operation_failed(r) == [r EXCEPT !.op = "failed", !.drift = "drifted"]

new_instance(p) ==
    begin_operation([params |-> p, version |-> 1, applied |-> 0,
                     status |-> "provisioning", op |-> "in progress",
                     optype |-> "provision", drift |-> "reconciling"], "provision")

needs_reconcile(r) ==
    \/ r.status \in {"provisioning", "failed"}
    \/ r.drift \in {"drifted", "reconciling"}
    \/ r.applied # r.version

-----------------------------------------------------------------------------
(* Scheduling and the environment's faults.                                 *)

\* The points at which a coroutine has given the event loop back; bind and
\* unbind are plain functions, run by a thread beside the loop.
Yielded == {"idle", "render", "diff", "bind", "unbind"}

CanRun(w) == \A u \in Workers \ {w} : ProcOf[u] = ProcOf[w] => task[u].pc \in Yielded

Fault(kind) == kind \in Faults /\ faults < MaxFaults /\ faults' = faults + 1

NoFault == UNCHANGED faults

put_instance(i, r) == db' = [db EXCEPT ![i] = r]

\* A write to the table goes through, or raises ClientError and changes nothing.
Written(i, r) == put_instance(i, r) /\ NoFault

WriteRaised == Fault("write") /\ UNCHANGED db

Goto(w, t) == task' = [task EXCEPT ![w] = t]

\* Where a worker goes when it is through with one instance: the reconciler to
\* the next one of its pass, a request handler to its response.
Through(w) ==
    IF task[w].kind = "reconcile"
    THEN [task[w] EXCEPT !.pc = "next", !.inst = Nil, !.rec = Nil, !.res = "none"]
    ELSE Idle

emit(action, w) ==
    audit' = audit \cup {[action |-> action, inst |-> task[w].inst,
                          version |-> task[w].rec.version]}

NewRequest(w) ==
    /\ w \in Clients
    /\ task[w].pc = "idle"
    /\ requests < MaxRequests
    /\ requests' = requests + 1

-----------------------------------------------------------------------------
(* Request handlers, up to their first write.  The gates (RBAC, quota,      *)
(* policy, obligations) turn a request away before it changes any of this   *)
(* state; a request that is turned away, or that finds nothing to act on,   *)
(* is a stuttering step here.                                               *)

\* Mutant: the existence check is dropped.
ProvisionUnchecked(w, i, p) ==
    /\ NewRequest(w) /\ CanRun(w) /\ NoFault
    /\ Goto(w, [Idle EXCEPT !.pc = "put", !.kind = "provision", !.inst = i,
                            !.rec = new_instance(p)])
    /\ UNCHANGED <<db, bindings, bucket, late, applied, usage, audit>>

\* get_instance answers None when DynamoDB raises, so provision then takes an
\* existing instance for a new one.
Provision(w, i, p) ==
    /\ NewRequest(w) /\ CanRun(w)
    /\ \/ db[i] = Nil /\ NoFault
       \/ Fault("read")
    /\ Goto(w, [Idle EXCEPT !.pc = "put", !.kind = "provision", !.inst = i,
                            !.rec = new_instance(p)])
    /\ UNCHANGED <<db, bindings, bucket, late, applied, usage, audit>>

\* Mutant: an update keeps the version.
UpdateInPlace(w, i, p) ==
    /\ NewRequest(w) /\ CanRun(w)
    /\ db[i] # Nil
    /\ Goto(w, [Idle EXCEPT !.pc = "put", !.kind = "update", !.inst = i,
                            !.rec = begin_operation([db[i] EXCEPT !.params = p], "update")])
    /\ UNCHANGED <<db, bindings, bucket, late, applied, usage, audit, faults>>

Update(w, i, p) ==
    /\ NewRequest(w) /\ CanRun(w)
    /\ db[i] # Nil
    /\ db[i].version < MaxVersion
    /\ Goto(w, [Idle EXCEPT !.pc = "put", !.kind = "update", !.inst = i,
                            !.rec = begin_operation([db[i] EXCEPT !.params = p,
                                                                  !.version = @ + 1], "update")])
    /\ UNCHANGED <<db, bindings, bucket, late, applied, usage, audit, faults>>

Deprovision(w, i) ==
    /\ NewRequest(w) /\ CanRun(w)
    /\ db[i] # Nil
    /\ Goto(w, [Idle EXCEPT !.pc = "teardown", !.kind = "deprovision", !.inst = i,
                            !.rec = db[i]])
    /\ UNCHANGED <<db, bindings, bucket, late, applied, usage, audit, faults>>

Bind(w, i, b) ==
    /\ NewRequest(w)
    /\ db[i] # Nil
    /\ Goto(w, [Idle EXCEPT !.pc = "bind", !.kind = "bind", !.inst = i,
                            !.rec = db[i], !.bid = b])
    /\ UNCHANGED <<db, bindings, bucket, late, applied, usage, audit, faults>>

Unbind(w, i, b) ==
    /\ NewRequest(w)
    /\ db[i] # Nil
    /\ Goto(w, [Idle EXCEPT !.pc = "unbind", !.kind = "unbind", !.inst = i,
                            !.rec = db[i], !.bid = b])
    /\ UNCHANGED <<db, bindings, bucket, late, applied, usage, audit, faults>>

-----------------------------------------------------------------------------
(* The first write of an operation, and the call to the control plane.      *)

\* provision answers 503 and update 500 when the write raises; the reconciler
\* logs it and renders all the same.  A provision with accepts_incomplete
\* answers 202 here and goes on in the background.
PersistDesired(w) ==
    /\ task[w].pc = "put" /\ CanRun(w)
    /\ \/ /\ Written(task[w].inst, task[w].rec)
          /\ Goto(w, [task[w] EXCEPT !.pc = "render"])
       \/ /\ WriteRaised
          /\ Goto(w, IF task[w].kind = "reconcile"
                     THEN [task[w] EXCEPT !.pc = "render"] ELSE Idle)
    /\ UNCHANGED <<bindings, bucket, late, applied, usage, audit, requests>>

\* POST /render: the manifest is applied (the Envoy renderer puts the artifact
\* under its version's key) and the version comes back; or a step fails before
\* or after the artifact is in place and the caller gets an error.
Apply(a) ==
    /\ bucket' = [bucket EXCEPT ![a.inst][a.version] = a.params]
    /\ applied' = applied \cup {a}

\* Mutant: the configuration is rendered but never applied.
ControlPlaneRenderOnly(w) ==
    /\ task[w].pc = "render" /\ task[w].res = "none"
    /\ Goto(w, [task[w] EXCEPT !.res = "ok"])
    /\ UNCHANGED <<db, bindings, bucket, late, applied, usage, audit, requests, faults>>

ControlPlaneRender(w) ==
    /\ task[w].pc = "render" /\ task[w].res = "none"
    /\ \/ /\ Apply(ArtifactOf(task[w].inst, task[w].rec)) /\ NoFault
          /\ Goto(w, [task[w] EXCEPT !.res = "ok"])
       \/ /\ Fault("render")
          /\ \/ Apply(ArtifactOf(task[w].inst, task[w].rec))
             \/ UNCHANGED <<bucket, applied>>
          /\ Goto(w, [task[w] EXCEPT !.res = "fail"])
    /\ UNCHANGED <<db, bindings, late, usage, audit, requests>>

\* The broker gives up after its 10 s timeout; the control plane still holds
\* the request.
RenderTimeout(w) ==
    /\ task[w].pc = "render" /\ task[w].res = "none"
    /\ Fault("timeout")
    /\ late' = late \cup {ArtifactOf(task[w].inst, task[w].rec)}
    /\ Goto(w, [task[w] EXCEPT !.res = "fail"])
    /\ UNCHANGED <<db, bindings, bucket, applied, usage, audit, requests>>

LateRender(a) ==
    /\ a \in late
    /\ late' = late \ {a}
    /\ Apply(a) \/ UNCHANGED <<bucket, applied>>
    /\ UNCHANGED <<db, bindings, task, usage, audit, requests, faults>>

-----------------------------------------------------------------------------
(* The continuation of an operation after its render call.                  *)

\* Mutant: the outcome of the render is not looked at.
finished_unchecked(r, res) == mark_operation_succeeded([r EXCEPT !.status = "succeeded"])

finished(r, res) ==
    IF res = "ok" THEN mark_operation_succeeded([r EXCEPT !.status = "succeeded"])
                  ELSE mark_operation_failed([r EXCEPT !.status = "failed"])

\* Mutant: a failed operation ends without its audit event.
FinishUnaudited(w) ==
    /\ task[w].pc = "render" /\ task[w].res \in {"ok", "fail"} /\ CanRun(w)
    /\ LET r == finished(task[w].rec, task[w].res)
       IN /\ Written(task[w].inst, r)
          /\ Goto(w, IF task[w].res = "ok"
                     THEN [task[w] EXCEPT !.pc = "evidence", !.rec = r] ELSE Through(w))
    /\ UNCHANGED <<bindings, bucket, late, applied, usage, audit, requests>>

\* _finalize_provision swallows an error of the failed-state write and still
\* audits; it turns an error of the succeeded-state write into a 503.  update
\* lets both out, and emits nothing when its render failed.
Finish(w) ==
    /\ task[w].pc = "render" /\ task[w].res \in {"ok", "fail"} /\ CanRun(w)
    /\ LET r == finished(task[w].rec, task[w].res)
           audited == task[w].kind # "update" \/ task[w].res = "ok"
           evidence == [task[w] EXCEPT !.pc = "evidence", !.rec = r]
       IN \/ /\ Written(task[w].inst, r)
             /\ Goto(w, IF audited THEN evidence ELSE Idle)
          \/ /\ WriteRaised
             /\ Goto(w, IF task[w].kind # "update" /\ task[w].res = "fail"
                        THEN evidence ELSE Through(w))
    /\ UNCHANGED <<bindings, bucket, late, applied, usage, audit, requests>>

audit_action(kind, res) ==
    CASE kind = "deprovision" -> "instance.deprovisioned"
      [] kind = "update" -> "instance.updated"
      [] kind \in {"provision", "reconcile"} /\ res = "fail" -> "instance.provision_failed"
      [] kind = "provision" /\ res # "fail" -> "instance.provisioned"
      [] kind = "reconcile" /\ res # "fail" -> "instance.reconciled"

\* Mutant: failed operations are metered too.
EmitEvidenceAlways(w) ==
    /\ task[w].pc = "evidence" /\ CanRun(w) /\ NoFault
    /\ usage' = [usage EXCEPT ![task[w].inst] = @ + 1]
    /\ emit(audit_action(task[w].kind, task[w].res), w)
    /\ Goto(w, Through(w))
    /\ UNCHANGED <<db, bindings, bucket, late, applied, requests>>

\* Metering (a successful provision only, and best effort), then the audit
\* event.  _emit_usage looks the pack up in the catalog first; when that read
\* raises, the request ends without either.
EmitEvidence(w) ==
    /\ task[w].pc = "evidence" /\ CanRun(w)
    /\ LET metered == task[w].kind = "provision" /\ task[w].res = "ok"
       IN \/ /\ \/ metered /\ usage' = [usage EXCEPT ![task[w].inst] = @ + 1] /\ NoFault
                \/ metered /\ UNCHANGED usage /\ Fault("meter")
                \/ ~metered /\ UNCHANGED usage /\ NoFault
             /\ emit(audit_action(task[w].kind, task[w].res), w)
             /\ Goto(w, Through(w))
          \/ /\ metered /\ Fault("catalog") /\ UNCHANGED <<usage, audit>>
             /\ Goto(w, Idle)
    /\ UNCHANGED <<db, bindings, bucket, late, applied, requests>>

-----------------------------------------------------------------------------
(* The rest of deprovision, bind and unbind.                                *)

\* Mutant: only the artifact of the current version is removed.
TeardownCurrent(w) ==
    /\ task[w].pc = "teardown" /\ CanRun(w) /\ NoFault
    /\ bucket' = [bucket EXCEPT ![task[w].inst][task[w].rec.version] = Nil]
    /\ emit("instance.torn_down", w)
    /\ Goto(w, [task[w] EXCEPT !.pc = "delete"])
    /\ UNCHANGED <<db, bindings, late, applied, usage, requests>>

\* Best effort: the artifacts of every version go, or some of them stay; all of
\* them where the broker knows no renderer for the service.
Teardown(w) ==
    /\ task[w].pc = "teardown" /\ CanRun(w)
    /\ \E kept \in SUBSET Versions :
          /\ \/ kept = {} /\ NoFault /\ emit("instance.torn_down", w)
             \/ kept # {} /\ Fault("teardown") /\ emit("instance.teardown_failed", w)
             \/ kept = Versions /\ Fault("teardown") /\ emit("instance.teardown_skipped", w)
          /\ bucket' = [bucket EXCEPT ![task[w].inst] =
                            [v \in Versions |-> IF v \in kept THEN @[v] ELSE Nil]]
    /\ Goto(w, [task[w] EXCEPT !.pc = "delete"])
    /\ UNCHANGED <<db, bindings, late, applied, usage, requests>>

DeleteInstance(w) ==
    /\ task[w].pc = "delete" /\ CanRun(w)
    /\ \/ Written(task[w].inst, Nil) /\ Goto(w, [task[w] EXCEPT !.pc = "evidence"])
       \/ WriteRaised /\ Goto(w, Idle)
    /\ UNCHANGED <<bindings, bucket, late, applied, usage, audit, requests>>

PutBinding(w) ==
    /\ task[w].pc = "bind"
    /\ \/ /\ bindings' = [bindings EXCEPT ![task[w].bid] =
                             [inst |-> task[w].inst, version |-> task[w].rec.version]]
          /\ emit("binding.created", w) /\ NoFault
       \/ Fault("write") /\ UNCHANGED <<bindings, audit>>
    /\ Goto(w, Idle)
    /\ UNCHANGED <<db, bucket, late, applied, usage, requests>>

DeleteBinding(w) ==
    /\ task[w].pc = "unbind"
    /\ \/ /\ bindings' = [bindings EXCEPT ![task[w].bid] = Nil]
          /\ emit("binding.deleted", w) /\ NoFault
       \/ Fault("write") /\ UNCHANGED <<bindings, audit>>
    /\ Goto(w, Idle)
    /\ UNCHANGED <<db, bucket, late, applied, usage, requests>>

-----------------------------------------------------------------------------
(* Reconciliation: the periodic pass and POST /v2/reconcile.                *)

\* Mutant: the pass lists only what already succeeded.
list_succeeded ==
    {<<i, db[i]>> : i \in {j \in Instances : db[j] # Nil /\ db[j].status = "succeeded"}}

\* One page of the table: the first BatchLimit instances of the scan.
list_instances ==
    {<<i, db[i]>> : i \in {j \in Instances :
        /\ db[j] # Nil
        /\ Cardinality({k \in Instances : db[k] # Nil /\ Rank[k] < Rank[j]}) < BatchLimit}}

\* The loop wakes up and takes its snapshot of the instances (refresh_drift on).
StartPass(w) ==
    /\ w \in Reconcilers
    /\ task[w].pc = "idle" /\ CanRun(w)
    /\ list_instances # {}
    /\ Goto(w, [Idle EXCEPT !.pc = "next", !.kind = "reconcile", !.fresh = TRUE,
                            !.queue = list_instances])
    /\ UNCHANGED <<db, bindings, bucket, late, applied, usage, audit, requests, faults>>

\* An operator asks for one instance, or for a page of them (refresh_drift off).
ReconcileRequest(w) ==
    /\ NewRequest(w) /\ CanRun(w)
    /\ \E queue \in {list_instances} \cup {{<<i, db[i]>>} : i \in {j \in Instances : db[j] # Nil}} :
          /\ queue # {}
          /\ Goto(w, [Idle EXCEPT !.pc = "next", !.kind = "reconcile", !.queue = queue])
    /\ UNCHANGED <<db, bindings, bucket, late, applied, usage, audit, faults>>

\* What a pass does with the copy r of instance i it decides about.
Decide(t, i, r) ==
    IF needs_reconcile(r)
    THEN [t EXCEPT !.pc = "put", !.inst = i, !.rec = begin_operation(r, "reconcile"),
                   !.res = "none"]
    ELSE [t EXCEPT !.pc = "next", !.inst = Nil, !.rec = Nil, !.res = "none"]

NextOfPass(w) ==
    /\ task[w].pc = "next" /\ CanRun(w)
    /\ \/ task[w].queue = {} /\ Goto(w, Idle)
       \/ \E e \in task[w].queue :
            LET t == [task[w] EXCEPT !.queue = @ \ {e}]
            IN Goto(w, IF t.fresh /\ e[2].status = "succeeded"
                       THEN [t EXCEPT !.pc = "diff", !.inst = e[1], !.rec = e[2]]
                       ELSE Decide(t, e[1], e[2]))
    /\ UNCHANGED <<db, bindings, bucket, late, applied, usage, audit, requests, faults>>

\* POST /diff: a comparison with what is in place, or no answer to rely on.
ControlPlaneDiff(w) ==
    /\ task[w].pc = "diff" /\ task[w].res = "none"
    /\ LET r == task[w].rec
           same == bucket[task[w].inst][r.version] = r.params
       IN \E res \in {"unknown", IF same THEN "in_sync" ELSE "drifted"} :
             Goto(w, [task[w] EXCEPT !.res = res])
    /\ UNCHANGED <<db, bindings, bucket, late, applied, usage, audit, requests, faults>>

\* _refresh_drift writes back the copy the pass holds, then the pass decides.
RefreshDrift(w) ==
    /\ task[w].pc = "diff" /\ task[w].res # "none" /\ CanRun(w)
    /\ LET r == IF task[w].res = "unknown" THEN task[w].rec
                ELSE [task[w].rec EXCEPT !.drift = task[w].res]
       IN /\ IF task[w].res = "unknown" THEN UNCHANGED db /\ NoFault
             ELSE Written(task[w].inst, r) \/ WriteRaised
          /\ Goto(w, Decide(task[w], task[w].inst, r))
    /\ UNCHANGED <<bindings, bucket, late, applied, usage, audit, requests>>

-----------------------------------------------------------------------------
(* The environment.                                                         *)

\* Somebody removes or changes an artifact out of band.
Tamper(i, v) ==
    /\ Fault("tamper")
    /\ bucket[i][v] # Nil
    /\ bucket' = [bucket EXCEPT ![i][v] = Nil]
    /\ UNCHANGED <<db, bindings, task, late, applied, usage, audit, requests>>

\* A broker process dies and is restarted: its coroutines are gone, the render
\* requests it was waiting for are still with the control plane.
Crash(p) ==
    /\ Fault("crash")
    /\ \E w \in Workers : ProcOf[w] = p /\ task[w].pc # "idle"
    /\ late' = late \cup {ArtifactOf(task[w].inst, task[w].rec) :
                            w \in {u \in Workers : /\ ProcOf[u] = p
                                                   /\ task[u].pc = "render"
                                                   /\ task[u].res = "none"}}
    /\ task' = [w \in Workers |-> IF ProcOf[w] = p THEN Idle ELSE task[w]]
    /\ UNCHANGED <<db, bindings, bucket, applied, usage, audit, requests>>

-----------------------------------------------------------------------------
Init ==
    /\ db = [i \in Instances |-> Nil]
    /\ bindings = [b \in Bindings |-> Nil]
    /\ bucket = [i \in Instances |-> [v \in Versions |-> Nil]]
    /\ task = [w \in Workers |-> Idle]
    /\ late = {} /\ applied = {} /\ audit = {}
    /\ usage = [i \in Instances |-> 0]
    /\ requests = 0 /\ faults = 0

\* What a worker does when it has the event loop (or its thread).
Run(w) ==
    \/ PersistDesired(w) \/ Finish(w) \/ EmitEvidence(w)
    \/ Teardown(w) \/ DeleteInstance(w)
    \/ PutBinding(w) \/ DeleteBinding(w)
    \/ StartPass(w) \/ NextOfPass(w) \/ RefreshDrift(w)

Request(w) ==
    \/ \E i \in Instances :
          \/ \E p \in Params : Provision(w, i, p) \/ Update(w, i, p)
          \/ Deprovision(w, i)
          \/ \E b \in Bindings : Bind(w, i, b) \/ Unbind(w, i, b)
    \/ ReconcileRequest(w)

ControlPlane(w) == ControlPlaneRender(w) \/ ControlPlaneDiff(w)

Next ==
    \/ \E w \in Workers : Request(w) \/ Run(w) \/ ControlPlane(w) \/ RenderTimeout(w)
    \/ \E a \in late : LateRender(a)
    \/ \E i \in Instances, v \in Versions : Tamper(i, v)
    \/ \E p \in Procs : Crash(p)

Spec == Init /\ [][Next]_vars

\* The event loop's ready queue is first in, first out, so a coroutine that is
\* ready again and again gets its turn (SF); the control plane answers (WF).
Fairness ==
    \A w \in Workers : SF_vars(Run(w)) /\ WF_vars(ControlPlane(w))

FairSpec == Spec /\ Fairness

-----------------------------------------------------------------------------
(* Properties.                                                              *)

\* The variables keep the shape of the tables, the requests and the coroutines.
TypeOK ==
    /\ db \in [Instances -> ServiceInstance \cup {Nil}]
    /\ bindings \in [Bindings -> Binding \cup {Nil}]
    /\ bucket \in [Instances -> [Versions -> Params \cup {Nil}]]
    /\ task \in [Workers -> Task]
    /\ late \in SUBSET Artifact
    /\ applied \in SUBSET Artifact
    /\ usage \in [Instances -> Nat]
    /\ audit \in SUBSET AuditEvent
    /\ requests \in 0..MaxRequests
    /\ faults \in 0..MaxFaults

\* last_operation never tells a client "succeeded" for desired state the control
\* plane has not applied, whatever races, faults and restarts came before.
SucceededIsApplied ==
    \A i \in Instances :
        db[i] # Nil /\ db[i].op = "succeeded" =>
            /\ db[i].status = "succeeded"
            /\ db[i].applied = db[i].version
            /\ ArtifactOf(i, db[i]) \in applied

\* An instance that _needs_reconcile tells the reconciler to skip has been
\* applied at its desired version with its desired parameters.
SkippedIsApplied ==
    \A i \in Instances :
        db[i] # Nil /\ ~needs_reconcile(db[i]) => ArtifactOf(i, db[i]) \in applied

\* A failed provision or reconcile that the store shows has an audit event, or a
\* worker that is about to emit it.
FailureAudited ==
    \A i \in Instances :
        db[i] # Nil /\ db[i].op = "failed" /\ db[i].optype # "update" =>
            \/ [action |-> "instance.provision_failed", inst |-> i,
                version |-> db[i].version] \in audit
            \/ \E w \in Workers : /\ task[w].pc = "evidence" /\ task[w].inst = i
                                  /\ task[w].kind # "update" /\ task[w].res = "fail"
                                  /\ task[w].rec.version = db[i].version

\* The same for every operation, updates included.
EveryFailureAudited ==
    \A i \in Instances :
        db[i] # Nil /\ db[i].op = "failed" =>
            \/ \E e \in audit : e.inst = i /\ e.version = db[i].version
            \/ \E w \in Workers : task[w].pc = "evidence" /\ task[w].inst = i

\* A provision that is about to write its new record finds none in its place:
\* a repeated provision never overwrites an instance.
ProvisionIsIdempotent ==
    \A w \in Workers :
        task[w].pc = "put" /\ task[w].kind = "provision" => db[task[w].inst] = Nil

\* While an instance exists its desired version never goes back: no accepted
\* update is undone by an older copy of the record.
VersionNeverGoesBack ==
    [][\A i \in Instances :
          db[i] # Nil /\ db'[i] # Nil => db'[i].version >= db[i].version]_vars

\* A record appears in the table only because a provision creates it: nothing
\* brings a deprovisioned instance back.
OnlyProvisionCreates ==
    [][\A i \in Instances :
          db[i] = Nil /\ db'[i] # Nil =>
             \E w \in Workers : /\ task[w].pc = "put" /\ task[w].kind = "provision"
                                /\ task[w].inst = i]_vars

\* The artifact of a version is never replaced by another.
ArtifactsImmutable ==
    [][\A i \in Instances, v \in Versions :
          bucket[i][v] # Nil /\ bucket'[i][v] # Nil => bucket'[i][v] = bucket[i][v]]_vars

\* When nothing is in flight, an instance that is gone has left no artifact.
NoOrphanArtifacts ==
    (\A w \in Workers : task[w].pc = "idle") =>
        \A i \in Instances : db[i] = Nil => \A v \in Versions : bucket[i][v] = Nil

\* An instance that reached succeeded, and on which nobody works, was metered.
SucceededIsMetered ==
    \A i \in Instances :
        db[i] # Nil /\ db[i].status = "succeeded" =>
            usage[i] > 0 \/ \E w \in Workers : task[w].inst = i

\* A usage record is written only for something the control plane applied.
MeteredIsApplied ==
    \A i \in Instances : usage[i] > 0 => \E a \in applied : a.inst = i

\* Once faults and requests stop, the reconciler brings every instance to
\* desired state and keeps it there.
Converges ==
    <>[](\A i \in Instances : db[i] # Nil => ~needs_reconcile(db[i]))

\* An operation a client polls with last_operation reaches a terminal state.
OperationsEnd ==
    \A i \in Instances :
        (db[i] # Nil /\ db[i].op = "in progress")
            ~> (db[i] = Nil \/ db[i].op # "in progress")
=============================================================================
