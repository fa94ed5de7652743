---------------------------- MODULE BrokerProofs ----------------------------
(***************************************************************************)
(* Proofs about Broker, for any instances, parameters, processes, workers, *)
(* faults and bounds.                                                      *)
(***************************************************************************)
EXTENDS Broker, TLAPS

\* Where a worker holds an instance and its copy of the record.
Holding == {"put", "render", "evidence", "teardown", "delete", "diff", "bind", "unbind"}

\* What a copy of a record never loses, A being the artifacts applied so far:
\* the applied version is not ahead of the desired one, a record whose applied
\* version is the desired one stands for an artifact of A, "succeeded" is only
\* said of such a record, and an operation fails together with its record.
Sound(A, i, r) ==
    /\ r.applied =< r.version
    /\ r.applied = r.version => ArtifactOf(i, r) \in A
    /\ r.op = "succeeded" => r.status = "succeeded" /\ r.applied = r.version
    /\ r.op = "failed" => r.status = "failed"

StoreSound == \A i \in Instances : db[i] # Nil => Sound(applied, i, db[i])

TaskSound(A, t) ==
    /\ t.pc \in Holding =>
          t.inst \in Instances /\ t.rec \in ServiceInstance /\ Sound(A, t.inst, t.rec)
    /\ t.pc \in {"bind", "unbind"} => t.bid \in Bindings
    /\ t.pc \in {"put", "next"} \/ t.kind = "deprovision" => t.res = "none"
    /\ t.pc = "put" => t.rec.op = "in progress"
    /\ t.pc = "diff" => t.rec.status = "succeeded"
    /\ t.pc \in {"put", "render"} /\ t.kind = "update" => t.rec.optype = "update"
    /\ t.pc \in {"put", "render"} => t.kind \in {"provision", "update", "reconcile"}
    /\ t.pc = "evidence" => t.kind \in {"provision", "update", "reconcile", "deprovision"}
    /\ t.pc \in {"teardown", "delete"} => t.kind = "deprovision"
    /\ t.pc \in {"next", "diff"} => t.kind = "reconcile"
    /\ t.pc \in {"render", "evidence"} /\ t.res = "ok" => ArtifactOf(t.inst, t.rec) \in A
    /\ t.pc = "diff" => t.res \in {"none", "unknown", "in_sync", "drifted"}
    /\ \A e \in t.queue : Sound(A, e[1], e[2])
    /\ t.kind # "reconcile" => t.queue = {}

TasksSound == \A w \in Workers : TaskSound(applied, task[w])

AppliedInv == TypeOK /\ StoreSound /\ TasksSound

\* A sound copy stays sound while the control plane applies more.
LEMMA SoundGrows ==
    ASSUME NEW A, NEW B, A \subseteq B, NEW i, NEW r, Sound(A, i, r)
    PROVE  Sound(B, i, r)
  BY Zenon DEF Sound

\* So does a worker's local state.
LEMMA TaskGrows ==
    ASSUME NEW A, NEW B, A \subseteq B, NEW t, TaskSound(A, t)
    PROVE  TaskSound(B, t)
  BY SoundGrows, Zenon DEF TaskSound

\* An idle worker holds nothing.
LEMMA IdleSound == Idle \in Task /\ \A A : TaskSound(A, Idle)
  BY Zenon DEF Idle, Task, TaskSound, Holding

\* When one worker moves to a sound local state, all workers are sound.
LEMMA WorkerMoves ==
    ASSUME TypeOK, TasksSound, applied \subseteq applied',
           NEW w \in Workers, NEW t \in Task, TaskSound(applied', t), Goto(w, t)
    PROVE  task' \in [Workers -> Task] /\ TasksSound'
  <1>1. task' \in [Workers -> Task]
    BY Zenon DEF TypeOK, Goto
  <1>2. ASSUME NEW u \in Workers PROVE TaskSound(applied', task'[u])
    <2>1. CASE u = w
      BY <2>1, Zenon DEF Goto, TypeOK
    <2>2. CASE u # w
      BY <2>2, TaskGrows, Zenon DEF Goto, TypeOK, TasksSound
    <2> QED BY <2>1, <2>2, Zenon
  <1> QED BY <1>1, <1>2, Zenon DEF TasksSound

\* The table stays sound when nothing, a sound record or Nil is written to it.
LEMMA StoreWrites ==
    ASSUME TypeOK, StoreSound, applied \subseteq applied',
           NEW i \in Instances, NEW r \in ServiceInstance \cup {Nil},
           r # Nil => Sound(applied', i, r),
           put_instance(i, r) \/ UNCHANGED db
    PROVE  db' \in [Instances -> ServiceInstance \cup {Nil}] /\ StoreSound'
  <1>1. db' \in [Instances -> ServiceInstance \cup {Nil}]
    BY Zenon DEF TypeOK, put_instance
  <1>2. ASSUME NEW j \in Instances, db'[j] # Nil PROVE Sound(applied', j, db'[j])
    <2>1. CASE db'[j] = db[j]
      BY <1>2, <2>1, SoundGrows, Zenon DEF StoreSound
    <2>2. CASE db'[j] # db[j]
      BY <1>2, <2>2, Zenon DEF put_instance, TypeOK
    <2> QED BY <2>1, <2>2, Zenon
  <1> QED BY <1>1, <1>2, Zenon DEF StoreSound

\* The initial tables are empty and every worker is idle.
LEMMA InitApplied == Init => AppliedInv
  <1> SUFFICES ASSUME Init PROVE AppliedInv
    BY Zenon
  <1>1. TypeOK
    BY IdleSound, BoundsAssumption DEF Init, TypeOK
  <1>2. StoreSound
    BY Zenon DEF Init, StoreSound
  <1>3. TasksSound
    BY IdleSound, Zenon DEF Init, TasksSound
  <1> QED
    BY <1>1, <1>2, <1>3, Zenon DEF AppliedInv

-----------------------------------------------------------------------------
(* One lemma per action (or family of actions): it preserves AppliedInv.     *)

\* The version fields are numbers within the bound.
LEMMA RecordVersions ==
    ASSUME NEW r \in ServiceInstance
    PROVE  /\ r.version \in Versions /\ r.version \in 0..MaxVersion
           /\ r.applied \in Nat /\ r.version \in Nat
  <1>1. r.version \in Versions /\ r.applied \in 0..MaxVersion
    BY Zenon DEF ServiceInstance
  <1> QED BY <1>1, BoundsAssumption DEF Versions

\* The records the handlers build are sound.
LEMMA BeginSound ==
    ASSUME NEW r \in ServiceInstance, NEW i, NEW A,
           r.applied =< r.version, r.applied = r.version => ArtifactOf(i, r) \in A,
           NEW type \in {"provision", "update", "reconcile"}
    PROVE  LET b == begin_operation(r, type)
           IN /\ b \in ServiceInstance /\ Sound(A, i, b)
              /\ b.op = "in progress" /\ b.optype = type
              /\ b.version = r.version /\ b.params = r.params
  <1> DEFINE b == begin_operation(r, type)
  <1>1. /\ b \in ServiceInstance /\ b.op = "in progress" /\ b.optype = type
        /\ b.version = r.version /\ b.params = r.params /\ b.applied = r.applied
    BY Zenon DEF begin_operation, ServiceInstance
  <1> HIDE DEF b
  <1>2. Sound(A, i, b)
    BY <1>1, Zenon DEF Sound, ArtifactOf
  <1> QED BY <1>1, <1>2, Zenon DEF b

\* The record a provision creates claims nothing.
LEMMA NewSound ==
    ASSUME NEW p \in Params, NEW i, NEW A
    PROVE  /\ new_instance(p) \in ServiceInstance /\ Sound(A, i, new_instance(p))
           /\ new_instance(p).op = "in progress"
  <1> DEFINE r == [params |-> p, version |-> 1, applied |-> 0,
                   status |-> "provisioning", op |-> "in progress",
                   optype |-> "provision", drift |-> "reconciling"]
  <1>1. 1 \in Versions /\ 0 \in 0..MaxVersion
    BY BoundsAssumption DEF Versions
  <1>2. r \in ServiceInstance
    BY <1>1, Zenon DEF ServiceInstance
  <1>3. r.applied =< r.version /\ r.applied # r.version
    OBVIOUS
  <1>4. new_instance(p) = begin_operation(r, "provision")
    BY Zenon DEF new_instance
  <1> HIDE DEF r
  <1>5. LET b == begin_operation(r, "provision")
        IN b \in ServiceInstance /\ Sound(A, i, b) /\ b.op = "in progress"
    BY <1>2, <1>3, BeginSound, Zenon
  <1> QED BY <1>4, <1>5, Zenon

\* The record an update writes claims nothing of its new version.
LEMMA UpdateSound ==
    ASSUME NEW r \in ServiceInstance, NEW p \in Params, NEW i, NEW A, Sound(A, i, r),
           r.version < MaxVersion
    PROVE  LET u == begin_operation([r EXCEPT !.params = p, !.version = @ + 1], "update")
           IN /\ u \in ServiceInstance /\ Sound(A, i, u)
              /\ u.op = "in progress" /\ u.optype = "update"
              /\ u.version = r.version + 1
  <1> DEFINE q == [r EXCEPT !.params = p, !.version = @ + 1]
  <1>1. r.version \in Versions /\ r.applied \in Nat /\ r.applied =< r.version
    BY RecordVersions, Zenon DEF Sound
  <1>2. r.version + 1 \in Versions
    BY <1>1, BoundsAssumption DEF Versions
  <1>3. q \in ServiceInstance
    BY <1>2, Zenon DEF ServiceInstance
  <1>4. q.version = r.version + 1 /\ q.applied = r.applied
    BY Zenon DEF ServiceInstance
  <1>5. q.applied =< q.version /\ q.applied # q.version
    BY <1>1, <1>4, BoundsAssumption DEF Versions
  <1> HIDE DEF q
  <1> QED BY <1>3, <1>4, <1>5, BeginSound, Zenon DEF q

\* A record is marked succeeded only for what the control plane applied.
LEMMA FinishedSound ==
    ASSUME NEW r \in ServiceInstance, NEW i, NEW A, Sound(A, i, r), NEW res,
           res = "ok" => ArtifactOf(i, r) \in A
    PROVE  /\ finished(r, res) \in ServiceInstance /\ Sound(A, i, finished(r, res))
           /\ ArtifactOf(i, finished(r, res)) = ArtifactOf(i, r)
           /\ finished(r, res).optype = r.optype
           /\ finished(r, res).op = IF res = "ok" THEN "succeeded" ELSE "failed"
  <1>1. r.version \in Versions /\ r.version \in 0..MaxVersion
    BY RecordVersions, Zenon
  <1>2. CASE res = "ok"
    <2> DEFINE q == [r EXCEPT !.status = "succeeded"]
    <2>1. /\ q \in ServiceInstance /\ q.status = "succeeded"
          /\ q.version = r.version /\ q.params = r.params /\ q.optype = r.optype
      BY Zenon DEF ServiceInstance
    <2>2. finished(r, res) = [q EXCEPT !.applied = q.version, !.op = "succeeded",
                                       !.drift = "in_sync"]
      BY <1>2, Zenon DEF finished, mark_operation_succeeded
    <2> HIDE DEF q
    <2>3. finished(r, res) \in ServiceInstance
      BY <1>1, <2>1, <2>2, ZenonT(30) DEF ServiceInstance
    <2>4. LET f == finished(r, res)
          IN /\ f.applied = r.version /\ f.version = r.version
             /\ f.params = r.params /\ f.status = "succeeded"
             /\ f.op = "succeeded" /\ f.optype = r.optype
      BY <2>1, <2>2, ZenonT(30) DEF ServiceInstance
    <2>5. r.version =< r.version
      BY RecordVersions
    <2> QED BY <1>2, <2>3, <2>4, <2>5, Zenon DEF Sound, ArtifactOf
  <1>3. CASE res # "ok"
    <2> DEFINE q == [r EXCEPT !.status = "failed"]
    <2>1. /\ q \in ServiceInstance /\ q.status = "failed" /\ q.optype = r.optype
          /\ q.version = r.version /\ q.params = r.params /\ q.applied = r.applied
      BY Zenon DEF ServiceInstance
    <2>2. finished(r, res) = [q EXCEPT !.op = "failed", !.drift = "drifted"]
      BY <1>3, Zenon DEF finished, mark_operation_failed
    <2> HIDE DEF q
    <2>3. finished(r, res) \in ServiceInstance
      BY <2>1, <2>2, Zenon DEF ServiceInstance
    <2>4. LET f == finished(r, res)
          IN /\ f.applied = r.applied /\ f.version = r.version /\ f.params = r.params
             /\ f.status = "failed" /\ f.op = "failed" /\ f.optype = r.optype
      BY <2>1, <2>2, ZenonT(30) DEF ServiceInstance
    <2> QED BY <1>3, <2>3, <2>4, Zenon DEF Sound, ArtifactOf
  <1> QED BY <1>2, <1>3, Zenon

\* The two budgets are respected.
LEMMA FaultCounted ==
    ASSUME TypeOK, NoFault \/ \E kind \in Faults : Fault(kind)
    PROVE  faults' \in 0..MaxFaults
  BY BoundsAssumption DEF TypeOK, NoFault, Fault

\* A request is one of the bounded number.
LEMMA RequestCounted ==
    ASSUME TypeOK, NEW w, NewRequest(w)
    PROVE  requests' \in 0..MaxRequests
  BY BoundsAssumption DEF TypeOK, NewRequest

\* The requests: a handler reads the table and takes a copy.
LEMMA RequestApplied ==
    ASSUME AppliedInv, NEW w \in Workers, NEW i \in Instances,
           \/ \E p \in Params : Provision(w, i, p) \/ Update(w, i, p)
           \/ Deprovision(w, i)
           \/ \E b \in Bindings : Bind(w, i, b) \/ Unbind(w, i, b)
    PROVE  AppliedInv'
  <1> USE DEF AppliedInv
  <1>1. /\ UNCHANGED <<db, bindings, bucket, late, applied, usage, audit>>
        /\ requests' \in 0..MaxRequests
        /\ faults' \in 0..MaxFaults
    <2>1. /\ UNCHANGED <<db, bindings, bucket, late, applied, usage, audit>>
          /\ NewRequest(w)
          /\ NoFault \/ \E kind \in Faults : Fault(kind)
      BY Zenon DEF Provision, Update, Deprovision, Bind, Unbind, NoFault, Fault
    <2> QED BY <2>1, FaultCounted, RequestCounted, Zenon
  <1>2. PICK t \in Task : Goto(w, t) /\ TaskSound(applied, t)
    <2>1. ASSUME NEW p \in Params, Provision(w, i, p)
          PROVE  \E t \in Task : Goto(w, t) /\ TaskSound(applied, t)
      <3> DEFINE t == [Idle EXCEPT !.pc = "put", !.kind = "provision", !.inst = i,
                                   !.rec = new_instance(p)]
      <3>1. t \in Task /\ TaskSound(applied, t)
        BY NewSound, Zenon DEF Idle, Task, TaskSound, Holding
      <3> QED BY <2>1, <3>1, Zenon DEF Provision
    <2>2. ASSUME NEW p \in Params, Update(w, i, p)
          PROVE  \E t \in Task : Goto(w, t) /\ TaskSound(applied, t)
      <3> DEFINE r == begin_operation([db[i] EXCEPT !.params = p, !.version = @ + 1], "update")
                 t == [Idle EXCEPT !.pc = "put", !.kind = "update", !.inst = i, !.rec = r]
      <3>1. db[i] \in ServiceInstance /\ Sound(applied, i, db[i]) /\ db[i].version < MaxVersion
        BY <2>2, Zenon DEF Update, TypeOK, StoreSound
      <3>2. /\ r \in ServiceInstance /\ Sound(applied, i, r)
            /\ r.op = "in progress" /\ r.optype = "update"
        BY <3>1, UpdateSound, Zenon
      <3> HIDE DEF r
      <3>3. t \in Task /\ TaskSound(applied, t)
        BY <3>2, Zenon DEF Idle, Task, TaskSound, Holding
      <3> QED BY <2>2, <3>3, Zenon DEF Update, r
    <2>3. ASSUME Deprovision(w, i)
          PROVE  \E t \in Task : Goto(w, t) /\ TaskSound(applied, t)
      <3> DEFINE t == [Idle EXCEPT !.pc = "teardown", !.kind = "deprovision", !.inst = i,
                                   !.rec = db[i]]
      <3>1. t \in Task /\ TaskSound(applied, t)
        BY <2>3, ZenonT(30) DEF Deprovision, TypeOK, StoreSound, Idle, Task, TaskSound, Holding
      <3> QED BY <2>3, <3>1, Zenon DEF Deprovision
    <2>4. ASSUME NEW b \in Bindings, Bind(w, i, b)
          PROVE  \E t \in Task : Goto(w, t) /\ TaskSound(applied, t)
      <3> DEFINE t == [Idle EXCEPT !.pc = "bind", !.kind = "bind", !.inst = i,
                                   !.rec = db[i], !.bid = b]
      <3>1. t \in Task /\ TaskSound(applied, t)
        BY <2>4, Zenon DEF Bind, TypeOK, StoreSound, Idle, Task, TaskSound, Holding
      <3> QED BY <2>4, <3>1, Zenon DEF Bind
    <2>5. ASSUME NEW b \in Bindings, Unbind(w, i, b)
          PROVE  \E t \in Task : Goto(w, t) /\ TaskSound(applied, t)
      <3> DEFINE t == [Idle EXCEPT !.pc = "unbind", !.kind = "unbind", !.inst = i,
                                   !.rec = db[i], !.bid = b]
      <3>1. t \in Task /\ TaskSound(applied, t)
        BY <2>5, ZenonT(30) DEF Unbind, TypeOK, StoreSound, Idle, Task, TaskSound, Holding
      <3> QED BY <2>5, <3>1, Zenon DEF Unbind
    <2> QED BY <2>1, <2>2, <2>3, <2>4, <2>5, Zenon
  <1>3. task' \in [Workers -> Task] /\ TasksSound'
    BY <1>1, <1>2, WorkerMoves, Zenon
  <1>4. StoreSound'
    BY <1>1, Zenon DEF StoreSound
  <1> QED BY <1>1, <1>3, <1>4, Zenon DEF TypeOK

\* A worker that is through with its instance holds nothing but its queue.
LEMMA ThroughSound ==
    ASSUME NEW w \in Workers, NEW A, task[w] \in Task, TaskSound(A, task[w])
    PROVE  Through(w) \in Task /\ TaskSound(A, Through(w))
  <1>1. CASE task[w].kind = "reconcile"
    <2> DEFINE t == [task[w] EXCEPT !.pc = "next", !.inst = Nil, !.rec = Nil, !.res = "none"]
    <2>1. /\ t \in Task /\ t.pc = "next" /\ t.kind = "reconcile" /\ t.res = "none"
          /\ t.queue = task[w].queue
      BY <1>1, Zenon DEF Task
    <2> HIDE DEF t
    <2>2. TaskSound(A, t)
      BY <2>1, Zenon DEF TaskSound, Holding
    <2> QED BY <1>1, <2>1, <2>2, Zenon DEF Through, t
  <1>2. CASE task[w].kind # "reconcile"
    BY <1>2, IdleSound, Zenon DEF Through
  <1> QED BY <1>1, <1>2, Zenon

\* An event about an instance a worker holds is well formed.
LEMMA EmitTyped ==
    ASSUME TypeOK, TasksSound, NEW w \in Workers, task[w].pc \in Holding,
           NEW action \in AuditActions, emit(action, w)
    PROVE  audit' \in SUBSET AuditEvent
  <1>1. task[w].inst \in Instances /\ task[w].rec.version \in Versions
    BY RecordVersions, Zenon DEF TasksSound, TaskSound
  <1> QED BY <1>1 DEF emit, TypeOK, AuditEvent

\* Applying an artifact keeps the bucket typed and only adds to the history.
LEMMA ApplyTyped ==
    ASSUME TypeOK, NEW a \in Artifact, Apply(a) \/ UNCHANGED <<bucket, applied>>
    PROVE  /\ bucket' \in [Instances -> [Versions -> Params \cup {Nil}]]
           /\ applied' \in SUBSET Artifact /\ applied \subseteq applied'
           /\ Apply(a) => a \in applied'
  <1>1. a.inst \in Instances /\ a.version \in Versions /\ a.params \in Params
    BY Zenon DEF Artifact
  <1>2. CASE Apply(a)
    <2>1. bucket' = [bucket EXCEPT ![a.inst] = [bucket[a.inst] EXCEPT ![a.version] = a.params]]
      BY <1>2, Zenon DEF Apply
    <2>2. [bucket[a.inst] EXCEPT ![a.version] = a.params] \in [Versions -> Params \cup {Nil}]
      BY <1>1, Zenon DEF TypeOK
    <2>3. bucket' \in [Instances -> [Versions -> Params \cup {Nil}]]
      BY <1>1, <2>1, <2>2, Zenon DEF TypeOK
    <2> QED BY <1>2, <2>3, Zenon DEF Apply, TypeOK
  <1>3. CASE UNCHANGED <<bucket, applied>> /\ ~Apply(a)
    BY <1>3, Zenon DEF TypeOK
  <1> QED BY <1>2, <1>3, Zenon

\* What a worker asks the control plane to render is well formed.
LEMMA HeldArtifact ==
    ASSUME TasksSound, NEW w \in Workers, task[w].pc \in Holding
    PROVE  ArtifactOf(task[w].inst, task[w].rec) \in Artifact
  <1>1. task[w].inst \in Instances /\ task[w].rec \in ServiceInstance
    BY Zenon DEF TasksSound, TaskSound
  <1> QED BY <1>1, Zenon DEF ArtifactOf, Artifact, ServiceInstance

\* The first write of an operation.
LEMMA PersistDesiredApplied ==
    ASSUME AppliedInv, NEW w \in Workers, PersistDesired(w)
    PROVE  AppliedInv'
  <1> USE DEF AppliedInv
  <1> DEFINE t == [task[w] EXCEPT !.pc = "render"]
  <1>1. task[w] \in Task /\ TaskSound(applied, task[w]) /\ task[w].pc = "put"
    BY Zenon DEF PersistDesired, TypeOK, TasksSound
  <1>2. t \in Task /\ TaskSound(applied, t)
    BY <1>1, ZenonT(30) DEF Task, TaskSound, Holding
  <1>3. task[w].inst \in Instances /\ task[w].rec \in ServiceInstance
        /\ Sound(applied, task[w].inst, task[w].rec)
    BY <1>1, Zenon DEF TaskSound, Holding
  <1>4. /\ UNCHANGED <<bindings, bucket, late, applied, usage, audit, requests>>
        /\ put_instance(task[w].inst, task[w].rec) \/ UNCHANGED db
        /\ NoFault \/ \E kind \in Faults : Fault(kind)
        /\ Goto(w, t) \/ Goto(w, Idle)
    BY Zenon DEF PersistDesired, Written, WriteRaised, Fault
  <1>5. task' \in [Workers -> Task] /\ TasksSound'
    BY <1>2, <1>4, IdleSound, WorkerMoves, Zenon
  <1>6. db' \in [Instances -> ServiceInstance \cup {Nil}] /\ StoreSound'
    BY <1>3, <1>4, StoreWrites, Zenon
  <1>7. faults' \in 0..MaxFaults
    BY <1>4, FaultCounted, Zenon
  <1> QED BY <1>4, <1>5, <1>6, <1>7, Zenon DEF TypeOK

\* The answer of /render.
LEMMA ControlPlaneRenderApplied ==
    ASSUME AppliedInv, NEW w \in Workers, ControlPlaneRender(w)
    PROVE  AppliedInv'
  <1> USE DEF AppliedInv
  <1> DEFINE a == ArtifactOf(task[w].inst, task[w].rec)
             t(res) == [task[w] EXCEPT !.res = res]
  <1>1. task[w] \in Task /\ TaskSound(applied, task[w]) /\ task[w].pc = "render"
    BY Zenon DEF ControlPlaneRender, TypeOK, TasksSound
  <1>2. a \in Artifact
    BY <1>1, HeldArtifact, Zenon DEF Holding
  <1>3. /\ UNCHANGED <<db, bindings, late, usage, audit, requests>>
        /\ Apply(a) \/ UNCHANGED <<bucket, applied>>
        /\ NoFault \/ \E kind \in Faults : Fault(kind)
        /\ (Apply(a) /\ Goto(w, t("ok"))) \/ Goto(w, t("fail"))
    BY Zenon DEF ControlPlaneRender, Fault
  <1>4. /\ bucket' \in [Instances -> [Versions -> Params \cup {Nil}]]
        /\ applied' \in SUBSET Artifact /\ applied \subseteq applied'
        /\ Apply(a) => a \in applied'
    BY <1>2, <1>3, ApplyTyped, Zenon
  <1>5. TaskSound(applied', task[w])
    BY <1>1, <1>4, TaskGrows, Zenon
  <1>6. t("ok") \in Task /\ (Apply(a) => TaskSound(applied', t("ok")))
    BY <1>1, <1>4, <1>5, ZenonT(30) DEF Task, TaskSound, Holding
  <1>7. t("fail") \in Task /\ TaskSound(applied', t("fail"))
    BY <1>1, <1>5, ZenonT(30) DEF Task, TaskSound, Holding
  <1> HIDE DEF a, t
  <1>8. task' \in [Workers -> Task] /\ TasksSound'
    BY <1>3, <1>4, <1>6, <1>7, WorkerMoves, Zenon
  <1>9. StoreSound'
    BY <1>3, <1>4, SoundGrows, Zenon DEF StoreSound
  <1>10. faults' \in 0..MaxFaults
    BY <1>3, FaultCounted, Zenon
  <1> QED BY <1>3, <1>4, <1>8, <1>9, <1>10, Zenon DEF TypeOK

\* The caller of /render gives up.
LEMMA RenderTimeoutApplied ==
    ASSUME AppliedInv, NEW w \in Workers, RenderTimeout(w)
    PROVE  AppliedInv'
  <1> USE DEF AppliedInv
  <1> DEFINE t == [task[w] EXCEPT !.res = "fail"]
  <1>1. task[w] \in Task /\ TaskSound(applied, task[w]) /\ task[w].pc = "render"
    BY Zenon DEF RenderTimeout, TypeOK, TasksSound
  <1>2. ArtifactOf(task[w].inst, task[w].rec) \in Artifact
    BY <1>1, HeldArtifact, Zenon DEF Holding
  <1>3. t \in Task /\ TaskSound(applied, t)
    BY <1>1, ZenonT(30) DEF Task, TaskSound, Holding
  <1>4. /\ UNCHANGED <<db, bindings, bucket, applied, usage, audit, requests>>
        /\ NoFault \/ \E kind \in Faults : Fault(kind)
        /\ Goto(w, t)
        /\ late' = late \cup {ArtifactOf(task[w].inst, task[w].rec)}
    BY Zenon DEF RenderTimeout, Fault
  <1> HIDE DEF t
  <1>5. task' \in [Workers -> Task] /\ TasksSound'
    BY <1>3, <1>4, WorkerMoves, Zenon
  <1>6. StoreSound'
    BY <1>4, Zenon DEF StoreSound
  <1>7. faults' \in 0..MaxFaults
    BY <1>4, FaultCounted, Zenon
  <1> QED BY <1>2, <1>4, <1>5, <1>6, <1>7, Zenon DEF TypeOK

\* The control plane carries out a request nobody waits for.
LEMMA LateRenderApplied ==
    ASSUME AppliedInv, NEW a \in late, LateRender(a)
    PROVE  AppliedInv'
  <1> USE DEF AppliedInv
  <1>1. a \in Artifact /\ late' \in SUBSET Artifact
    BY Zenon DEF LateRender, TypeOK
  <1>2. /\ UNCHANGED <<db, bindings, task, usage, audit, requests, faults>>
        /\ Apply(a) \/ UNCHANGED <<bucket, applied>>
    BY Zenon DEF LateRender
  <1>3. /\ bucket' \in [Instances -> [Versions -> Params \cup {Nil}]]
        /\ applied' \in SUBSET Artifact /\ applied \subseteq applied'
    BY <1>1, <1>2, ApplyTyped, Zenon
  <1>4. StoreSound'
    BY <1>2, <1>3, SoundGrows, Zenon DEF StoreSound
  <1>5. TasksSound'
    BY <1>2, <1>3, TaskGrows, Zenon DEF TasksSound
  <1> QED BY <1>1, <1>2, <1>3, <1>4, <1>5, Zenon DEF TypeOK

\* The write after the render.
LEMMA FinishApplied ==
    ASSUME AppliedInv, NEW w \in Workers, Finish(w)
    PROVE  AppliedInv'
  <1> USE DEF AppliedInv
  <1> DEFINE r == finished(task[w].rec, task[w].res)
             t == [task[w] EXCEPT !.pc = "evidence", !.rec = r]
  <1>1. /\ task[w] \in Task /\ TaskSound(applied, task[w])
        /\ task[w].pc = "render" /\ task[w].res \in {"ok", "fail"}
    BY Zenon DEF Finish, TypeOK, TasksSound
  <1>2. /\ task[w].inst \in Instances /\ r \in ServiceInstance /\ Sound(applied, task[w].inst, r)
        /\ task[w].res = "ok" => ArtifactOf(task[w].inst, r) \in applied
    BY <1>1, FinishedSound DEF TaskSound, Holding
  <1>3. /\ UNCHANGED <<bindings, bucket, late, applied, usage, audit, requests>>
        /\ put_instance(task[w].inst, r) \/ UNCHANGED db
        /\ NoFault \/ \E kind \in Faults : Fault(kind)
        /\ Goto(w, t) \/ Goto(w, Idle) \/ Goto(w, Through(w))
    BY Zenon DEF Finish, Written, WriteRaised, Fault
  <1> HIDE DEF r
  <1>4. t \in Task /\ TaskSound(applied, t)
    <2>1. /\ t \in Task /\ t.pc = "evidence" /\ t.rec = r /\ t.inst = task[w].inst
          /\ t.kind = task[w].kind /\ t.res = task[w].res /\ t.queue = task[w].queue
      BY <1>1, <1>2, Zenon DEF Task
    <2>2. /\ task[w].kind \in {"provision", "update", "reconcile"}
          /\ \A e \in task[w].queue : Sound(applied, e[1], e[2])
          /\ task[w].kind # "reconcile" => task[w].queue = {}
      BY <1>1, Zenon DEF TaskSound
    <2> HIDE DEF t
    <2> QED BY <1>2, <2>1, <2>2, Zenon DEF TaskSound, Holding
  <1> HIDE DEF t
  <1>5. Through(w) \in Task /\ TaskSound(applied, Through(w))
    BY <1>1, ThroughSound, Zenon
  <1>6. task' \in [Workers -> Task] /\ TasksSound'
    BY <1>3, <1>4, <1>5, IdleSound, WorkerMoves, Zenon
  <1>7. db' \in [Instances -> ServiceInstance \cup {Nil}] /\ StoreSound'
    BY <1>2, <1>3, StoreWrites, Zenon
  <1>8. faults' \in 0..MaxFaults
    BY <1>3, FaultCounted, Zenon
  <1> QED BY <1>3, <1>6, <1>7, <1>8, Zenon DEF TypeOK

\* Usage record and audit event.
LEMMA EmitEvidenceApplied ==
    ASSUME AppliedInv, NEW w \in Workers, EmitEvidence(w)
    PROVE  AppliedInv'
  <1> USE DEF AppliedInv
  <1> DEFINE action == audit_action(task[w].kind, task[w].res)
  <1>1. task[w] \in Task /\ TaskSound(applied, task[w]) /\ task[w].pc = "evidence"
    BY Zenon DEF EmitEvidence, TypeOK, TasksSound
  <1>2. /\ UNCHANGED <<db, bindings, bucket, late, applied, requests>>
        /\ NoFault \/ \E kind \in Faults : Fault(kind)
        /\ emit(action, w) \/ UNCHANGED audit
        /\ Goto(w, Through(w)) \/ Goto(w, Idle)
        /\ usage' = [usage EXCEPT ![task[w].inst] = @ + 1] \/ UNCHANGED usage
    BY Zenon DEF EmitEvidence, Fault
  <1>3. task[w].kind \in {"provision", "update", "reconcile", "deprovision"}
    BY <1>1, Zenon DEF TaskSound
  <1>4. action \in AuditActions
    BY <1>3, Zenon DEF audit_action, AuditActions
  <1> HIDE DEF action
  <1>5. audit' \in SUBSET AuditEvent
    <2>1. CASE emit(action, w)
      BY <1>1, <1>4, <2>1, EmitTyped, Zenon DEF Holding
    <2>2. CASE UNCHANGED audit
      BY <2>2, Zenon DEF TypeOK
    <2> QED BY <1>2, <2>1, <2>2, Zenon
  <1>6. task' \in [Workers -> Task] /\ TasksSound'
    <2>1. CASE Goto(w, Through(w))
      BY <1>1, <1>2, <2>1, ThroughSound, WorkerMoves, Zenon
    <2>2. CASE Goto(w, Idle)
      BY <1>2, <2>2, IdleSound, WorkerMoves, Zenon
    <2> QED BY <1>2, <2>1, <2>2, Zenon
  <1>7. usage' \in [Instances -> Nat]
    BY <1>2 DEF TypeOK
  <1>8. StoreSound'
    BY <1>2, Zenon DEF StoreSound
  <1>9. faults' \in 0..MaxFaults
    BY <1>2, FaultCounted, Zenon
  <1> QED BY <1>2, <1>5, <1>6, <1>7, <1>8, <1>9, Zenon DEF TypeOK

\* Artifacts are removed; what was applied stays in the history.
LEMMA TeardownApplied ==
    ASSUME AppliedInv, NEW w \in Workers, Teardown(w)
    PROVE  AppliedInv'
  <1> USE DEF AppliedInv
  <1> DEFINE t == [task[w] EXCEPT !.pc = "delete"]
  <1>1. task[w] \in Task /\ TaskSound(applied, task[w]) /\ task[w].pc = "teardown"
    BY Zenon DEF Teardown, TypeOK, TasksSound
  <1>2. t \in Task /\ TaskSound(applied, t)
    BY <1>1 DEF Task, TaskSound, Holding
  <1>3. PICK kept \in SUBSET Versions :
          /\ bucket' = [bucket EXCEPT ![task[w].inst] =
                           [v \in Versions |-> IF v \in kept THEN bucket[task[w].inst][v] ELSE Nil]]
          /\ NoFault \/ \E kind \in Faults : Fault(kind)
          /\ \E action \in AuditActions : emit(action, w)
    BY Zenon DEF Teardown, Fault, AuditActions
  <1>4. /\ UNCHANGED <<db, bindings, late, applied, usage, requests>>
        /\ Goto(w, t)
    BY Zenon DEF Teardown
  <1> HIDE DEF t
  <1>5. task[w].inst \in Instances
    BY <1>1, Zenon DEF TaskSound, Holding
  <1>6. [v \in Versions |-> IF v \in kept THEN bucket[task[w].inst][v] ELSE Nil]
           \in [Versions -> Params \cup {Nil}]
    BY <1>5 DEF TypeOK
  <1>7. bucket' \in [Instances -> [Versions -> Params \cup {Nil}]]
    BY <1>3, <1>6, Zenon DEF TypeOK
  <1>8. audit' \in SUBSET AuditEvent
    BY <1>1, <1>3, EmitTyped, Zenon DEF Holding
  <1>9. task' \in [Workers -> Task] /\ TasksSound'
    BY <1>2, <1>4, WorkerMoves, Zenon
  <1>10. StoreSound'
    BY <1>4, Zenon DEF StoreSound
  <1>11. faults' \in 0..MaxFaults
    BY <1>3, FaultCounted, Zenon
  <1> QED BY <1>4, <1>7, <1>8, <1>9, <1>10, <1>11, Zenon DEF TypeOK

\* The record of a deprovisioned instance goes.
LEMMA DeleteInstanceApplied ==
    ASSUME AppliedInv, NEW w \in Workers, DeleteInstance(w)
    PROVE  AppliedInv'
  <1> USE DEF AppliedInv
  <1> DEFINE t == [task[w] EXCEPT !.pc = "evidence"]
  <1>1. task[w] \in Task /\ TaskSound(applied, task[w]) /\ task[w].pc = "delete"
    BY Zenon DEF DeleteInstance, TypeOK, TasksSound
  <1>2. t \in Task /\ TaskSound(applied, t)
    BY <1>1 DEF Task, TaskSound, Holding
  <1>3. /\ UNCHANGED <<bindings, bucket, late, applied, usage, audit, requests>>
        /\ put_instance(task[w].inst, Nil) \/ UNCHANGED db
        /\ NoFault \/ \E kind \in Faults : Fault(kind)
        /\ Goto(w, t) \/ Goto(w, Idle)
    BY Zenon DEF DeleteInstance, Written, WriteRaised, Fault
  <1> HIDE DEF t
  <1>4. task[w].inst \in Instances
    BY <1>1, Zenon DEF TaskSound, Holding
  <1>5. task' \in [Workers -> Task] /\ TasksSound'
    BY <1>2, <1>3, IdleSound, WorkerMoves, Zenon
  <1>6. db' \in [Instances -> ServiceInstance \cup {Nil}] /\ StoreSound'
    BY <1>3, <1>4, StoreWrites, Zenon
  <1>7. faults' \in 0..MaxFaults
    BY <1>3, FaultCounted, Zenon
  <1> QED BY <1>3, <1>5, <1>6, <1>7, Zenon DEF TypeOK

\* bind and unbind write their own table.
LEMMA BindingApplied ==
    ASSUME AppliedInv, NEW w \in Workers, PutBinding(w) \/ DeleteBinding(w)
    PROVE  AppliedInv'
  <1> USE DEF AppliedInv
  <1>1. TaskSound(applied, task[w]) /\ task[w].pc \in {"bind", "unbind"}
    BY Zenon DEF PutBinding, DeleteBinding, TasksSound
  <1>2. /\ task[w].bid \in Bindings /\ task[w].inst \in Instances
        /\ task[w].rec.version \in Versions
    BY <1>1, RecordVersions, Zenon DEF TaskSound, Holding
  <1>3. /\ UNCHANGED <<db, bucket, late, applied, usage, requests>>
        /\ NoFault \/ \E kind \in Faults : Fault(kind)
        /\ emit("binding.created", w) \/ emit("binding.deleted", w) \/ UNCHANGED audit
        /\ Goto(w, Idle)
        /\ \/ bindings' = [bindings EXCEPT ![task[w].bid] =
                             [inst |-> task[w].inst, version |-> task[w].rec.version]]
           \/ bindings' = [bindings EXCEPT ![task[w].bid] = Nil]
           \/ UNCHANGED bindings
    BY Zenon DEF PutBinding, DeleteBinding, Fault
  <1>4. bindings' \in [Bindings -> Binding \cup {Nil}]
    BY <1>2, <1>3 DEF TypeOK, Binding
  <1>5. audit' \in SUBSET AuditEvent
    BY <1>1, <1>3, EmitTyped, Zenon DEF Holding, AuditActions, TypeOK
  <1>6. task' \in [Workers -> Task] /\ TasksSound'
    BY <1>3, IdleSound, WorkerMoves, Zenon
  <1>7. StoreSound'
    BY <1>3, Zenon DEF StoreSound
  <1>8. faults' \in 0..MaxFaults
    BY <1>3, FaultCounted, Zenon
  <1> QED BY <1>3, <1>4, <1>5, <1>6, <1>7, <1>8, Zenon DEF TypeOK

\* The pass: its queue holds copies of records, its decisions are about copies.
LEMMA SnapshotSound ==
    ASSUME TypeOK, StoreSound, NEW i \in Instances, db[i] # Nil
    PROVE  <<i, db[i]>> \in Instances \X ServiceInstance /\ Sound(applied, i, db[i])
  BY Zenon DEF TypeOK, StoreSound

\* What a pass decides about a sound copy is sound.
LEMMA DecideSound ==
    ASSUME NEW A, NEW t \in Task, t.kind = "reconcile",
           \A e \in t.queue : Sound(A, e[1], e[2]),
           NEW i \in Instances, NEW r \in ServiceInstance, Sound(A, i, r)
    PROVE  Decide(t, i, r) \in Task /\ TaskSound(A, Decide(t, i, r))
  <1>1. CASE needs_reconcile(r)
    <2> DEFINE b == begin_operation(r, "reconcile")
               d == [t EXCEPT !.pc = "put", !.inst = i, !.rec = b, !.res = "none"]
    <2>1. b \in ServiceInstance /\ Sound(A, i, b) /\ b.op = "in progress"
      BY BeginSound, ZenonT(30) DEF Sound
    <2> HIDE DEF b
    <2>2. /\ d \in Task /\ d.pc = "put" /\ d.kind = "reconcile" /\ d.inst = i
          /\ d.rec = b /\ d.res = "none" /\ d.queue = t.queue
      BY <2>1, ZenonT(30) DEF Task
    <2> HIDE DEF d
    <2>3. TaskSound(A, d)
      BY <2>1, <2>2, Zenon DEF TaskSound, Holding
    <2> QED BY <1>1, <2>2, <2>3, Zenon DEF Decide, b, d
  <1>2. CASE ~needs_reconcile(r)
    <2> DEFINE d == [t EXCEPT !.pc = "next", !.inst = Nil, !.rec = Nil, !.res = "none"]
    <2>1. /\ d \in Task /\ d.pc = "next" /\ d.kind = "reconcile" /\ d.res = "none"
          /\ d.queue = t.queue
      BY ZenonT(30) DEF Task
    <2> HIDE DEF d
    <2>2. TaskSound(A, d)
      BY <2>1, Zenon DEF TaskSound, Holding
    <2> QED BY <1>2, <2>1, <2>2, Zenon DEF Decide, d
  <1> QED BY <1>1, <1>2, Zenon

\* A pass over copies of stored records is sound when it starts.
LEMMA PassSound ==
    ASSUME TypeOK, StoreSound,
           NEW q, \A e \in q : \E i \in Instances : db[i] # Nil /\ e = <<i, db[i]>>,
           NEW t, \/ t = [Idle EXCEPT !.pc = "next", !.kind = "reconcile", !.queue = q]
                  \/ t = [Idle EXCEPT !.pc = "next", !.kind = "reconcile",
                                      !.fresh = TRUE, !.queue = q]
    PROVE  t \in Task /\ TaskSound(applied, t)
  <1>1. ASSUME NEW e \in q
        PROVE  e \in Instances \X ServiceInstance /\ Sound(applied, e[1], e[2])
    <2>1. PICK i \in Instances : db[i] # Nil /\ e = <<i, db[i]>>
      BY Zenon
    <2> QED BY <2>1, SnapshotSound, Zenon
  <1>2. /\ t \in Task /\ t.pc = "next" /\ t.kind = "reconcile"
        /\ t.res = "none" /\ t.queue = q
    BY <1>1, ZenonT(30) DEF Idle, Task
  <1> QED BY <1>1, <1>2, Zenon DEF TaskSound, Holding

\* A pass begins, by timer or by request.
LEMMA StartPassApplied ==
    ASSUME AppliedInv, NEW w \in Workers, StartPass(w) \/ ReconcileRequest(w)
    PROVE  AppliedInv'
  <1> USE DEF AppliedInv
  <1>1. /\ UNCHANGED <<db, bindings, bucket, late, applied, usage, audit, faults>>
        /\ NewRequest(w) \/ UNCHANGED requests
    BY Zenon DEF StartPass, ReconcileRequest
  <1>2. \E t \in Task : TaskSound(applied, t) /\ Goto(w, t)
    <2>1. \A e \in list_instances : \E i \in Instances : db[i] # Nil /\ e = <<i, db[i]>>
      BY Zenon DEF list_instances
    <2>2. CASE StartPass(w)
      <3> DEFINE t == [Idle EXCEPT !.pc = "next", !.kind = "reconcile", !.fresh = TRUE,
                                   !.queue = list_instances]
      <3>1. Goto(w, t)
        BY <2>2, Zenon DEF StartPass
      <3>2. t \in Task /\ TaskSound(applied, t)
        BY <2>1, PassSound, Zenon
      <3> QED BY <3>1, <3>2, Zenon
    <2>3. CASE ReconcileRequest(w)
      <3> DEFINE t(q) == [Idle EXCEPT !.pc = "next", !.kind = "reconcile", !.queue = q]
      <3>1. PICK q \in {list_instances} \cup
                       {{<<i, db[i]>>} : i \in {j \in Instances : db[j] # Nil}} :
              Goto(w, t(q))
        BY <2>3, Zenon DEF ReconcileRequest
      <3>2. \A e \in q : \E i \in Instances : db[i] # Nil /\ e = <<i, db[i]>>
        BY <2>1, Zenon
      <3>3. t(q) \in Task /\ TaskSound(applied, t(q))
        BY <3>2, PassSound, Zenon
      <3> QED BY <3>1, <3>3, Zenon
    <2> QED BY <2>2, <2>3, Zenon
  <1>3. task' \in [Workers -> Task] /\ TasksSound'
    BY <1>1, <1>2, WorkerMoves, Zenon
  <1>4. StoreSound'
    BY <1>1, Zenon DEF StoreSound
  <1>5. requests' \in 0..MaxRequests
    BY <1>1, RequestCounted, Zenon DEF TypeOK
  <1> QED BY <1>1, <1>3, <1>4, <1>5, Zenon DEF TypeOK

\* A pass takes up its next instance.
LEMMA NextOfPassApplied ==
    ASSUME AppliedInv, NEW w \in Workers, NextOfPass(w)
    PROVE  AppliedInv'
  <1> USE DEF AppliedInv
  <1>1. /\ task[w] \in Task /\ TaskSound(applied, task[w])
        /\ task[w].pc = "next" /\ task[w].kind = "reconcile"
    BY Zenon DEF NextOfPass, TypeOK, TasksSound, TaskSound
  <1>2. UNCHANGED <<db, bindings, bucket, late, applied, usage, audit, requests, faults>>
    BY Zenon DEF NextOfPass
  <1>3. \E t \in Task : TaskSound(applied, t) /\ Goto(w, t)
    <2>1. CASE Goto(w, Idle)
      BY <2>1, IdleSound, Zenon
    <2>2. CASE ~Goto(w, Idle)
      <3> DEFINE t(e) == [task[w] EXCEPT !.queue = @ \ {e}]
                 d(e) == [t(e) EXCEPT !.pc = "diff", !.inst = e[1], !.rec = e[2]]
      <3>1. PICK e \in task[w].queue :
              Goto(w, IF t(e).fresh /\ e[2].status = "succeeded"
                      THEN d(e) ELSE Decide(t(e), e[1], e[2]))
        BY <2>2, Zenon DEF NextOfPass
      <3>2. e[1] \in Instances /\ e[2] \in ServiceInstance /\ Sound(applied, e[1], e[2])
        BY <1>1, Zenon DEF Task, TaskSound
      <3>3. /\ t(e) \in Task /\ t(e).kind = "reconcile" /\ t(e).pc = "next"
            /\ t(e).queue \subseteq task[w].queue
        BY <1>1, ZenonT(30) DEF Task
      <3>4. \A x \in t(e).queue : Sound(applied, x[1], x[2])
        BY <1>1, <3>3, Zenon DEF TaskSound
      <3>5. Decide(t(e), e[1], e[2]) \in Task /\ TaskSound(applied, Decide(t(e), e[1], e[2]))
        BY <3>2, <3>3, <3>4, DecideSound, Zenon
      <3>6. t(e).res = "none"
        BY <1>1, Zenon DEF Task, TaskSound
      <3> HIDE DEF t
      <3>7. /\ d(e) \in Task /\ d(e).pc = "diff" /\ d(e).kind = "reconcile"
            /\ d(e).inst = e[1] /\ d(e).rec = e[2] /\ d(e).res = "none"
            /\ d(e).queue = t(e).queue
        BY <3>2, <3>3, <3>6, Zenon DEF Task
      <3> HIDE DEF d
      <3>8. e[2].status = "succeeded" => TaskSound(applied, d(e))
        BY <3>2, <3>4, <3>7, Zenon DEF TaskSound, Holding
      <3> QED BY <3>1, <3>5, <3>7, <3>8, Zenon
    <2> QED BY <2>1, <2>2, Zenon
  <1>4. task' \in [Workers -> Task] /\ TasksSound'
    BY <1>2, <1>3, WorkerMoves, Zenon
  <1>5. StoreSound'
    BY <1>2, Zenon DEF StoreSound
  <1> QED BY <1>2, <1>4, <1>5, Zenon DEF TypeOK

\* The answer of /diff.
LEMMA ControlPlaneDiffApplied ==
    ASSUME AppliedInv, NEW w \in Workers, ControlPlaneDiff(w)
    PROVE  AppliedInv'
  <1> USE DEF AppliedInv
  <1>1. task[w] \in Task /\ TaskSound(applied, task[w]) /\ task[w].pc = "diff"
    BY Zenon DEF ControlPlaneDiff, TypeOK, TasksSound
  <1>2. UNCHANGED <<db, bindings, bucket, late, applied, usage, audit, requests, faults>>
    BY Zenon DEF ControlPlaneDiff
  <1>3. PICK res \in {"unknown", "in_sync", "drifted"} :
          Goto(w, [task[w] EXCEPT !.res = res])
    BY Zenon DEF ControlPlaneDiff
  <1> DEFINE t == [task[w] EXCEPT !.res = res]
  <1>4. t \in Task /\ TaskSound(applied, t)
    BY <1>1, ZenonT(30) DEF Task, TaskSound, Holding
  <1>5. task' \in [Workers -> Task] /\ TasksSound'
    BY <1>2, <1>3, <1>4, WorkerMoves, Zenon
  <1>6. StoreSound'
    BY <1>2, Zenon DEF StoreSound
  <1> QED BY <1>2, <1>5, <1>6, Zenon DEF TypeOK

\* The pass writes its copy back with the drift status.
LEMMA RefreshDriftApplied ==
    ASSUME AppliedInv, NEW w \in Workers, RefreshDrift(w)
    PROVE  AppliedInv'
  <1> USE DEF AppliedInv
  <1> DEFINE r == IF task[w].res = "unknown" THEN task[w].rec
                  ELSE [task[w].rec EXCEPT !.drift = task[w].res]
             i == task[w].inst
  <1>1. /\ task[w] \in Task /\ TaskSound(applied, task[w]) /\ task[w].pc = "diff"
        /\ task[w].res # "none"
    BY Zenon DEF RefreshDrift, TypeOK, TasksSound
  <1>2. /\ task[w].kind = "reconcile" /\ i \in Instances
        /\ task[w].rec \in ServiceInstance /\ Sound(applied, i, task[w].rec)
        /\ task[w].res \in {"unknown", "in_sync", "drifted"}
        /\ \A e \in task[w].queue : Sound(applied, e[1], e[2])
    BY <1>1, Zenon DEF TaskSound, Holding
  <1>3. r \in ServiceInstance /\ Sound(applied, i, r)
    <2>1. CASE task[w].res = "unknown"
      BY <1>2, <2>1, Zenon
    <2>2. CASE task[w].res \in {"in_sync", "drifted"}
      <3> DEFINE q == [task[w].rec EXCEPT !.drift = task[w].res]
      <3>1. /\ q \in ServiceInstance /\ q.version = task[w].rec.version
            /\ q.params = task[w].rec.params /\ q.applied = task[w].rec.applied
            /\ q.op = task[w].rec.op /\ q.status = task[w].rec.status
        BY <1>2, <2>2, Zenon DEF ServiceInstance
      <3>2. r = q
        BY <2>2, Zenon
      <3> HIDE DEF q, r
      <3> QED BY <1>2, <3>1, <3>2, Zenon DEF Sound, ArtifactOf
    <2> QED BY <1>2, <2>1, <2>2, Zenon
  <1>4. /\ UNCHANGED <<bindings, bucket, late, applied, usage, audit, requests>>
        /\ put_instance(i, r) \/ UNCHANGED db
        /\ NoFault \/ \E kind \in Faults : Fault(kind)
        /\ Goto(w, Decide(task[w], i, r))
    BY Zenon DEF RefreshDrift, Written, WriteRaised, Fault
  <1> HIDE DEF r, i
  <1>5. Decide(task[w], i, r) \in Task /\ TaskSound(applied, Decide(task[w], i, r))
    BY <1>1, <1>2, <1>3, DecideSound, Zenon
  <1>6. task' \in [Workers -> Task] /\ TasksSound'
    BY <1>4, <1>5, WorkerMoves, Zenon
  <1>7. db' \in [Instances -> ServiceInstance \cup {Nil}] /\ StoreSound'
    BY <1>2, <1>3, <1>4, StoreWrites, Zenon
  <1>8. faults' \in 0..MaxFaults
    BY <1>4, FaultCounted, Zenon
  <1> QED BY <1>4, <1>6, <1>7, <1>8, Zenon DEF TypeOK

\* An artifact is removed out of band.
LEMMA TamperApplied ==
    ASSUME AppliedInv, NEW i \in Instances, NEW v \in Versions, Tamper(i, v)
    PROVE  AppliedInv'
  <1> USE DEF AppliedInv
  <1>1. /\ UNCHANGED <<db, bindings, task, late, applied, usage, audit, requests>>
        /\ bucket' = [bucket EXCEPT ![i] = [bucket[i] EXCEPT ![v] = Nil]]
        /\ \E kind \in Faults : Fault(kind)
    BY Zenon DEF Tamper, Fault
  <1>2. [bucket[i] EXCEPT ![v] = Nil] \in [Versions -> Params \cup {Nil}]
    BY Zenon DEF TypeOK
  <1>3. bucket' \in [Instances -> [Versions -> Params \cup {Nil}]]
    BY <1>1, <1>2, Zenon DEF TypeOK
  <1>4. faults' \in 0..MaxFaults
    BY <1>1, FaultCounted, Zenon
  <1> QED BY <1>1, <1>3, <1>4, Zenon DEF TypeOK, StoreSound, TasksSound

\* A process dies: its workers hold nothing any more.
LEMMA CrashApplied ==
    ASSUME AppliedInv, NEW p \in Procs, Crash(p)
    PROVE  AppliedInv'
  <1> USE DEF AppliedInv
  <1>1. /\ UNCHANGED <<db, bindings, bucket, applied, usage, audit, requests>>
        /\ \E kind \in Faults : Fault(kind)
        /\ task' = [w \in Workers |-> IF ProcOf[w] = p THEN Idle ELSE task[w]]
    BY Zenon DEF Crash, Fault
  <1>2. \A w \in Workers : task[w].pc = "render" =>
            ArtifactOf(task[w].inst, task[w].rec) \in Artifact
    BY HeldArtifact, Zenon DEF Holding
  <1>3. late' \in SUBSET Artifact
    BY <1>2, Zenon DEF Crash, TypeOK
  <1>4. task' \in [Workers -> Task] /\ TasksSound'
    BY <1>1, IdleSound, Zenon DEF TypeOK, TasksSound
  <1>5. faults' \in 0..MaxFaults
    BY <1>1, FaultCounted, Zenon
  <1> QED BY <1>1, <1>3, <1>4, <1>5, Zenon DEF TypeOK, StoreSound

-----------------------------------------------------------------------------
(* The theorems.                                                             *)

\* Every step keeps the invariant.
LEMMA NextApplied == AppliedInv /\ [Next]_vars => AppliedInv'
  <1> SUFFICES ASSUME AppliedInv, [Next]_vars PROVE AppliedInv'
    BY Zenon
  <1>1. CASE UNCHANGED vars
    BY <1>1, Zenon DEF vars, AppliedInv, TypeOK, StoreSound, TasksSound
  <1>2. ASSUME NEW w \in Workers, Request(w) PROVE AppliedInv'
    BY <1>2, RequestApplied, StartPassApplied, Zenon DEF Request
  <1>3. ASSUME NEW w \in Workers, Run(w) PROVE AppliedInv'
    BY <1>3, PersistDesiredApplied, FinishApplied, EmitEvidenceApplied, TeardownApplied,
       DeleteInstanceApplied, BindingApplied, StartPassApplied, NextOfPassApplied,
       RefreshDriftApplied, Zenon DEF Run
  <1>4. ASSUME NEW w \in Workers, ControlPlane(w) \/ RenderTimeout(w) PROVE AppliedInv'
    BY <1>4, ControlPlaneRenderApplied, ControlPlaneDiffApplied, RenderTimeoutApplied, Zenon
    DEF ControlPlane
  <1>5. ASSUME NEW a \in late, LateRender(a) PROVE AppliedInv'
    BY <1>5, LateRenderApplied, Zenon
  <1>6. ASSUME NEW i \in Instances, NEW v \in Versions, Tamper(i, v) PROVE AppliedInv'
    BY <1>6, TamperApplied, Zenon
  <1>7. ASSUME NEW p \in Procs, Crash(p) PROVE AppliedInv'
    BY <1>7, CrashApplied, Zenon
  <1> QED BY <1>1, <1>2, <1>3, <1>4, <1>5, <1>6, <1>7, Zenon DEF Next

\* So it holds throughout.
LEMMA AppliedInvariant == Spec => []AppliedInv
  BY InitApplied, NextApplied, PTL DEF Spec

\* The tables, the requests and the coroutines keep their shape in every
\* behaviour of the broker.
THEOREM TypeCorrect == Spec => []TypeOK
  <1>1. AppliedInv => TypeOK
    BY Zenon DEF AppliedInv
  <1> QED BY <1>1, AppliedInvariant, PTL

\* last_operation never says "succeeded" of desired state that the control plane
\* has not applied, with any number of replicas, requests and faults.
THEOREM SucceededOnlyWhenApplied == Spec => []SucceededIsApplied
  <1>1. AppliedInv => SucceededIsApplied
    BY Zenon DEF AppliedInv, StoreSound, Sound, SucceededIsApplied
  <1> QED BY <1>1, AppliedInvariant, PTL

\* What _needs_reconcile lets the reconciler skip has been applied as desired.
THEOREM SkippedOnlyWhenApplied == Spec => []SkippedIsApplied
  <1>1. AppliedInv => SkippedIsApplied
    BY Zenon DEF AppliedInv, StoreSound, Sound, SkippedIsApplied, needs_reconcile
  <1> QED BY <1>1, AppliedInvariant, PTL

-----------------------------------------------------------------------------
(* Metering and the audit trail of failures: any topology.                   *)

\* What the control plane has applied stays in its history.
LEMMA AppliedGrows == [Next]_vars => applied \subseteq applied'
  <1> SUFFICES ASSUME [Next]_vars PROVE applied \subseteq applied'
    BY Zenon
  <1>1. CASE UNCHANGED vars
    BY <1>1, Zenon DEF vars
  <1>2. ASSUME NEW w \in Workers, Request(w) PROVE UNCHANGED applied
    BY <1>2, Zenon DEF Request, Provision, Update, Deprovision, Bind, Unbind, ReconcileRequest
  <1>3. ASSUME NEW w \in Workers, Run(w) PROVE UNCHANGED applied
    BY <1>3, Zenon DEF Run, PersistDesired, Finish, EmitEvidence, Teardown, DeleteInstance,
                PutBinding, DeleteBinding, StartPass, NextOfPass, RefreshDrift
  <1>4. ASSUME NEW w \in Workers, ControlPlane(w) \/ RenderTimeout(w)
        PROVE  applied \subseteq applied'
    BY <1>4, Zenon DEF ControlPlane, ControlPlaneRender, ControlPlaneDiff, RenderTimeout, Apply
  <1>5. ASSUME NEW a \in late, LateRender(a) PROVE applied \subseteq applied'
    BY <1>5, Zenon DEF LateRender, Apply
  <1>6. ASSUME NEW i \in Instances, NEW v \in Versions, Tamper(i, v) PROVE UNCHANGED applied
    BY <1>6, Zenon DEF Tamper
  <1>7. ASSUME NEW p \in Procs, Crash(p) PROVE UNCHANGED applied
    BY <1>7, Zenon DEF Crash
  <1> QED BY <1>1, <1>2, <1>3, <1>4, <1>5, <1>6, <1>7, Zenon DEF Next

\* Only a worker that is emitting its evidence writes a usage record.
LEMMA UsageWriter ==
    ASSUME [Next]_vars
    PROVE  UNCHANGED usage \/ \E w \in Workers : EmitEvidence(w)
  <1>1. CASE UNCHANGED vars
    BY <1>1, Zenon DEF vars
  <1>2. ASSUME NEW w \in Workers, Request(w) PROVE UNCHANGED usage
    BY <1>2, Zenon DEF Request, Provision, Update, Deprovision, Bind, Unbind, ReconcileRequest
  <1>3. ASSUME NEW w \in Workers, Run(w) PROVE UNCHANGED usage \/ EmitEvidence(w)
    BY <1>3, Zenon DEF Run, PersistDesired, Finish, Teardown, DeleteInstance,
                PutBinding, DeleteBinding, StartPass, NextOfPass, RefreshDrift
  <1>4. ASSUME NEW w \in Workers, ControlPlane(w) \/ RenderTimeout(w) PROVE UNCHANGED usage
    BY <1>4, Zenon DEF ControlPlane, ControlPlaneRender, ControlPlaneDiff, RenderTimeout
  <1>5. ASSUME NEW a \in late, LateRender(a) PROVE UNCHANGED usage
    BY <1>5, Zenon DEF LateRender
  <1>6. ASSUME NEW i \in Instances, NEW v \in Versions, Tamper(i, v) PROVE UNCHANGED usage
    BY <1>6, Zenon DEF Tamper
  <1>7. ASSUME NEW p \in Procs, Crash(p) PROVE UNCHANGED usage
    BY <1>7, Zenon DEF Crash
  <1> QED BY <1>1, <1>2, <1>3, <1>4, <1>5, <1>6, <1>7, Zenon DEF Next

\* Nothing is metered that was not applied.
LEMMA MeteredStep ==
    ASSUME AppliedInv, MeteredIsApplied, [Next]_vars
    PROVE  MeteredIsApplied'
  <1> SUFFICES ASSUME NEW i \in Instances, usage'[i] > 0
               PROVE  \E a \in applied' : a.inst = i
    BY Zenon DEF MeteredIsApplied
  <1>1. applied \subseteq applied'
    BY AppliedGrows, Zenon
  <1>2. CASE usage'[i] = usage[i]
    BY <1>1, <1>2, Zenon DEF MeteredIsApplied
  <1>3. CASE usage'[i] # usage[i]
    <2>1. PICK w \in Workers : EmitEvidence(w)
      BY <1>3, UsageWriter, Zenon
    <2>2. usage \in [Instances -> Nat] /\ TaskSound(applied, task[w])
      BY Zenon DEF AppliedInv, TypeOK, TasksSound
    <2>3. /\ task[w].pc = "evidence" /\ task[w].res = "ok"
          /\ usage' = [usage EXCEPT ![task[w].inst] = @ + 1]
      BY <1>3, <2>1, Zenon DEF EmitEvidence
    <2>4. task[w].inst = i
      BY <1>3, <2>2, <2>3, Zenon
    <2>5. ArtifactOf(i, task[w].rec) \in applied
      BY <2>2, <2>3, <2>4, Zenon DEF TaskSound
    <2>6. ArtifactOf(i, task[w].rec).inst = i
      BY Zenon DEF ArtifactOf
    <2> QED BY <1>1, <2>5, <2>6, Zenon
  <1> QED BY <1>2, <1>3, Zenon

\* A usage record is written only for an instance the control plane has applied
\* something for, with any replicas, races, timeouts and restarts (_emit_usage).
THEOREM MeteredOnlyWhenApplied == Spec => []MeteredIsApplied
  <1>1. Init => MeteredIsApplied
    BY DEF Init, MeteredIsApplied
  <1>2. AppliedInv /\ MeteredIsApplied /\ [Next]_vars => MeteredIsApplied'
    BY MeteredStep, Zenon
  <1> QED BY <1>1, <1>2, AppliedInvariant, PTL DEF Spec

\* A worker about to write a new record got there by Provision; every other
\* step leaves it where it was or takes it somewhere else.
Creating(t) == t.pc = "put" /\ t.kind = "provision"

\* A pass never comes to create an instance.
LEMMA DecideNotCreating ==
    ASSUME NEW t \in Task, t.kind = "reconcile", NEW i \in Instances,
           NEW r \in ServiceInstance
    PROVE  ~Creating(Decide(t, i, r))
  BY Zenon DEF Decide, Creating, Task

\* Nor does a worker that is through.
LEMMA ThroughNotCreating ==
    ASSUME NEW w \in Workers, task[w] \in Task
    PROVE  ~Creating(Through(w))
  BY Zenon DEF Through, Creating, Task, Idle

\* No step of a worker that runs leads to a provision's first write.
LEMMA RunNotCreating ==
    ASSUME AppliedInv, NEW u \in Workers,
           Run(u) \/ ReconcileRequest(u) \/ ControlPlane(u) \/ RenderTimeout(u)
    PROVE  \E t : Goto(u, t) /\ ~Creating(t)
  <1> USE DEF AppliedInv
  <1>1. task[u] \in Task /\ TaskSound(applied, task[u])
    BY Zenon DEF TypeOK, TasksSound
  <1>2. ~Creating(Idle)
    BY Zenon DEF Idle, Creating
  <1>3. CASE PersistDesired(u)
    BY <1>1, <1>2, <1>3 DEF PersistDesired, Creating, Task
  <1>4. CASE Finish(u)
    <2> DEFINE t(r) == [task[u] EXCEPT !.pc = "evidence", !.rec = r]
    <2>1. \A r : ~Creating(t(r))
      BY <1>1, Zenon DEF Creating, Task
    <2>2. \/ Goto(u, Idle) \/ Goto(u, Through(u))
          \/ Goto(u, t(finished(task[u].rec, task[u].res)))
      BY <1>4, Zenon DEF Finish
    <2> HIDE DEF t
    <2> QED BY <1>1, <1>2, <2>1, <2>2, ThroughNotCreating, Zenon
  <1>5. CASE EmitEvidence(u)
    BY <1>1, <1>2, <1>5, ThroughNotCreating, Zenon DEF EmitEvidence
  <1>6. CASE Teardown(u)
    BY <1>1, <1>6 DEF Teardown, Creating, Task
  <1>7. CASE DeleteInstance(u)
    BY <1>1, <1>2, <1>7 DEF DeleteInstance, Creating, Task
  <1>8. CASE PutBinding(u) \/ DeleteBinding(u)
    BY <1>2, <1>8, Zenon DEF PutBinding, DeleteBinding
  <1> DEFINE pass(q) == [Idle EXCEPT !.pc = "next", !.kind = "reconcile", !.queue = q]
             fresh(q) == [Idle EXCEPT !.pc = "next", !.kind = "reconcile", !.fresh = TRUE,
                                      !.queue = q]
  <1>0. \A q : ~Creating(pass(q)) /\ ~Creating(fresh(q))
    BY Zenon DEF Creating, Idle
  <1>9. CASE StartPass(u)
    <2>1. Goto(u, fresh(list_instances))
      BY <1>9, Zenon DEF StartPass
    <2> HIDE DEF fresh
    <2> QED BY <1>0, <2>1, Zenon
  <1>10. CASE NextOfPass(u)
    <2>1. CASE Goto(u, Idle)
      BY <1>2, <2>1, Zenon
    <2>2. CASE ~Goto(u, Idle)
      <3> DEFINE t(e) == [task[u] EXCEPT !.queue = @ \ {e}]
                 d(e) == [t(e) EXCEPT !.pc = "diff", !.inst = e[1], !.rec = e[2]]
      <3>1. PICK e \in task[u].queue :
              Goto(u, IF t(e).fresh /\ e[2].status = "succeeded"
                      THEN d(e) ELSE Decide(t(e), e[1], e[2]))
        BY <1>10, <2>2, Zenon DEF NextOfPass
      <3>2. e[1] \in Instances /\ e[2] \in ServiceInstance
        BY <1>1, Zenon DEF Task
      <3>3. t(e) \in Task /\ t(e).kind = "reconcile"
        BY <1>1, <1>10, ZenonT(30) DEF NextOfPass, TaskSound, Task
      <3> HIDE DEF t
      <3>4. ~Creating(d(e))
        BY <3>3, Zenon DEF Creating, Task
      <3>5. ~Creating(Decide(t(e), e[1], e[2]))
        BY <3>2, <3>3, DecideNotCreating, Zenon
      <3> QED BY <3>1, <3>4, <3>5, Zenon
    <2> QED BY <2>1, <2>2, Zenon
  <1>11. CASE RefreshDrift(u)
    <2> DEFINE r == IF task[u].res = "unknown" THEN task[u].rec
                    ELSE [task[u].rec EXCEPT !.drift = task[u].res]
    <2>1. Goto(u, Decide(task[u], task[u].inst, r))
      BY <1>11, Zenon DEF RefreshDrift
    <2>2. task[u].kind = "reconcile"
      BY <1>1, <1>11, Zenon DEF RefreshDrift, TaskSound
    <2>3. ~Creating(Decide(task[u], task[u].inst, r))
      BY <1>1, <2>2, Zenon DEF Decide, Creating, Task
    <2> QED BY <2>1, <2>3, Zenon
  <1>12. CASE ReconcileRequest(u)
    <2>1. \E q : Goto(u, pass(q))
      BY <1>12, Zenon DEF ReconcileRequest
    <2> HIDE DEF pass
    <2> QED BY <1>0, <2>1, Zenon
  <1>13. CASE ControlPlaneRender(u)
    BY <1>1, <1>13 DEF ControlPlaneRender, Creating, Task
  <1>14. CASE ControlPlaneDiff(u)
    BY <1>1, <1>14 DEF ControlPlaneDiff, Creating, Task
  <1>15. CASE RenderTimeout(u)
    BY <1>1, <1>15 DEF RenderTimeout, Creating, Task
  <1> QED
    BY <1>3, <1>4, <1>5, <1>6, <1>7, <1>8, <1>9, <1>10, <1>11, <1>12, <1>13, <1>14, <1>15, Zenon
    DEF Run, ControlPlane

\* The copy _refresh_drift writes back.
Refreshed(t) == IF t.res = "unknown" THEN t.rec ELSE [t.rec EXCEPT !.drift = t.res]

\* w writes the record of instance i, in one of the three steps that write one.
Writes(w, i) ==
    /\ task[w].inst = i
    /\ \/ PersistDesired(w) /\ db'[i] = task[w].rec
       \/ Finish(w) /\ Written(i, db'[i]) /\ db'[i] = finished(task[w].rec, task[w].res)
       \/ RefreshDrift(w) /\ task[w].res # "unknown" /\ db'[i] = Refreshed(task[w])

\* A record of the table changes only in one of those steps, or it is deleted.
LEMMA TableChanges ==
    ASSUME AppliedInv, [Next]_vars, NEW i \in Instances, db'[i] # db[i]
    PROVE  \E w \in Workers : \/ Writes(w, i)
                              \/ DeleteInstance(w) /\ task[w].inst = i /\ db'[i] = Nil
  <1>1. ~UNCHANGED db
    BY Zenon
  <1>2. ASSUME NEW w \in Workers
        PROVE  ~Request(w) /\ ~ControlPlane(w) /\ ~RenderTimeout(w)
    BY <1>1, Zenon DEF Request, Provision, Update, Deprovision, Bind, Unbind, ReconcileRequest,
                ControlPlane, ControlPlaneRender, ControlPlaneDiff, RenderTimeout
  <1>3. PICK w \in Workers : Run(w)
    BY <1>1, <1>2, Zenon DEF Next, LateRender, Tamper, Crash, vars
  <1>4. PersistDesired(w) \/ Finish(w) \/ RefreshDrift(w) \/ DeleteInstance(w)
    BY <1>1, <1>3, Zenon DEF Run, EmitEvidence, Teardown, PutBinding, DeleteBinding, StartPass,
                      NextOfPass
  <1>5. db \in [Instances -> ServiceInstance \cup {Nil}]
    BY Zenon DEF AppliedInv, TypeOK
  <1>6. ASSUME NEW j, NEW r, put_instance(j, r) PROVE i = j /\ db'[i] = r
    BY <1>5, <1>6, Zenon DEF put_instance
  <1>7. CASE PersistDesired(w)
    <2>1. put_instance(task[w].inst, task[w].rec)
      BY <1>1, <1>7, Zenon DEF PersistDesired, Written, WriteRaised
    <2>2. task[w].inst = i /\ db'[i] = task[w].rec
      BY <1>6, <2>1
    <2>3. Writes(w, i)
      BY <1>7, <2>2, Zenon DEF Writes
    <2> QED BY <2>3, Zenon
  <1>8. CASE Finish(w)
    <2> DEFINE r == finished(task[w].rec, task[w].res)
    <2>1. Written(task[w].inst, r)
      BY <1>1, <1>8, Zenon DEF Finish, WriteRaised
    <2>2. i = task[w].inst /\ db'[i] = r
      BY <1>6, <2>1, Zenon DEF Written
    <2>3. Writes(w, i)
      BY <1>8, <2>1, <2>2, Zenon DEF Writes
    <2> QED BY <2>3, Zenon
  <1>9. CASE RefreshDrift(w)
    <2>1. task[w].res # "unknown" /\ put_instance(task[w].inst, Refreshed(task[w]))
      BY <1>1, <1>9, Zenon DEF RefreshDrift, Written, WriteRaised, Refreshed
    <2>2. task[w].inst = i /\ db'[i] = Refreshed(task[w])
      BY <1>6, <2>1
    <2>3. Writes(w, i)
      BY <1>9, <2>1, <2>2, Zenon DEF Writes
    <2> QED BY <2>3, Zenon
  <1>10. CASE DeleteInstance(w)
    <2>1. put_instance(task[w].inst, Nil)
      BY <1>1, <1>10, Zenon DEF DeleteInstance, Written, WriteRaised
    <2> QED BY <1>6, <1>10, <2>1, Zenon
  <1> QED BY <1>4, <1>7, <1>8, <1>9, <1>10, Zenon

\* A worker that has its evidence to emit does nothing else, unless it dies.
LEMMA EvidenceStays ==
    ASSUME AppliedInv, [Next]_vars, NEW w \in Workers, task[w].pc = "evidence"
    PROVE  task'[w] = task[w] \/ EmitEvidence(w) \/ \E p \in Procs : Crash(p)
  <1>0. task \in [Workers -> Task]
    BY Zenon DEF AppliedInv, TypeOK
  <1>1. ASSUME NEW u \in Workers, NEW t, Goto(u, t), u # w PROVE task'[w] = task[w]
    BY <1>0, <1>1, Zenon DEF Goto
  <1>2. ASSUME NEW u \in Workers, Request(u) PROVE task'[w] = task[w]
    <2>1. task[u].pc = "idle"
      BY <1>2, Zenon DEF Request, Provision, Update, Deprovision, Bind, Unbind, ReconcileRequest,
                  NewRequest
    <2>2. \E t : Goto(u, t)
      BY <1>2, Zenon DEF Request, Provision, Update, Deprovision, Bind, Unbind, ReconcileRequest
    <2> QED BY <1>1, <2>1, <2>2, Zenon
  <1>3. ASSUME NEW u \in Workers, Run(u), ~EmitEvidence(u) PROVE task'[w] = task[w]
    <2>1. task[u].pc # "evidence"
      BY <1>3, Zenon DEF Run, PersistDesired, Finish, Teardown, DeleteInstance,
                  PutBinding, DeleteBinding, StartPass, NextOfPass, RefreshDrift
    <2>2. \E t : Goto(u, t)
      BY <1>3, RunNotCreating, Zenon
    <2> QED BY <1>1, <2>1, <2>2, Zenon
  <1>4. ASSUME NEW u \in Workers, ControlPlane(u) \/ RenderTimeout(u) PROVE task'[w] = task[w]
    <2>1. task[u].pc # "evidence"
      BY <1>4, Zenon DEF ControlPlane, ControlPlaneRender, ControlPlaneDiff, RenderTimeout
    <2>2. \E t : Goto(u, t)
      BY <1>4, RunNotCreating, Zenon
    <2> QED BY <1>1, <2>1, <2>2, Zenon
  <1>5. ASSUME NEW u \in Workers, EmitEvidence(u), u # w PROVE task'[w] = task[w]
    <2>1. \E t : Goto(u, t)
      BY <1>5, RunNotCreating, Zenon DEF Run
    <2> QED BY <1>1, <1>5, <2>1, Zenon
  <1>6. CASE UNCHANGED task
    BY <1>6, Zenon
  <1> QED BY <1>2, <1>3, <1>4, <1>5, <1>6, Zenon DEF Next, LateRender, Tamper, vars

\* The audit trail only grows.
LEMMA AuditGrows == [Next]_vars => audit \subseteq audit'
  <1> SUFFICES ASSUME [Next]_vars PROVE audit \subseteq audit'
    BY Zenon
  <1>1. CASE UNCHANGED vars
    BY <1>1, Zenon DEF vars
  <1>2. ASSUME NEW w \in Workers, Request(w) PROVE UNCHANGED audit
    BY <1>2, Zenon DEF Request, Provision, Update, Deprovision, Bind, Unbind, ReconcileRequest
  <1>3. ASSUME NEW w \in Workers, Run(w) PROVE UNCHANGED audit \/ \E action : emit(action, w)
    <2>1. CASE EmitEvidence(w)
      BY <2>1, Zenon DEF EmitEvidence
    <2>2. CASE Teardown(w)
      BY <2>2, Zenon DEF Teardown
    <2>3. CASE PutBinding(w) \/ DeleteBinding(w)
      BY <2>3, Zenon DEF PutBinding, DeleteBinding
    <2>4. CASE \/ PersistDesired(w) \/ Finish(w) \/ DeleteInstance(w)
               \/ StartPass(w) \/ NextOfPass(w) \/ RefreshDrift(w)
      BY <2>4, Zenon DEF PersistDesired, Finish, DeleteInstance, StartPass, NextOfPass, RefreshDrift
    <2> QED BY <1>3, <2>1, <2>2, <2>3, <2>4, Zenon DEF Run
  <1>4. ASSUME NEW w \in Workers, ControlPlane(w) \/ RenderTimeout(w) PROVE UNCHANGED audit
    BY <1>4, Zenon DEF ControlPlane, ControlPlaneRender, ControlPlaneDiff, RenderTimeout
  <1>5. ASSUME NEW a \in late, LateRender(a) PROVE UNCHANGED audit
    BY <1>5, Zenon DEF LateRender
  <1>6. ASSUME NEW i \in Instances, NEW v \in Versions, Tamper(i, v) PROVE UNCHANGED audit
    BY <1>6, Zenon DEF Tamper
  <1>7. ASSUME NEW p \in Procs, Crash(p) PROVE UNCHANGED audit
    BY <1>7, Zenon DEF Crash
  <1> QED BY <1>1, <1>2, <1>3, <1>4, <1>5, <1>6, <1>7, Zenon DEF Next, emit

\* What FailureAudited asks for instance i whose record has version v.
FailureTold(trail, tasks, i, v) ==
    \/ [action |-> "instance.provision_failed", inst |-> i, version |-> v] \in trail
    \/ \E w \in Workers : /\ tasks[w].pc = "evidence" /\ tasks[w].inst = i
                          /\ tasks[w].kind # "update" /\ tasks[w].res = "fail"
                          /\ tasks[w].rec.version = v

\* A failure that is told stays told: the worker that owes the event emits it.
LEMMA ToldStays ==
    ASSUME "crash" \notin Faults, AppliedInv, [Next]_vars, NEW i, NEW v,
           FailureTold(audit, task, i, v)
    PROVE  FailureTold(audit', task', i, v)
  <1>1. audit \subseteq audit'
    BY AuditGrows, Zenon
  <1>2. CASE [action |-> "instance.provision_failed", inst |-> i, version |-> v] \in audit
    BY <1>1, <1>2, Zenon DEF FailureTold
  <1>3. ASSUME NEW w \in Workers, task[w].pc = "evidence", task[w].inst = i,
               task[w].kind # "update", task[w].res = "fail", task[w].rec.version = v
        PROVE  FailureTold(audit', task', i, v)
    <2>1. task'[w] = task[w] \/ EmitEvidence(w)
      BY <1>3, EvidenceStays, Zenon DEF Crash, Fault
    <2>2. CASE task'[w] = task[w]
      BY <1>3, <2>2, Zenon DEF FailureTold
    <2>3. CASE EmitEvidence(w)
      <3>1. TaskSound(applied, task[w])
        BY Zenon DEF AppliedInv, TasksSound
      <3>2. task[w].kind \in {"provision", "reconcile"}
        BY <1>3, <3>1, Zenon DEF TaskSound
      <3>3. audit_action(task[w].kind, task[w].res) = "instance.provision_failed"
        BY <1>3, <3>2, Zenon DEF audit_action
      <3>4. emit(audit_action(task[w].kind, task[w].res), w)
        BY <1>3, <2>3, Zenon DEF EmitEvidence
      <3>5. [action |-> "instance.provision_failed", inst |-> i, version |-> v] \in audit'
        BY <1>3, <3>3, <3>4, Zenon DEF emit
      <3> QED BY <3>5, Zenon DEF FailureTold
    <2> QED BY <2>1, <2>2, <2>3, Zenon
  <1> QED BY <1>2, <1>3, Zenon DEF FailureTold

\* A failed record that is new in the table was written by a worker that goes on
\* to audit it, unless it is an update's.
LEMMA FailureStep ==
    ASSUME "crash" \notin Faults, AppliedInv, FailureAudited, [Next]_vars
    PROVE  FailureAudited'
  <1> SUFFICES ASSUME NEW i \in Instances, db'[i] # Nil, db'[i].op = "failed",
                      db'[i].optype # "update"
               PROVE  FailureTold(audit', task', i, db'[i].version)
    BY Zenon DEF FailureAudited, FailureTold
  <1>1. CASE db'[i] = db[i]
    <2>1. FailureTold(audit, task, i, db[i].version)
      BY <1>1 DEF FailureAudited, FailureTold
    <2>2. FailureTold(audit', task', i, db[i].version)
      BY <2>1, ToldStays, Zenon
    <2> QED BY <1>1, <2>2, Zenon
  <1>2. CASE db'[i] # db[i]
    <2>1. PICK w \in Workers : Writes(w, i)
      BY <1>2, TableChanges, Zenon
    <2>2. /\ task \in [Workers -> Task] /\ TaskSound(applied, task[w])
          /\ task[w].inst = i
      BY <2>1, Zenon DEF AppliedInv, TypeOK, TasksSound, Writes
    <2>3. ~PersistDesired(w) \/ db'[i] # task[w].rec
      BY <2>2, Zenon DEF PersistDesired, TaskSound
    <2>4. ~RefreshDrift(w) \/ db'[i] # Refreshed(task[w])
      <3> SUFFICES ASSUME RefreshDrift(w) PROVE Refreshed(task[w]).op # "failed"
        BY Zenon
      <3>1. /\ task[w].rec \in ServiceInstance /\ task[w].rec.status = "succeeded"
            /\ Sound(applied, task[w].inst, task[w].rec)
        BY <2>2, Zenon DEF RefreshDrift, TaskSound, Holding
      <3>2. task[w].rec.op # "failed"
        BY <3>1, Zenon DEF Sound
      <3> QED BY <3>1, <3>2, Zenon DEF Refreshed, ServiceInstance
    <2>5. /\ Finish(w) /\ Written(i, db'[i])
          /\ db'[i] = finished(task[w].rec, task[w].res)
      BY <2>1, <2>3, <2>4, Zenon DEF Writes
    <2>6. /\ task[w].pc = "render" /\ task[w].res \in {"ok", "fail"}
          /\ task[w].rec \in ServiceInstance /\ Sound(applied, i, task[w].rec)
          /\ task[w].res = "ok" => ArtifactOf(i, task[w].rec) \in applied
          /\ task[w].kind = "update" => task[w].rec.optype = "update"
      BY <2>2, <2>5, Zenon DEF Finish, TaskSound, Holding
    <2>7. task[w].res = "fail" /\ task[w].kind # "update"
      BY <2>5, <2>6, FinishedSound
    <2> DEFINE t == [task[w] EXCEPT !.pc = "evidence", !.rec = db'[i]]
    <2>8. Goto(w, t)
      BY <2>5, <2>7, Zenon DEF Finish
    <2>9. task'[w] = t
      BY <2>2, <2>8, Zenon DEF Goto
    <2>10. /\ t.pc = "evidence" /\ t.inst = i /\ t.kind = task[w].kind
           /\ t.res = task[w].res /\ t.rec = db'[i]
      BY <2>2 DEF Task
    <2> HIDE DEF t
    <2> QED BY <2>7, <2>9, <2>10, Zenon DEF FailureTold
  <1> QED BY <1>1, <1>2, Zenon

\* A failed provision or reconcile that the store shows has its audit event, or the
\* worker about to emit it, in any topology, unless a broker process dies between
\* the write and the event (_finalize_provision, _reconcile_instance).
THEOREM FailuresAudited ==
    ASSUME "crash" \notin Faults
    PROVE  Spec => []FailureAudited
  <1>1. Init => FailureAudited
    BY Zenon DEF Init, FailureAudited
  <1>2. AppliedInv /\ FailureAudited /\ [Next]_vars => FailureAudited'
    BY FailureStep, Zenon
  <1> QED BY <1>1, <1>2, AppliedInvariant, PTL DEF Spec

-----------------------------------------------------------------------------
(* One process: nothing runs between a provision's read and its write.       *)

\* Only a coroutine that has the event loop changes the table.
LEMMA TableWriter ==
    ASSUME NEW u \in Workers, Run(u)
    PROVE  UNCHANGED db \/ CanRun(u)
  BY Zenon DEF Run, PersistDesired, Finish, EmitEvidence, Teardown, DeleteInstance,
         PutBinding, DeleteBinding, StartPass, NextOfPass, RefreshDrift

\* The one step that does is provision itself, which saw no record.
LEMMA ProvisionStep ==
    ASSUME \A u, w \in Workers : ProcOf[u] = ProcOf[w], "read" \notin Faults,
           AppliedInv, ProvisionIsIdempotent, [Next]_vars
    PROVE  ProvisionIsIdempotent'
  <1> SUFFICES ASSUME NEW w \in Workers, Creating(task'[w])
               PROVE  db'[task'[w].inst] = Nil
    BY Zenon DEF ProvisionIsIdempotent, Creating
  <1> USE DEF AppliedInv
  <1>0. task \in [Workers -> Task]
    BY Zenon DEF TypeOK
  \* w stays where it is and the table is left alone
  <1>1. ASSUME task'[w] = task[w], UNCHANGED db
        PROVE  db'[task'[w].inst] = Nil
    BY <1>1, Zenon DEF ProvisionIsIdempotent, Creating
  <1>2. CASE UNCHANGED vars
    BY <1>1, <1>2, Zenon DEF vars
  <1>3. ASSUME NEW u \in Workers, NEW i \in Instances, NEW p \in Params, Provision(u, i, p)
        PROVE  db'[task'[w].inst] = Nil
    <2>1. UNCHANGED db /\ db[i] = Nil
      BY <1>3, Zenon DEF Provision, Fault
    <2>2. CASE u = w
      <3>1. task'[w].inst = i
        BY <1>0, <1>3, <2>2, Zenon DEF Provision, Goto, Idle
      <3> QED BY <2>1, <3>1, Zenon
    <2>3. CASE u # w
      BY <1>0, <1>1, <1>3, <2>1, <2>3, Zenon DEF Provision, Goto
    <2> QED BY <2>2, <2>3, Zenon
  <1>4. ASSUME NEW u \in Workers, NEW t, Goto(u, t), ~Creating(t), UNCHANGED db
        PROVE  db'[task'[w].inst] = Nil
    BY <1>0, <1>1, <1>4, Zenon DEF Goto
  <1>5. ASSUME NEW u \in Workers, NEW i \in Instances,
               \/ \E p \in Params : Update(u, i, p)
               \/ Deprovision(u, i)
               \/ \E b \in Bindings : Bind(u, i, b) \/ Unbind(u, i, b)
        PROVE  db'[task'[w].inst] = Nil
    <2> DEFINE t(pc, k, r, b) ==
                 [Idle EXCEPT !.pc = pc, !.kind = k, !.inst = i, !.rec = r, !.bid = b]
               s(pc, k, r) == [Idle EXCEPT !.pc = pc, !.kind = k, !.inst = i, !.rec = r]
    <2>1. UNCHANGED db
      BY <1>5, Zenon DEF Update, Deprovision, Bind, Unbind
    <2>2. \A pc, k, r, b : k # "provision" => ~Creating(t(pc, k, r, b)) /\ ~Creating(s(pc, k, r))
      BY DEF Creating, Idle
    <2>3. \/ \E r : Goto(u, s("put", "update", r))
          \/ \E r : Goto(u, s("teardown", "deprovision", r))
          \/ \E r, b : Goto(u, t("bind", "bind", r, b))
          \/ \E r, b : Goto(u, t("unbind", "unbind", r, b))
      BY <1>5, Zenon DEF Update, Deprovision, Bind, Unbind
    <2> HIDE DEF t, s
    <2> QED BY <1>4, <2>1, <2>2, <2>3, Zenon
  <1>6. ASSUME NEW u \in Workers, ReconcileRequest(u) \/ ControlPlane(u) \/ RenderTimeout(u)
        PROVE  db'[task'[w].inst] = Nil
    <2>1. UNCHANGED db
      BY <1>6, Zenon DEF ReconcileRequest, ControlPlane, ControlPlaneRender, ControlPlaneDiff,
                  RenderTimeout
    <2> QED BY <1>4, <1>6, <2>1, RunNotCreating, Zenon
  <1>7. ASSUME NEW u \in Workers, Run(u)
        PROVE  db'[task'[w].inst] = Nil
    <2>1. PICK t : Goto(u, t) /\ ~Creating(t)
      BY <1>7, RunNotCreating, Zenon
    <2>2. CASE UNCHANGED db
      BY <1>4, <2>1, <2>2, Zenon
    <2>3. CASE CanRun(u)
      <3>1. u # w /\ task'[w] = task[w]
        BY <1>0, <2>1, Zenon DEF Goto
      <3>2. task[w].pc \in Yielded
        BY <2>3, <3>1, Zenon DEF CanRun
      <3> QED BY <3>1, <3>2, Zenon DEF Creating, Yielded
    <2> QED BY <1>7, <2>2, <2>3, TableWriter, Zenon
  <1>8. ASSUME NEW a \in late, LateRender(a) PROVE db'[task'[w].inst] = Nil
    BY <1>1, <1>8, Zenon DEF LateRender
  <1>9. ASSUME NEW i \in Instances, NEW v \in Versions, Tamper(i, v)
        PROVE  db'[task'[w].inst] = Nil
    BY <1>1, <1>9, Zenon DEF Tamper
  <1>10. ASSUME NEW p \in Procs, Crash(p) PROVE db'[task'[w].inst] = Nil
    <2>1. task'[w] = Idle \/ task'[w] = task[w]
      BY <1>10, Zenon DEF Crash
    <2>2. ~Creating(Idle)
      BY Zenon DEF Creating, Idle
    <2> QED BY <1>1, <1>10, <2>1, <2>2, Zenon DEF Crash
  <1> QED
    BY <1>2, <1>3, <1>5, <1>6, <1>7, <1>8, <1>9, <1>10, Zenon DEF Next, Request

\* In a single broker process whose table reads do not fail, a repeated
\* provision never overwrites an instance: provision runs from its existence
\* check to its first write without giving up the event loop.
THEOREM ProvisionIdempotentInOneProcess ==
    ASSUME \A u, w \in Workers : ProcOf[u] = ProcOf[w], "read" \notin Faults
    PROVE  Spec => []ProvisionIsIdempotent
  <1>1. Init => ProvisionIsIdempotent
    BY DEF Init, ProvisionIsIdempotent, Idle
  <1>2. AppliedInv /\ ProvisionIsIdempotent /\ [Next]_vars => ProvisionIsIdempotent'
    BY ProvisionStep, Zenon
  <1> QED BY <1>1, <1>2, AppliedInvariant, PTL DEF Spec
=============================================================================
