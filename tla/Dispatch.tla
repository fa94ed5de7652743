------------------------------ MODULE Dispatch ------------------------------
(***************************************************************************)
(* One instance's deployment manifest against the backends it deploys to:  *)
(* apply_manifest and diff_manifest (libs/common/sovereign/executors), the *)
(* control plane's /render and /diff around them, and the broker's periodic*)
(* reconciler, which turns a diff into a drift status and the drift status *)
(* into another apply.  Every step of a manifest is a step here, so that   *)
(* out-of-band changes of the backends fall between any two.               *)
(***************************************************************************)
EXTENDS Integers, Sequences

CONSTANTS
    Kinds,        \* kinds of deployment step
    Manifest,     \* deployment_manifest: the kinds of its steps, in order
    Appliable,    \* kinds the renderer's apply can carry out
    Registered,   \* kinds with an executor in the registry
    Comparable,   \* kinds whose executor compares with the backend; the others
                  \* inherit BaseExecutor.diff, which reports in sync
    MaxFaults,    \* bound: calls that fail
    MaxChanges,   \* bound: out-of-band changes
    Nil

Steps == 1..Len(Manifest)

ASSUME DispatchAssumption ==
    /\ Manifest \in Seq(Kinds)
    /\ Comparable \subseteq Registered
    /\ Nil \notin Steps
    /\ MaxFaults \in Nat /\ MaxChanges \in Nat

VARIABLES
    live,      \* per step, what the backend has: "absent", "desired" or "changed"
    inst,      \* the instance: [op, drift, failedStep]
    pass,      \* the pass in progress: [pc, k, drifted, unknown]
    unseen,    \* history: steps changed since a conclusive pass, or an apply,
               \* last looked at them
    executed,  \* applied_steps of this apply so far
    late,      \* per fault, the apply whose caller gave up with it: [k, executed]
    result,    \* history: the last ApplyResult that was not ok: its failed and its
               \* applied steps
    faults, changes

vars == <<live, inst, pass, unseen, executed, late, result, faults, changes>>

Instance == [op : {"in progress", "succeeded", "failed"},
             drift : {"in_sync", "drifted", "reconciling"}, failedStep : Steps \cup {Nil}]

Pass == [pc : {"idle", "decide", "apply", "diff"}, k : 1..(Len(Manifest) + 1),
         drifted : BOOLEAN, unknown : BOOLEAN]

Idle == [pc |-> "idle", k |-> 1, drifted |-> FALSE, unknown |-> FALSE]

Apply == [k : 1..(Len(Manifest) + 1), executed : SUBSET Steps]

\* An apply that has nothing left to do.
Ended == [k |-> Len(Manifest) + 1, executed |-> {}]

Fails == faults < MaxFaults /\ faults' = faults + 1

-----------------------------------------------------------------------------
(* Apply.                                                                    *)

\* _needs_reconcile, then _begin_operation and POST /render.
begin_apply ==
    /\ pass.pc = "decide"
    /\ \/ inst.op # "succeeded"
       \/ inst.drift \in {"drifted", "reconciling"}
    /\ inst' = [op |-> "in progress", drift |-> "reconciling", failedStep |-> Nil]
    /\ pass' = [Idle EXCEPT !.pc = "apply"]
    /\ executed' = {}
    /\ UNCHANGED <<live, unseen, late, result, faults, changes>>

skip_reconcile ==
    /\ pass.pc = "decide"
    /\ inst.op = "succeeded" /\ inst.drift \notin {"drifted", "reconciling"}
    /\ pass' = Idle
    /\ UNCHANGED <<live, inst, unseen, executed, late, result, faults, changes>>

\* The control plane answers 503 with the failed step in its detail; the
\* broker's render turns every error into "control plane unavailable", from
\* which _failure_detail takes no step.
failure_detail == Nil

mark_operation_failed ==
    inst' = [op |-> "failed", drift |-> "drifted", failedStep |-> failure_detail]

\* A step's executor does what it is to do.
executes(k) ==
    /\ Manifest[k] \in Appliable
    /\ live' = [live EXCEPT ![k] = "desired"]
    /\ unseen' = unseen \ {k}
    /\ UNCHANGED faults

\* It does not, or there is none; it may have reached its backend in part.
breaks(k) ==
    IF Manifest[k] \in Appliable
    THEN Fails /\ \E s \in {live[k], "desired", "changed"} : live' = [live EXCEPT ![k] = s]
    ELSE UNCHANGED <<live, faults>>

\* Mutant: the loop goes on to the next step after a failure.
apply_step_on ==
    /\ pass.pc = "apply" /\ pass.k \in Steps
    /\ \/ /\ executes(pass.k)
          /\ executed' = executed \cup {pass.k}
          /\ UNCHANGED <<inst, result>>
       \/ /\ breaks(pass.k)
          /\ mark_operation_failed
          /\ result' = [failed |-> pass.k, applied |-> executed]
          /\ UNCHANGED <<executed, unseen>>
    /\ pass' = [pass EXCEPT !.k = @ + 1]
    /\ UNCHANGED <<late, changes>>

\* One step of apply_manifest, of the apply the broker waits for.
apply_step ==
    /\ pass.pc = "apply" /\ pass.k \in Steps
    /\ \/ /\ executes(pass.k)
          /\ executed' = executed \cup {pass.k}
          /\ pass' = [pass EXCEPT !.k = @ + 1]
          /\ UNCHANGED <<inst, result>>
       \/ /\ breaks(pass.k)
          /\ mark_operation_failed
          /\ result' = [failed |-> pass.k, applied |-> executed]
          /\ pass' = Idle
          /\ UNCHANGED <<executed, unseen>>
    /\ UNCHANGED <<late, changes>>

\* The broker's ten seconds are over, or its connection breaks: the operation
\* failed, and the control plane, if it lives, goes on with the manifest.
give_up ==
    /\ pass.pc = "apply"
    /\ Fails
    /\ mark_operation_failed
    /\ pass' = Idle
    /\ \E a \in {Ended, [k |-> pass.k, executed |-> executed]} :
         late' = [late EXCEPT ![faults + 1] = a]
    /\ UNCHANGED <<live, unseen, executed, result, changes>>

\* A step of an apply nobody waits for, beside whatever the reconciler does.
late_step(n) ==
    LET k == late[n].k
    IN  /\ k \in Steps
        /\ \/ /\ executes(k)
              /\ late' = [late EXCEPT ![n] = [k |-> k + 1, executed |-> @.executed \cup {k}]]
              /\ UNCHANGED result
           \/ /\ breaks(k)
              /\ late' = [late EXCEPT ![n] = Ended]
              /\ result' = [failed |-> k, applied |-> late[n].executed]
              /\ unseen' = IF live' = live THEN unseen ELSE unseen \cup {k}
        /\ UNCHANGED <<inst, pass, executed, changes>>

mark_operation_succeeded ==
    /\ pass.pc = "apply" /\ pass.k \notin Steps
    /\ inst' = [op |-> "succeeded", drift |-> "in_sync", failedStep |-> Nil]
    /\ pass' = Idle
    /\ UNCHANGED <<live, unseen, executed, late, result, faults, changes>>

-----------------------------------------------------------------------------
(* Diff.                                                                     *)

\* A pass of the periodic reconciler: a succeeded instance is compared first.
reconcile_instance ==
    /\ pass.pc = "idle"
    /\ pass' = [Idle EXCEPT !.pc = IF inst.op = "succeeded" THEN "diff" ELSE "decide"]
    /\ UNCHANGED <<live, inst, unseen, executed, late, result, faults, changes>>

\* Mutant: a step that could not be checked counts as in sync.
diff_step_trusting ==
    /\ pass.pc = "diff" /\ pass.k \in Steps
    /\ unseen' = unseen \ {pass.k}
    /\ \/ /\ pass' = [pass EXCEPT !.k = @ + 1, !.drifted = @ \/ live[pass.k] # "desired"]
          /\ UNCHANGED faults
       \/ Fails /\ pass' = [pass EXCEPT !.k = @ + 1]
    /\ UNCHANGED <<live, inst, executed, late, result, changes>>

\* One step of diff_manifest, which never stops early.
diff_step ==
    /\ pass.pc = "diff" /\ pass.k \in Steps
    /\ LET kind == Manifest[pass.k]
       IN \/ /\ kind \in Registered
             /\ pass' = [pass EXCEPT !.k = @ + 1,
                           !.drifted = @ \/ (kind \in Comparable /\ live[pass.k] # "desired")]
             /\ unseen' = unseen \ {pass.k}
             /\ UNCHANGED faults
          \/ /\ IF kind \in Registered THEN kind \in Comparable /\ Fails ELSE UNCHANGED faults
             /\ pass' = [pass EXCEPT !.k = @ + 1, !.unknown = TRUE]
             /\ UNCHANGED unseen
    /\ UNCHANGED <<live, inst, executed, late, result, changes>>

\* Mutant: the new status is computed but not assigned.
refresh_drift_unset ==
    /\ pass.pc = "diff" /\ pass.k \notin Steps
    /\ pass' = [Idle EXCEPT !.pc = "decide"]
    /\ UNCHANGED <<live, inst, unseen, executed, late, result, faults, changes>>

\* _refresh_drift with the aggregate; a pass whose /diff call fails ends the
\* same way as one that could not check a step.
refresh_drift ==
    /\ pass.pc = "diff" /\ pass.k \notin Steps
    /\ \/ /\ IF pass.unknown THEN UNCHANGED faults ELSE Fails
          /\ UNCHANGED inst
          /\ unseen' = {k \in Steps : live[k] # "desired"}
       \/ /\ ~pass.unknown
          /\ inst' = [inst EXCEPT !.drift = IF pass.drifted THEN "drifted" ELSE "in_sync"]
          /\ UNCHANGED <<unseen, faults>>
    /\ pass' = [Idle EXCEPT !.pc = "decide"]
    /\ UNCHANGED <<live, executed, late, result, changes>>

\* Someone changes a resource behind the platform's back.
out_of_band ==
    /\ changes < MaxChanges
    /\ changes' = changes + 1
    /\ \E k \in Steps :
         /\ live[k] = "desired"
         /\ live' = [live EXCEPT ![k] = "changed"]
         /\ unseen' = unseen \cup {k}
    /\ UNCHANGED <<inst, pass, executed, late, result, faults>>

Init ==
    /\ live = [k \in Steps |-> "absent"]
    /\ inst = [op |-> "in progress", drift |-> "reconciling", failedStep |-> Nil]
    /\ pass = [Idle EXCEPT !.pc = "apply"]
    /\ unseen = {} /\ executed = {}
    /\ late = [n \in 1..MaxFaults |-> Ended]
    /\ result = [failed |-> Nil, applied |-> {}]
    /\ faults = 0 /\ changes = 0

Reconcile ==
    \/ reconcile_instance \/ begin_apply \/ skip_reconcile
    \/ apply_step \/ give_up \/ mark_operation_succeeded
    \/ diff_step \/ refresh_drift

Next == Reconcile \/ out_of_band \/ \E n \in 1..MaxFaults : late_step(n)

Spec == Init /\ [][Next]_vars

\* The reconciler runs on a timer for as long as the broker does.
FairSpec == Spec /\ WF_vars(Reconcile)

-----------------------------------------------------------------------------
(* Properties.                                                               *)

\* The shape of the state.
TypeOK ==
    /\ live \in [Steps -> {"absent", "desired", "changed"}]
    /\ inst \in Instance
    /\ pass \in Pass
    /\ unseen \subseteq Steps /\ executed \subseteq Steps
    /\ late \in [1..MaxFaults -> Apply]
    /\ result \in [failed : Steps \cup {Nil}, applied : SUBSET Steps]
    /\ faults \in 0..MaxFaults /\ changes \in 0..MaxChanges

\* An apply that fails has carried out exactly the steps before the one it
\* stopped at (dispatch.py:40-41), whether the broker still waits for it or has
\* started another one meanwhile.
StopsAtFailure == result.failed \in Steps => result.applied = 1..(result.failed - 1)

\* An instance reported in sync is in sync: a resource the reconciler can
\* compare differs only if it was changed after the last apply, or the last
\* pass that could check every step, looked at it.
InSyncIsTrue ==
    pass.pc = "idle" /\ inst.op = "succeeded" /\ inst.drift = "in_sync" =>
       \A k \in Steps : Manifest[k] \in Comparable /\ live[k] # "desired" => k \in unseen

\* An out-of-band change is detected or repaired.
ChangeDetected ==
    \A k \in Steps : live[k] = "changed" ~> (inst.drift # "in_sync" \/ live[k] = "desired")

\* Once changes and faults stop, the backends come to hold what is desired, and
\* the instance says so.
Reconverges == <>[](inst.drift = "in_sync" /\ \A k \in Steps : live[k] = "desired")

\* A difference that was confirmed by a comparison becomes the drift status.
ConfirmedIsDrifted ==
    [][ pass.pc = "diff" /\ pass'.pc = "decide" /\ faults' = faults /\ pass.drifted
          => inst'.drift = "drifted" ]_vars

\* A failed apply records the step it failed at.
FailedStepRecorded ==
    [][ inst' # inst /\ result' # result => inst'.failedStep = result'.failed ]_vars
=============================================================================
