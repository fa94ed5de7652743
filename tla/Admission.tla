----------------------------- MODULE Admission ------------------------------
(***************************************************************************)
(* The gates of provision, update and deprovision (apps/broker/app/        *)
(* main.py): RBAC, quota, policy and obligations, in that order, and the   *)
(* usage record at the end of a provision that the quota gate of later     *)
(* ones counts (libs/common/sovereign/quotas, usage_store.py, policy.py).  *)
(* The requests of one tenant run in several broker processes; every call  *)
(* to a store or service is a step.                                        *)
(***************************************************************************)
EXTENDS Integers, FiniteSets, Sequences, Functions

CONSTANTS
    Workers,       \* requests in progress at the same time
    ServiceTypes,
    PackOf,        \* the pack of a service type in the catalog, Nil if none
    MaxInstances,  \* max_instances of the tenant's quotas, by scope; a scope
                   \* outside its domain has no quota
    Window,        \* records one usage query returns, 1000 in the code
    Obligations,
    Decisions,     \* decisions OPA may return: [allow, obligations]
    Handlers,      \* obligations that are honoured: OBLIGATION_HANDLERS has a handler, and it
                   \* neither returns False nor raises
    MaxRecords,    \* bound: usage records of the tenant
    Nil

Scopes == (ServiceTypes \cup {PackOf[s] : s \in ServiceTypes}) \ {Nil}

ASSUME AdmissionAssumption ==
    /\ IsFiniteSet(Workers)
    /\ Nil \notin ServiceTypes
    /\ DOMAIN PackOf = ServiceTypes
    /\ \A s \in ServiceTypes : PackOf[s] \notin ServiceTypes
    /\ DOMAIN MaxInstances \subseteq Scopes
    /\ \A scope \in DOMAIN MaxInstances : MaxInstances[scope] \in Nat
    /\ Decisions \subseteq [allow : BOOLEAN, obligations : Seq(Obligations)]
    /\ Window \in Nat /\ MaxRecords \in Nat

VARIABLES
    usage,    \* the tenant's usage records, oldest first: their service types
    request,  \* per worker [kind, pc, service, reasons, due, todo]
    trail     \* per worker, the audit events of its request: <<action, about>>

vars == <<usage, request, trail>>

PCs == {"idle", "rbac", "quota", "pack", "policy", "obligations", "put", "apply",
        "meter", "done", "teardown", "gone", "refused", "error"}

\* The gate after RBAC: only a provision has a quota, and a deprovision has no
\* other gate.
NextGate == [provision |-> "quota", update |-> "policy", deprovision |-> "teardown"]
Kinds == DOMAIN NextGate

\* reasons: the scopes found at their cap; due: the obligations of the decision;
\* todo: those of them still to enforce.
Request == [kind : Kinds, pc : PCs, service : ServiceTypes \cup {Nil},
            reasons : SUBSET Scopes, due : Seq(Obligations), todo : Seq(Obligations)]

Idle == [kind |-> "provision", pc |-> "idle", service |-> Nil, reasons |-> {},
         due |-> <<>>, todo |-> <<>>]

Goto(w, r) == request' = [request EXCEPT ![w] = r]

emit(w, action, about) == trail' = [trail EXCEPT ![w] = @ \cup {<<action, about>>}]

-----------------------------------------------------------------------------
(* The quota enforcer.                                                       *)

InScope(s, scope) == s = scope \/ PackOf[s] = scope

Used(records, scope) == Cardinality({k \in DOMAIN records : InScope(records[k], scope)})

\* UsageStore.query: the most recent Window records.
query_usage(records) ==
    SubSeq(records, IF Len(records) <= Window THEN 1 ELSE Len(records) - Window + 1,
           Len(records))

\* Mutant: > for >=.
at_limit_late(records, scope) ==
    scope \in DOMAIN MaxInstances /\ Used(query_usage(records), scope) > MaxInstances[scope]

\* QuotaUsageEntry.at_limit of what _compute_usage counts.
at_limit(records, scope) ==
    scope \in DOMAIN MaxInstances /\ Used(query_usage(records), scope) >= MaxInstances[scope]

-----------------------------------------------------------------------------
(* The steps of a request.                                                   *)

\* A caller that is already trusted (basic auth) skips RBAC.  An update or a
\* deprovision is of an instance there is; no gate looks at more of it than its
\* service type.
begin(w, kind, s) ==
    /\ request[w].pc \in {"idle", "done", "gone", "refused", "error"}
    /\ trail' = [trail EXCEPT ![w] = {}]
    /\ \E pc \in {"rbac", NextGate[kind]} :
         Goto(w, [Idle EXCEPT !.kind = kind, !.pc = pc, !.service = s])
    /\ UNCHANGED usage

enforce_rbac(w) ==
    /\ request[w].pc = "rbac"
    /\ \/ /\ Goto(w, [request[w] EXCEPT !.pc = NextGate[request[w].kind]])
          /\ UNCHANGED trail
       \/ /\ Goto(w, [request[w] EXCEPT !.pc = "refused"])
          /\ emit(w, "rbac.denied", request[w].service)
    /\ UNCHANGED usage

\* A store that cannot be read or written ends the request with an error: in a
\* gate nothing was admitted yet, after the render nothing is metered.  Nothing is
\* left of it, and its worker is free.
StoreError(w) ==
    /\ request[w].pc \in {"quota", "pack", "put", "apply", "meter", "teardown"}
    /\ Goto(w, Idle)
    /\ trail' = [trail EXCEPT ![w] = {}]
    /\ UNCHANGED usage

\* check_provision first counts the service type ...
check_service(w) ==
    /\ request[w].pc = "quota"
    /\ Goto(w, [request[w] EXCEPT
                  !.pc = "pack",
                  !.reasons = {scope \in {request[w].service} : at_limit(usage, scope)}])
    /\ UNCHANGED <<usage, trail>>

\* ... then, in a second query, its pack; either at its cap refuses.
check_pack(w) ==
    /\ request[w].pc = "pack"
    /\ LET pack == PackOf[request[w].service]
           reasons == request[w].reasons \cup {scope \in {pack} \ {Nil} : at_limit(usage, scope)}
       IN IF reasons = {}
          THEN Goto(w, [request[w] EXCEPT !.pc = "policy"]) /\ UNCHANGED trail
          ELSE /\ Goto(w, [request[w] EXCEPT !.pc = "refused", !.reasons = reasons])
               /\ emit(w, "quota.exceeded", request[w].service)
    /\ UNCHANGED usage

\* PolicyClient.evaluate fails closed: an OPA that cannot be reached, or whose
\* answer is an error, malformed or undefined (Nil), denies.
evaluate(answer) == IF answer = Nil THEN [allow |-> FALSE, obligations |-> <<>>] ELSE answer

\* Mutant: the evidence is left for after the refusal is raised.
evaluate_policy_first(w) ==
    /\ request[w].pc = "policy"
    /\ \E answer \in Decisions \cup {Nil} :
         LET decision == evaluate(answer)
         IN \/ /\ decision.allow
               /\ emit(w, "policy.evaluated", "allow")
               /\ Goto(w, [request[w] EXCEPT !.pc = "obligations",
                                             !.due = decision.obligations,
                                             !.todo = decision.obligations])
            \/ /\ ~decision.allow
               /\ Goto(w, [request[w] EXCEPT !.pc = "refused"])
               /\ UNCHANGED trail
    /\ UNCHANGED usage

\* The decision is audited, whichever it is; a deny refuses.
evaluate_policy(w) ==
    /\ request[w].pc = "policy"
    /\ \E answer \in Decisions \cup {Nil} :
         LET decision == evaluate(answer)
         IN \/ /\ decision.allow
               /\ emit(w, "policy.evaluated", "allow")
               /\ Goto(w, [request[w] EXCEPT !.pc = "obligations",
                                             !.due = decision.obligations,
                                             !.todo = decision.obligations])
            \/ /\ ~decision.allow
               /\ emit(w, "policy.evaluated", "deny")
               /\ Goto(w, [request[w] EXCEPT !.pc = "refused"])
    /\ UNCHANGED usage

\* Mutant: an obligation that is not honoured is passed over.
enforce_obligations_open(w) ==
    /\ request[w].pc = "obligations"
    /\ IF request[w].todo = <<>>
       THEN Goto(w, [request[w] EXCEPT !.pc = "put"]) /\ UNCHANGED trail
       ELSE /\ Goto(w, [request[w] EXCEPT !.todo = Tail(@)])
            /\ IF Head(request[w].todo) \in Handlers
               THEN emit(w, "obligation.enforced", Head(request[w].todo))
               ELSE UNCHANGED trail
    /\ UNCHANGED usage

\* One obligation after the other; the first that is not honoured refuses.
enforce_obligations(w) ==
    /\ request[w].pc = "obligations"
    /\ \/ /\ request[w].todo = <<>>
          /\ Goto(w, [request[w] EXCEPT !.pc = "put"])
          /\ UNCHANGED trail
       \/ /\ request[w].todo # <<>>
          /\ LET ob == Head(request[w].todo)
             IN \/ /\ ob \in Handlers
                   /\ Goto(w, [request[w] EXCEPT !.todo = Tail(@)])
                   /\ emit(w, "obligation.enforced", ob)
                \/ /\ ob \notin Handlers
                   /\ Goto(w, [request[w] EXCEPT !.pc = "refused"])
                   /\ emit(w, "obligation.failed", ob)
    /\ UNCHANGED usage

\* The instance is stored and rendered (module Broker); a failed render is
\* audited and never metered.
put_instance(w) ==
    /\ request[w].pc = "put"
    /\ Goto(w, [request[w] EXCEPT !.pc = "apply"])
    /\ UNCHANGED <<usage, trail>>

finalize_provision(w) ==
    /\ request[w].pc = "apply" /\ request[w].kind = "provision"
    /\ \/ Goto(w, [request[w] EXCEPT !.pc = "meter"]) /\ UNCHANGED trail
       \/ /\ Goto(w, [request[w] EXCEPT !.pc = "error"])
          /\ emit(w, "instance.provision_failed", request[w].service)
    /\ UNCHANGED usage

\* The end of an update: what fails is not audited, and nothing is metered.
finish_update(w) ==
    /\ request[w].pc = "apply" /\ request[w].kind = "update"
    /\ \/ /\ Goto(w, [request[w] EXCEPT !.pc = "done"])
          /\ emit(w, "instance.updated", request[w].service)
       \/ /\ Goto(w, [request[w] EXCEPT !.pc = "error"])
          /\ UNCHANGED trail
    /\ UNCHANGED usage

\* The usage records of what is deprovisioned stay.
delete_instance(w) ==
    /\ request[w].pc = "teardown"
    /\ Goto(w, [request[w] EXCEPT !.pc = "gone"])
    /\ emit(w, "instance.deprovisioned", request[w].service)
    /\ UNCHANGED usage

\* Best effort: the record is written or it is not.
emit_usage(w) ==
    /\ request[w].pc = "meter"
    /\ \/ /\ Len(usage) < MaxRecords
          /\ usage' = Append(usage, request[w].service)
       \/ UNCHANGED usage
    /\ emit(w, "instance.provisioned", request[w].service)
    /\ Goto(w, [request[w] EXCEPT !.pc = "done"])

Init ==
    /\ usage = <<>>
    /\ request = [w \in Workers |-> Idle]
    /\ trail = [w \in Workers |-> {}]

Step(w) ==
    \/ \E kind \in Kinds, s \in ServiceTypes : begin(w, kind, s)
    \/ enforce_rbac(w) \/ StoreError(w) \/ check_service(w) \/ check_pack(w)
    \/ evaluate_policy(w) \/ enforce_obligations(w)
    \/ put_instance(w) \/ finalize_provision(w) \/ finish_update(w) \/ emit_usage(w)
    \/ delete_instance(w)

Next == \E w \in Workers : Step(w)

Spec == Init /\ [][Next]_vars

-----------------------------------------------------------------------------
(* Properties.                                                               *)

\* The shape of the state: only service types of the catalog are metered, and only
\* provisions.
TypeOK ==
    /\ usage \in Seq(ServiceTypes) /\ Len(usage) <= MaxRecords
    /\ request \in [Workers -> Request]
    /\ \A w \in Workers :
         /\ request[w].pc # "idle" => request[w].service \in ServiceTypes
         /\ request[w].pc \in {"quota", "pack", "meter"} => request[w].kind = "provision"

Admitted == {"put", "apply", "meter", "done"}

Denials(w) ==
    {e \in trail[w] : \/ e[1] \in {"rbac.denied", "quota.exceeded", "obligation.failed"}
                     \/ e = <<"policy.evaluated", "deny">>}

\* Quota check and usage record are far apart, so concurrent requests overshoot
\* a cap; but by no more than the requests in progress, less one.
OvershootBounded ==
    \A scope \in DOMAIN MaxInstances :
       Used(usage, scope) <= IF MaxInstances[scope] = 0 THEN 0
                             ELSE MaxInstances[scope] + Cardinality(Workers) - 1

\* An instance is stored, by a provision or an update, only after the policy
\* allowed it and every obligation of that decision was enforced, and no gate has
\* refused it; nor is one torn down that was refused.
AdmittedIsCleared ==
    \A w \in Workers :
       /\ request[w].pc \in Admitted \cup {"teardown", "gone"} => Denials(w) = {}
       /\ request[w].pc \in Admitted =>
            /\ <<"policy.evaluated", "allow">> \in trail[w]
            /\ \A ob \in Range(request[w].due) : <<"obligation.enforced", ob>> \in trail[w]

\* A refused request leaves exactly one denial in the audit trail.
RefusalAudited ==
    \A w \in Workers : request[w].pc = "refused" => Cardinality(Denials(w)) = 1

\* A tenant at its cap is refused, whatever else is in its usage records.
AtCapRejects ==
    [][ \A w \in Workers : request[w].pc = "quota" /\ request'[w].pc = "pack" =>
          LET s == request[w].service
          IN s \in DOMAIN MaxInstances /\ Used(usage, s) >= MaxInstances[s]
               => s \in request'[w].reasons ]_vars
=============================================================================
