-------------------------- MODULE AdmissionProofs ---------------------------
(***************************************************************************)
(* Proofs about Admission: how far concurrent provisions can overshoot a   *)
(* quota, and what the audit trail of a request says.                      *)
(***************************************************************************)
EXTENDS Admission, FiniteSetTheorems, SequenceTheorems, TLAPS

\* Where a provision has passed every quota check.
Passed == {"policy", "obligations", "put", "apply", "meter"}

\* Requests that have passed the check of a scope and are not metered yet: each
\* may still add one record to it.
Holds(r, scope) ==
    \/ r.kind = "provision" /\ r.pc \in Passed /\ InScope(r.service, scope)
    \/ r.pc = "pack" /\ r.service = scope /\ scope \notin r.reasons

Holders(scope) == {w \in Workers : Holds(request[w], scope)}

Room(scope) ==
    IF MaxInstances[scope] = 0 THEN 0 ELSE MaxInstances[scope] + Cardinality(Workers) - 1

\* The strengthening of OvershootBounded: records plus requests that may still
\* write one stay within the bound.
CapInv(scope) == Used(usage, scope) + Cardinality(Holders(scope)) <= Room(scope)

-----------------------------------------------------------------------------


\* A request that is not idle and has its parts.
Live == {r \in Request : /\ r.pc # "idle" => r.service \in ServiceTypes
                         /\ r.pc \in {"quota", "pack", "meter"} => r.kind = "provision"}

\* One worker's request moves on; the others keep their shape.
LEMMA RequestMoves ==
    ASSUME TypeOK, NEW w \in Workers, NEW r \in Live, Goto(w, r)
    PROVE  /\ request' \in [Workers -> Request]
           /\ \A v \in Workers : request'[v] \in Live
  BY Zenon DEF TypeOK, Live, Goto

\* Every step of provision keeps the shape of the state.
LEMMA TypeStep ==
    ASSUME TypeOK, NEW w \in Workers, Step(w)
    PROVE  TypeOK'
  <1> DEFINE q == request[w]
  <1>0. /\ q \in Live /\ q \in Request
        /\ usage \in Seq(ServiceTypes) /\ Len(usage) <= MaxRecords
    BY Zenon DEF TypeOK, Live
  <1>1. ASSUME NEW r \in Live, Goto(w, r), UNCHANGED usage PROVE TypeOK'
    BY <1>0, <1>1, RequestMoves, Zenon DEF TypeOK, Live
  <1>2. ASSUME q.pc # "idle", NEW pc \in PCs,
               pc \in {"quota", "pack", "meter"} => q.kind = "provision"
        PROVE  [q EXCEPT !.pc = pc] \in Live
    BY <1>0, <1>2, Zenon DEF Request, Live
  <1>3. ASSUME NEW kind \in Kinds, NEW s \in ServiceTypes, begin(w, kind, s) PROVE TypeOK'
    <2>1. ASSUME NEW pc \in {"rbac", NextGate[kind]}
          PROVE  [Idle EXCEPT !.kind = kind, !.pc = pc, !.service = s] \in Live
      <3> DEFINE r == [Idle EXCEPT !.kind = kind, !.pc = pc, !.service = s]
      <3>1. r.pc = pc /\ r.kind = kind /\ r.service = s
        BY Zenon DEF Idle
      <3>2. /\ pc \in PCs /\ pc # "idle"
            /\ pc \in {"quota", "pack", "meter"} => kind = "provision"
        BY DEF Kinds, NextGate, PCs
      <3>3. Idle \in Request
        BY DEF Idle, Request, PCs, Kinds, NextGate
      <3>4. r \in Request
        BY <3>2, <3>3, Zenon DEF Request
      <3>5. r \in Live
        <4> HIDE DEF r
        <4> QED BY <3>1, <3>2, <3>4, Zenon DEF Live
      <3> QED BY <3>5, Zenon
    <2> QED BY <1>1, <1>3, <2>1, Zenon DEF begin
  <1>4. CASE enforce_rbac(w)
    <2>1. NextGate[q.kind] \in PCs /\ (NextGate[q.kind] \in {"quota", "pack", "meter"}
                                        => q.kind = "provision")
      BY <1>0 DEF Request, Kinds, NextGate, PCs
    <2> QED BY <1>1, <1>2, <1>4, <2>1, Zenon DEF enforce_rbac, PCs
  <1>5. CASE \/ StoreError(w) \/ put_instance(w) \/ finalize_provision(w)
             \/ finish_update(w) \/ delete_instance(w)
    <2>1. Idle \in Live
      BY DEF Idle, Request, PCs, Kinds, NextGate, Live
    <2> QED BY <1>1, <1>2, <1>5, <2>1, Zenon
            DEF StoreError, put_instance, finalize_provision, finish_update, delete_instance,
                PCs
  <1>6. CASE check_service(w)
    <2> DEFINE R == {scope \in {q.service} : at_limit(usage, scope)}
    <2>1. R \in SUBSET Scopes
      BY <1>0, <1>6, AdmissionAssumption, Zenon DEF check_service, Scopes, Live
    <2> HIDE DEF R
    <2>2. [q EXCEPT !.pc = "pack", !.reasons = R] \in Live
      BY <1>0, <1>6, <2>1, Zenon DEF check_service, Request, PCs, Live
    <2>3. Goto(w, [q EXCEPT !.pc = "pack", !.reasons = R]) /\ UNCHANGED usage
      BY <1>6, Zenon DEF check_service, R
    <2> QED BY <1>1, <2>2, <2>3, Zenon
  <1>7. CASE check_pack(w)
    <2> DEFINE R == q.reasons
                      \cup {scope \in {PackOf[q.service]} \ {Nil} : at_limit(usage, scope)}
    <2>1. R \in SUBSET Scopes
      BY <1>0, <1>7, Zenon DEF check_pack, Scopes, Request, Live
    <2> HIDE DEF R
    <2>2. [q EXCEPT !.pc = "refused", !.reasons = R] \in Live
      BY <1>0, <1>7, <2>1, Zenon DEF check_pack, Request, PCs, Live
    <2>3. /\ \/ Goto(w, [q EXCEPT !.pc = "refused", !.reasons = R])
             \/ Goto(w, [q EXCEPT !.pc = "policy"])
          /\ UNCHANGED usage /\ q.pc = "pack"
      BY <1>7, Zenon DEF check_pack, R
    <2> QED BY <1>1, <1>2, <2>2, <2>3, Zenon DEF PCs
  <1>8. CASE evaluate_policy(w)
    <2>1. ASSUME NEW obs \in Seq(Obligations)
          PROVE [q EXCEPT !.pc = "obligations", !.due = obs, !.todo = obs] \in Live
      BY <1>0, <1>8, Zenon DEF evaluate_policy, Request, PCs, Live
    <2>2. ASSUME NEW answer \in Decisions \cup {Nil}
          PROVE  evaluate(answer).obligations \in Seq(Obligations)
      BY AdmissionAssumption DEF evaluate
    <2> QED BY <1>1, <1>2, <1>8, <2>1, <2>2, Zenon DEF evaluate_policy, PCs
  <1>9. CASE enforce_obligations(w)
    <2>1. q.todo # <<>> => [q EXCEPT !.todo = Tail(@)] \in Live
      <3>1. q.todo # <<>> => Tail(q.todo) \in Seq(Obligations)
        BY <1>0 DEF Request
      <3> QED BY <1>0, <3>1, Zenon DEF Request, Live
    <2> QED BY <1>1, <1>2, <1>9, <2>1, Zenon DEF enforce_obligations, PCs
  <1>10. CASE emit_usage(w)
    <2>1. q.service \in ServiceTypes /\ q.pc = "meter" /\ q.kind = "provision"
      BY <1>0, <1>10, Zenon DEF emit_usage, Live
    <2>2. /\ usage' \in Seq(ServiceTypes) /\ Len(usage') <= MaxRecords
          /\ Goto(w, [q EXCEPT !.pc = "done"])
      BY <1>0, <1>10, <2>1, AdmissionAssumption DEF emit_usage
    <2> QED BY <1>2, <2>1, <2>2, RequestMoves, Zenon DEF TypeOK, PCs, Live
  <1> QED BY <1>3, <1>4, <1>5, <1>6, <1>7, <1>8, <1>9, <1>10, Zenon DEF Step

-----------------------------------------------------------------------------
(* The quota bound.                                                          *)

\* Holders are workers, and finitely many.
LEMMA HoldersFinite ==
    ASSUME NEW scope
    PROVE  /\ IsFiniteSet(Holders(scope)) /\ Cardinality(Holders(scope)) \in Nat
           /\ Cardinality(Holders(scope)) <= Cardinality(Workers)
           /\ Cardinality(Workers) \in Nat
  <1>1. Holders(scope) \in SUBSET Workers
    BY Zenon DEF Holders
  <1> QED BY <1>1, AdmissionAssumption, FS_Subset, FS_CardinalityType, Zenon

\* The same of the next state.
LEMMA HoldersFinitePrimed ==
    ASSUME NEW scope
    PROVE  /\ IsFiniteSet(Holders(scope)') /\ Cardinality(Holders(scope)') \in Nat
           /\ Cardinality(Holders(scope)') <= Cardinality(Workers)
  <1>1. Holders(scope)' \in SUBSET Workers
    BY Zenon DEF Holders
  <1> QED BY <1>1, AdmissionAssumption, FS_Subset, FS_CardinalityType, Zenon

\* The count of a scope is a number, and a new record adds at most one to it,
\* none when its service type is not in the scope.
LEMMA UsedCounts ==
    ASSUME NEW u \in Seq(ServiceTypes), NEW scope
    PROVE  /\ Used(u, scope) \in Nat
           /\ \A s \in ServiceTypes :
                Used(Append(u, s), scope) =
                  IF InScope(s, scope) THEN Used(u, scope) + 1 ELSE Used(u, scope)
  <1> DEFINE K(v) == {k \in DOMAIN v : InScope(v[k], scope)}
  <1>1. IsFiniteSet(K(u)) /\ K(u) \in SUBSET (1..Len(u))
    <2>1. IsFiniteSet(1..Len(u))
      BY FS_Interval
    <2>2. K(u) \in SUBSET (1..Len(u))
      OBVIOUS
    <2> HIDE DEF K
    <2> QED BY <2>1, <2>2, FS_Subset, Zenon
  <1>2. ASSUME NEW s \in ServiceTypes
        PROVE  K(Append(u, s)) = IF InScope(s, scope) THEN K(u) \cup {Len(u) + 1} ELSE K(u)
    <2>1. /\ DOMAIN Append(u, s) = 1..(Len(u) + 1) /\ DOMAIN u = 1..Len(u)
          /\ \A k \in 1..Len(u) : Append(u, s)[k] = u[k]
          /\ Append(u, s)[Len(u) + 1] = s
          /\ Len(u) \in Nat
      OBVIOUS
    <2>2. 1..(Len(u) + 1) = (1..Len(u)) \cup {Len(u) + 1} /\ Len(u) + 1 \notin 1..Len(u)
      BY <2>1
    <2> QED BY <2>1, <2>2, Zenon
  <1>3. Len(u) + 1 \notin K(u)
    BY <1>1
  <1> HIDE DEF K
  <1>4. ASSUME NEW s \in ServiceTypes
        PROVE  Cardinality(K(Append(u, s))) =
                 IF InScope(s, scope) THEN Cardinality(K(u)) + 1 ELSE Cardinality(K(u))
    BY <1>1, <1>2, <1>3, FS_AddElement
  <1>5. \A v : Used(v, scope) = Cardinality(K(v))
    BY Zenon DEF Used, K
  <1> QED BY <1>1, <1>4, <1>5, FS_CardinalityType, Zenon

\* The bound is a number, and there is room for every worker as long as the
\* count is below the cap.
LEMMA RoomBelowCap ==
    ASSUME NEW scope \in DOMAIN MaxInstances, NEW n \in Nat
    PROVE  /\ Room(scope) \in Int
           /\ n < MaxInstances[scope] => n + Cardinality(Workers) <= Room(scope)
  <1>1. Cardinality(Workers) \in Nat /\ MaxInstances[scope] \in Nat
    BY AdmissionAssumption, FS_CardinalityType, Zenon
  <1> QED BY <1>1 DEF Room

\* With at most Window records, the enforcer counts them all.
LEMMA LimitCountsAll ==
    ASSUME TypeOK, MaxRecords <= Window, NEW scope \in DOMAIN MaxInstances,
           ~at_limit(usage, scope)
    PROVE  Used(usage, scope) < MaxInstances[scope]
  <1>1. usage \in Seq(ServiceTypes) /\ Len(usage) <= Window
    BY AdmissionAssumption DEF TypeOK
  <1>2. query_usage(usage) = SubSeq(usage, 1, Len(usage))
    BY <1>1, Zenon DEF query_usage
  <1>3. SubSeq(usage, 1, Len(usage)) = usage
    BY <1>1
  <1>4. Used(usage, scope) \in Nat /\ MaxInstances[scope] \in Nat
    BY <1>1, UsedCounts, AdmissionAssumption, Zenon
  <1>5. query_usage(usage) = usage
    BY <1>2, <1>3, Zenon
  <1> QED BY <1>4, <1>5 DEF at_limit

\* A step that writes no record and leaves no new holder of the scope keeps the
\* bound.
LEMMA QuietStep ==
    ASSUME NEW scope \in DOMAIN MaxInstances, TypeOK, CapInv(scope),
           UNCHANGED usage, Holders(scope)' \subseteq Holders(scope)
    PROVE  CapInv(scope)'
  <1>1. Cardinality(Holders(scope)') <= Cardinality(Holders(scope))
    BY HoldersFinite, FS_Subset, Zenon
  <1>2. Used(usage, scope)' = Used(usage, scope) /\ Room(scope)' = Room(scope)
    BY Zenon DEF Used, Room
  <1>3. Used(usage, scope) \in Nat /\ Room(scope) \in Int
    BY UsedCounts, RoomBelowCap, Zenon DEF TypeOK
  <1> HIDE DEF Used, Room
  <1> QED BY <1>1, <1>2, <1>3, HoldersFinite, HoldersFinitePrimed DEF CapInv

\* A step that writes no record keeps the bound while the scope is below its cap.
LEMMA ClearedStep ==
    ASSUME NEW scope \in DOMAIN MaxInstances, TypeOK, UNCHANGED usage,
           Used(usage, scope) < MaxInstances[scope]
    PROVE  CapInv(scope)'
  <1>1. Used(usage, scope)' = Used(usage, scope) /\ Room(scope)' = Room(scope)
    BY Zenon DEF Used, Room
  <1>2. Used(usage, scope) \in Nat
    BY UsedCounts, Zenon DEF TypeOK
  <1>3. Room(scope) \in Int /\ Used(usage, scope) + Cardinality(Workers) <= Room(scope)
    BY <1>2, RoomBelowCap, Zenon
  <1> QED BY <1>1, <1>2, <1>3, HoldersFinite, HoldersFinitePrimed DEF CapInv

\* Who holds a scope after one worker's step.
LEMMA OthersHold ==
    ASSUME NEW scope, TypeOK, NEW w \in Workers, NEW r, Goto(w, r)
    PROVE  /\ Holders(scope)' \ {w} = Holders(scope) \ {w}
           /\ w \in Holders(scope)' <=> Holds(r, scope)
           /\ w \in Holders(scope) <=> Holds(request[w], scope)
  <1>1. /\ request'[w] = r
        /\ \A v \in Workers : v # w => request'[v] = request[v]
    BY Zenon DEF Goto, TypeOK
  <1> QED BY <1>1, Zenon DEF Holders

\* A request that does not come to hold the scope by its step keeps the bound.
LEMMA NotHolding ==
    ASSUME NEW scope \in DOMAIN MaxInstances, TypeOK, CapInv(scope), UNCHANGED usage,
           NEW w \in Workers, NEW r, Goto(w, r),
           Holds(r, scope) => Holds(request[w], scope)
    PROVE  CapInv(scope)'
  <1>1. Holders(scope)' \subseteq Holders(scope)
    BY OthersHold, Zenon
  <1> QED BY <1>1, QuietStep, Zenon

\* Metering turns a holder into a record.
LEMMA MeterStep ==
    ASSUME NEW scope \in DOMAIN MaxInstances, TypeOK, CapInv(scope),
           NEW w \in Workers, emit_usage(w)
    PROVE  CapInv(scope)'
  <1> DEFINE s == request[w].service
             r == [request[w] EXCEPT !.pc = "done"]
  <1>1. /\ request[w] \in Request /\ request[w].pc = "meter" /\ s \in ServiceTypes
        /\ request[w].kind = "provision"
    BY Zenon DEF emit_usage, TypeOK
  <1>2. Goto(w, r) /\ r.pc = "done"
    BY <1>1, Zenon DEF emit_usage, Request
  <1> HIDE DEF r
  <1>3. ~Holds(r, scope)
    BY <1>2, Zenon DEF Holds, Passed
  <1>4. CASE UNCHANGED usage
    BY <1>2, <1>3, <1>4, NotHolding, Zenon
  <1>5. CASE usage' = Append(usage, s)
    <2>1. /\ Holders(scope)' = Holders(scope) \ {w}
          /\ w \in Holders(scope) <=> Holds(request[w], scope)
      BY <1>2, <1>3, OthersHold, ZenonT(30)
    <2>2. InScope(s, scope) => w \in Holders(scope)
      BY <1>1, <2>1, Zenon DEF Holds, Passed
    <2>3. Cardinality(Holders(scope)') =
            IF w \in Holders(scope) THEN Cardinality(Holders(scope)) - 1
            ELSE Cardinality(Holders(scope))
      BY <2>1, HoldersFinite, FS_RemoveElement, Zenon
    <2>4. Used(usage', scope) =
            IF InScope(s, scope) THEN Used(usage, scope) + 1 ELSE Used(usage, scope)
      BY <1>1, <1>5, UsedCounts, Zenon DEF TypeOK
    <2>5. Used(usage, scope) \in Nat /\ Room(scope) \in Int /\ Room(scope)' = Room(scope)
      BY UsedCounts, RoomBelowCap, Zenon DEF TypeOK, Room
    <2>6. Used(usage, scope)' = Used(usage', scope)
      BY Zenon DEF Used
    <2> QED BY <2>2, <2>3, <2>4, <2>5, <2>6, HoldersFinite DEF CapInv
  <1> QED BY <1>4, <1>5, Zenon DEF emit_usage

\* The two checks admit only below the cap; every other step before metering
\* leaves the holders as they are or removes one.
LEMMA CapStep ==
    ASSUME NEW scope \in DOMAIN MaxInstances, TypeOK, CapInv(scope), MaxRecords <= Window,
           NEW w \in Workers, Step(w)
    PROVE  CapInv(scope)'
  <1>0. /\ request[w] \in Request
        /\ request[w].pc # "idle" => request[w].service \in ServiceTypes
    BY Zenon DEF TypeOK
  <1>1. ASSUME NEW kind \in Kinds, NEW s \in ServiceTypes, begin(w, kind, s)
        PROVE  CapInv(scope)'
    <2> DEFINE r(pc) == [Idle EXCEPT !.kind = kind, !.pc = pc, !.service = s]
    <2>1. PICK pc \in {"rbac", NextGate[kind]} : Goto(w, r(pc))
      BY <1>1, Zenon DEF begin
    <2>2. r(pc).pc = pc /\ r(pc).kind = kind
      BY Zenon DEF Idle
    <2>3. kind = "provision" => pc \notin Passed
      BY DEF Kinds, NextGate, Passed
    <2>4. pc # "pack"
      BY DEF Kinds, NextGate
    <2> HIDE DEF r
    <2>5. ~Holds(r(pc), scope)
      BY <2>2, <2>3, <2>4, Zenon DEF Holds
    <2> QED BY <1>1, <2>1, <2>5, NotHolding, Zenon DEF begin
  <1>2. ASSUME NEW pc
        PROVE  /\ [request[w] EXCEPT !.pc = pc].pc = pc
               /\ [request[w] EXCEPT !.pc = pc].kind = request[w].kind
               /\ [request[w] EXCEPT !.pc = pc].service = request[w].service
    BY <1>0, Zenon DEF Request
  <1>3. ASSUME NEW pc, Goto(w, [request[w] EXCEPT !.pc = pc]), UNCHANGED usage,
               \/ pc \in Passed /\ (request[w].pc \in Passed \/ request[w].kind # "provision")
               \/ pc \notin Passed \cup {"pack"}
        PROVE  CapInv(scope)'
    <2>1. Holds([request[w] EXCEPT !.pc = pc], scope) => Holds(request[w], scope)
      BY <1>2, <1>3, Zenon DEF Holds, Passed
    <2> QED BY <1>3, <2>1, NotHolding, Zenon
  <1>4. CASE \/ enforce_rbac(w) \/ StoreError(w) \/ put_instance(w) \/ finalize_provision(w)
             \/ finish_update(w) \/ delete_instance(w)
    <2>1. CASE enforce_rbac(w)
      <3>1. NextGate[request[w].kind] \in {"quota", "policy", "teardown"}
            /\ (request[w].kind = "provision" => NextGate[request[w].kind] = "quota")
        BY <1>0 DEF Request, Kinds, NextGate
      <3> QED BY <1>3, <2>1, <3>1, Zenon DEF enforce_rbac, Passed
    <2>2. CASE StoreError(w)
      <3>1. ~Holds(Idle, scope)
        BY DEF Holds, Idle, Passed
      <3> QED BY <2>2, <3>1, NotHolding, Zenon DEF StoreError
    <2> QED BY <1>3, <1>4, <2>1, <2>2, Zenon
            DEF put_instance, finalize_provision, finish_update, delete_instance, Passed
  <1>5. CASE check_service(w)
    <2> DEFINE R == {c \in {request[w].service} : at_limit(usage, c)}
               r == [request[w] EXCEPT !.pc = "pack", !.reasons = R]
    <2>1. Goto(w, r) /\ UNCHANGED usage
      BY <1>5, Zenon DEF check_service
    <2>2. r.pc = "pack" /\ r.service = request[w].service /\ r.reasons = R
      BY <1>0, Zenon DEF Request
    <2>3. CASE scope = request[w].service /\ ~at_limit(usage, scope)
      BY <2>1, <2>3, LimitCountsAll, ClearedStep, Zenon
    <2>4. CASE ~(scope = request[w].service /\ ~at_limit(usage, scope))
      <3>1. ~Holds(r, scope)
        BY <2>2, <2>4, Zenon DEF Holds, Passed
      <3> QED BY <2>1, <3>1, NotHolding, Zenon
    <2> QED BY <2>3, <2>4, Zenon
  <1>6. CASE check_pack(w)
    <2> DEFINE p == PackOf[request[w].service]
               R == request[w].reasons \cup {c \in {p} \ {Nil} : at_limit(usage, c)}
    <2>1. request[w].pc = "pack" /\ request[w].service \in ServiceTypes /\ UNCHANGED usage
      BY <1>0, <1>6, Zenon DEF check_pack
    <2>2. CASE R # {}
      <3> DEFINE r == [request[w] EXCEPT !.pc = "refused", !.reasons = R]
      <3>1. Goto(w, r)
        BY <1>6, <2>2, Zenon DEF check_pack
      <3>2. r.pc = "refused"
        BY <1>0, Zenon DEF Request
      <3>3. ~Holds(r, scope)
        BY <3>2, Zenon DEF Holds, Passed
      <3> QED BY <2>1, <3>1, <3>3, NotHolding, Zenon
    <2>3. CASE R = {}
      <3> DEFINE r == [request[w] EXCEPT !.pc = "policy"]
      <3>1. Goto(w, r)
        BY <1>6, <2>3, Zenon DEF check_pack
      <3>2. CASE scope = p
        <4>1. ~at_limit(usage, scope)
          <5>1. scope # Nil
            BY AdmissionAssumption, Zenon DEF Scopes
          <5> QED BY <2>3, <3>2, <5>1, Zenon
        <4> QED BY <2>1, <4>1, LimitCountsAll, ClearedStep, Zenon
      <3>3. CASE scope # p
        <4>1. Holds(r, scope) => Holds(request[w], scope)
          <5>1. Holds(r, scope) => request[w].service = scope
            BY <1>2, <3>3, Zenon DEF Holds, Passed, InScope
          <5> QED BY <2>1, <2>3, <5>1, Zenon DEF Holds
        <4> QED BY <2>1, <3>1, <4>1, NotHolding, Zenon
      <3> QED BY <3>2, <3>3, Zenon
    <2> QED BY <2>2, <2>3, Zenon
  <1>7. CASE evaluate_policy(w)
    <2>1. request[w].pc = "policy" /\ UNCHANGED usage
      BY <1>7, Zenon DEF evaluate_policy
    <2>2. CASE Goto(w, [request[w] EXCEPT !.pc = "refused"])
      BY <1>3, <2>1, <2>2, Zenon DEF Passed
    <2>3. ASSUME NEW d, Goto(w, [request[w] EXCEPT !.pc = "obligations",
                                            !.due = d.obligations, !.todo = d.obligations])
          PROVE  CapInv(scope)'
      <3> DEFINE r == [request[w] EXCEPT !.pc = "obligations", !.due = d.obligations,
                                         !.todo = d.obligations]
      <3>1. /\ r.pc = "obligations" /\ r.service = request[w].service
            /\ r.kind = request[w].kind
        BY <1>0, Zenon DEF Request
      <3>2. Goto(w, r)
        BY <2>3, Zenon
      <3> HIDE DEF r
      <3>3. Holds(r, scope) => Holds(request[w], scope)
        BY <2>1, <3>1, Zenon DEF Holds, Passed
      <3> QED BY <2>1, <3>2, <3>3, NotHolding, Zenon
    <2> QED BY <1>7, <2>2, <2>3, Zenon DEF evaluate_policy
  <1>8. CASE enforce_obligations(w)
    <2>1. request[w].pc = "obligations" /\ UNCHANGED usage
      BY <1>8, Zenon DEF enforce_obligations
    <2>2. CASE \/ Goto(w, [request[w] EXCEPT !.pc = "refused"])
               \/ Goto(w, [request[w] EXCEPT !.pc = "put"])
      BY <1>3, <2>1, <2>2, Zenon DEF Passed
    <2>3. CASE Goto(w, [request[w] EXCEPT !.todo = Tail(@)])
      <3> DEFINE r == [request[w] EXCEPT !.todo = Tail(@)]
      <3>1. /\ r.pc = request[w].pc /\ r.service = request[w].service
            /\ r.reasons = request[w].reasons /\ r.kind = request[w].kind
        BY <1>0, Zenon DEF Request
      <3>2. Goto(w, r)
        BY <2>3, Zenon
      <3> HIDE DEF r
      <3>3. Holds(r, scope) => Holds(request[w], scope)
        BY <3>1, Zenon DEF Holds
      <3> QED BY <2>1, <3>2, <3>3, NotHolding, Zenon
    <2> QED BY <1>8, <2>2, <2>3, Zenon DEF enforce_obligations
  <1>9. CASE emit_usage(w)
    BY <1>9, MeterStep, Zenon
  <1> QED BY <1>1, <1>4, <1>5, <1>6, <1>7, <1>8, <1>9, ZenonT(30) DEF Step

-----------------------------------------------------------------------------

\* Every reachable state has the shape TypeOK gives it.
THEOREM AdmissionTyped == Spec => []TypeOK
  <1>1. Init => TypeOK
    <2>1. <<>> \in Seq(ServiceTypes) /\ Len(<<>>) = 0 /\ <<>> \in Seq(Obligations)
      OBVIOUS
    <2>2. Idle \in Request /\ Idle.pc = "idle"
      BY <2>1, Zenon DEF Idle, Request, PCs, Kinds, NextGate
    <2> QED BY <2>1, <2>2, AdmissionAssumption DEF Init, TypeOK
  <1>2. TypeOK /\ [Next]_vars => TypeOK'
    <2>1. TypeOK /\ UNCHANGED vars => TypeOK'
      BY Zenon DEF TypeOK, vars
    <2> QED BY <2>1, TypeStep, Zenon DEF Next
  <1> QED BY <1>1, <1>2, PTL DEF Spec

\* However many provisions run concurrently, in however many broker processes,
\* a tenant's records in a scope exceed its cap by fewer than the requests in
\* progress, as long as one usage query returns all of the tenant's records.
THEOREM QuotaOvershootBounded ==
    ASSUME MaxRecords <= Window
    PROVE  Spec => []OvershootBounded
  <1> DEFINE Caps == \A scope \in DOMAIN MaxInstances : CapInv(scope)
  <1>1. Init => Caps
    <2> SUFFICES ASSUME Init, NEW scope \in DOMAIN MaxInstances PROVE CapInv(scope)
      BY Zenon
    <2>1. Used(usage, scope) = 0
      <3>1. {k \in DOMAIN usage : InScope(usage[k], scope)} = {}
        BY DEF Init
      <3> QED BY <3>1, FS_EmptySet, Zenon DEF Used
    <2>2. Cardinality(Holders(scope)) = 0
      <3>1. Holders(scope) = {}
        BY Zenon DEF Init, Holders, Holds, Idle, Passed
      <3> QED BY <3>1, FS_EmptySet, Zenon
    <2>3. Room(scope) >= 0
      <3>1. Cardinality(Workers) \in Nat /\ MaxInstances[scope] \in Nat
        BY AdmissionAssumption, FS_CardinalityType, Zenon
      <3> QED BY <3>1 DEF Room
    <2> QED BY <2>1, <2>2, <2>3 DEF CapInv
  <1>2. TypeOK /\ Caps /\ [Next]_vars => Caps'
    <2>1. TypeOK /\ Caps /\ UNCHANGED vars => Caps'
      BY Zenon DEF vars, CapInv, Used, Holders, Room
    <2> QED BY <2>1, CapStep, Zenon DEF Next
  <1>3. TypeOK /\ Caps => OvershootBounded
    <2> SUFFICES ASSUME TypeOK, Caps, NEW scope \in DOMAIN MaxInstances
                 PROVE  Used(usage, scope) <= Room(scope)
      BY Zenon DEF OvershootBounded, Room
    <2>1. Used(usage, scope) \in Nat /\ Room(scope) \in Int
      BY UsedCounts, RoomBelowCap, Zenon DEF TypeOK
    <2> QED BY <2>1, HoldersFinite DEF CapInv
  <1> HIDE DEF Caps
  <1> QED BY <1>1, <1>2, <1>3, AdmissionTyped, PTL DEF Spec

-----------------------------------------------------------------------------
(* The audit trail of a request.                                             *)

Going == {"rbac", "quota", "pack", "policy", "obligations", "teardown", "gone"} \cup Admitted

Allow == <<"policy.evaluated", "allow">>

DenialsIn(T) ==
    {e \in T : \/ e[1] \in {"rbac.denied", "quota.exceeded", "obligation.failed"}
               \/ e = <<"policy.evaluated", "deny">>}

\* What the trail T of a request r says: nothing is denied while it goes on, one
\* thing when it is refused; past the policy its decision is there, with every
\* obligation that is not still to come.
TrailOK(r, T) ==
    /\ r.pc \in Going => DenialsIn(T) = {}
    /\ r.pc = "refused" => \E e : DenialsIn(T) = {e}
    /\ r.pc \in {"obligations"} \cup Admitted =>
         /\ Allow \in T
         /\ \A ob \in Range(r.due) : \/ <<"obligation.enforced", ob>> \in T
                                     \/ r.pc = "obligations" /\ ob \in Range(r.todo)

TrailInv ==
    /\ DOMAIN trail = Workers /\ trail = [w \in Workers |-> trail[w]]
    /\ \A w \in Workers : TrailOK(request[w], trail[w])

\* One worker's request and trail move; those of the others stay (emit, Goto).
LEMMA TrailMoves ==
    ASSUME TypeOK, TrailInv, NEW w \in Workers, NEW r, NEW T, TrailOK(r, T),
           Goto(w, r), trail' = [trail EXCEPT ![w] = T]
    PROVE  TrailInv'
  BY Zenon DEF TypeOK, TrailInv, Goto

\* The same where nothing is emitted.
LEMMA TrailStays ==
    ASSUME TypeOK, TrailInv, NEW w \in Workers, NEW r, TrailOK(r, trail[w]),
           Goto(w, r), UNCHANGED trail
    PROVE  TrailInv'
  BY Zenon DEF TypeOK, TrailInv, Goto

\* A refusal of a gate other than the policy's is a denial ...
LEMMA DenialsAdd ==
    ASSUME NEW T, NEW about,
           NEW action \in {"rbac.denied", "quota.exceeded", "obligation.failed"}
    PROVE  DenialsIn(T \cup {<<action, about>>}) = DenialsIn(T) \cup {<<action, about>>}
  BY DEF DenialsIn

\* ... and these events are none.
LEMMA DenialsKept ==
    ASSUME NEW T, NEW about,
           NEW action \in {"obligation.enforced", "instance.provisioned", "instance.updated",
                           "instance.provision_failed", "instance.deprovisioned"}
    PROVE  DenialsIn(T \cup {<<action, about>>}) = DenialsIn(T)
  BY DEF DenialsIn

\* What is left of a sequence without its head.
LEMMA TailSet ==
    ASSUME NEW S, NEW s \in Seq(S), s # <<>>
    PROVE  Range(s) \subseteq Range(Tail(s)) \cup {Head(s)}
  <1> DEFINE t == Tail(s)
  <1>1. DOMAIN s = 1..Len(s) /\ Len(s) \in Nat /\ s[1] = Head(s)
    OBVIOUS
  <1>2. t \in Seq(S) /\ Len(t) = Len(s) - 1
    OBVIOUS
  <1>3. \A k \in 1..Len(t) : t[k] = s[k + 1]
    OBVIOUS
  <1> HIDE DEF t
  <1>4. ASSUME NEW i \in DOMAIN s, i # 1 PROVE \E k \in DOMAIN t : t[k] = s[i]
    <2>0. i \in 1..Len(s) /\ Len(s) \in Nat /\ Len(t) = Len(s) - 1
      BY <1>1, <1>2, Zenon
    <2>1. i - 1 \in 1..Len(t) /\ (i - 1) + 1 = i
      BY <1>4, <2>0
    <2>2. i - 1 \in DOMAIN t
      BY <1>2, <2>1
    <2> QED BY <1>3, <2>1, <2>2, Zenon
  <1>5. \A i \in DOMAIN s : s[i] \in {t[k] : k \in DOMAIN t} \cup {Head(s)}
    BY <1>1, <1>4, Zenon
  <1> QED BY <1>5, Zenon DEF Range, t

\* Every step keeps the trail in line with the request.
LEMMA TrailStep ==
    ASSUME TypeOK, TrailInv, NEW w \in Workers, Step(w)
    PROVE  TrailInv'
  <1> DEFINE q == request[w]
             T == trail[w]
  <1>0. /\ q \in Request /\ TrailOK(q, T)
        /\ q = [kind |-> q.kind, pc |-> q.pc, service |-> q.service, reasons |-> q.reasons,
                due |-> q.due, todo |-> q.todo]
        /\ q.due \in Seq(Obligations) /\ q.todo \in Seq(Obligations)
    BY Zenon DEF TypeOK, TrailInv, Request
  <1>1. ASSUME NEW kind \in Kinds, NEW s \in ServiceTypes, begin(w, kind, s) PROVE TrailInv'
    <2> DEFINE r(pc) == [Idle EXCEPT !.kind = kind, !.pc = pc, !.service = s]
    <2>1. PICK pc \in {"rbac", NextGate[kind]} : Goto(w, r(pc))
      BY <1>1, Zenon DEF begin
    <2>2. r(pc).pc \in {"rbac", "quota", "policy", "teardown"}
      BY DEF Idle, Kinds, NextGate
    <2> HIDE DEF r
    <2>3. TrailOK(r(pc), {})
      BY <2>2, Zenon DEF TrailOK, DenialsIn, Admitted
    <2> QED BY <1>1, <2>1, <2>3, TrailMoves, Zenon DEF begin
  <1>2. ASSUME NEW pc
        PROVE  /\ [q EXCEPT !.pc = pc].pc = pc
               /\ [q EXCEPT !.pc = pc].due = q.due /\ [q EXCEPT !.pc = pc].todo = q.todo
    BY <1>0, Zenon
  <1>3. ASSUME NEW pc, Goto(w, [q EXCEPT !.pc = pc]), UNCHANGED trail,
               q.pc \in Going, pc # "refused", pc # "obligations",
               pc \in Admitted => q.pc \in Admitted \/ (q.pc = "obligations" /\ q.todo = <<>>)
        PROVE  TrailInv'
    <2>1. q.todo = <<>> => Range(q.todo) = {}
      BY DEF Range
    <2>2. TrailOK([q EXCEPT !.pc = pc], T)
      BY <1>0, <1>2, <1>3, <2>1, Zenon DEF TrailOK, Going, Admitted
    <2> QED BY <1>3, <2>2, TrailStays, Zenon
  <1>4. ASSUME NEW r, NEW e, r.pc = "refused", Goto(w, r), q.pc \in Going,
               trail' = [trail EXCEPT ![w] = T \cup {e}],
               DenialsIn(T \cup {e}) = DenialsIn(T) \cup {e}
        PROVE  TrailInv'
    <2>1. TrailOK(r, T \cup {e})
      BY <1>0, <1>4, Zenon DEF TrailOK, Going, Admitted
    <2> QED BY <1>4, <2>1, TrailMoves, Zenon
  <1>5. CASE enforce_rbac(w)
    <2>1. CASE Goto(w, [q EXCEPT !.pc = NextGate[q.kind]]) /\ UNCHANGED trail
      <3>1. NextGate[q.kind] \in {"quota", "policy", "teardown"}
        BY <1>0 DEF Request, Kinds, NextGate
      <3> QED BY <1>3, <1>5, <2>1, <3>1, ZenonT(30) DEF enforce_rbac, Going, Admitted
    <2>2. CASE Goto(w, [q EXCEPT !.pc = "refused"]) /\ emit(w, "rbac.denied", q.service)
      <3>1. DenialsIn(T \cup {<<"rbac.denied", q.service>>}) =
              DenialsIn(T) \cup {<<"rbac.denied", q.service>>}
        BY DenialsAdd, Zenon
      <3> QED BY <1>2, <1>4, <1>5, <2>2, <3>1, ZenonT(30) DEF enforce_rbac, emit, Going
    <2> QED BY <1>5, <2>1, <2>2, Zenon DEF enforce_rbac
  <1>6. CASE StoreError(w) \/ put_instance(w)
    <2>1. CASE StoreError(w)
      <3>1. Idle.pc = "idle"
        BY DEF Idle
      <3>2. TrailOK(Idle, {})
        BY <3>1, Zenon DEF TrailOK, DenialsIn, Admitted
      <3> QED BY <2>1, <3>2, TrailMoves, Zenon DEF StoreError
    <2>2. CASE put_instance(w)
      <3>1. q.pc = "put" /\ Goto(w, [q EXCEPT !.pc = "apply"]) /\ UNCHANGED trail
        BY <2>2, Zenon DEF put_instance
      <3> QED BY <1>3, <3>1, Zenon DEF Going, Admitted
    <2> QED BY <1>6, <2>1, <2>2, Zenon
  <1>7. CASE check_service(w)
    <2> DEFINE R == {scope \in {q.service} : at_limit(usage, scope)}
               r == [q EXCEPT !.pc = "pack", !.reasons = R]
    <2>1. Goto(w, r) /\ UNCHANGED trail /\ q.pc = "quota"
      BY <1>7, Zenon DEF check_service
    <2>2. r.pc = "pack"
      BY <1>0, Zenon
    <2> HIDE DEF r
    <2>3. TrailOK(r, T)
      BY <1>0, <2>1, <2>2, Zenon DEF TrailOK, Going, Admitted
    <2> QED BY <2>1, <2>3, TrailStays, Zenon
  <1>8. CASE check_pack(w)
    <2> DEFINE R == q.reasons
                      \cup {scope \in {PackOf[q.service]} \ {Nil} : at_limit(usage, scope)}
               r == [q EXCEPT !.pc = "refused", !.reasons = R]
               e == <<"quota.exceeded", q.service>>
    <2>1. /\ q.pc = "pack"
          /\ \/ Goto(w, [q EXCEPT !.pc = "policy"]) /\ UNCHANGED trail
             \/ Goto(w, r) /\ trail' = [trail EXCEPT ![w] = T \cup {e}]
      BY <1>8, Zenon DEF check_pack, emit
    <2>2. r.pc = "refused"
      BY <1>0, Zenon
    <2>3. DenialsIn(T \cup {e}) = DenialsIn(T) \cup {e}
      BY DenialsAdd, Zenon
    <2> HIDE DEF r, e
    <2> QED BY <1>3, <1>4, <2>1, <2>2, <2>3, ZenonT(30) DEF Going, Admitted
  <1>9. CASE evaluate_policy(w)
    <2>1. q.pc = "policy"
      BY <1>9, Zenon DEF evaluate_policy
    <2>2. CASE Goto(w, [q EXCEPT !.pc = "refused"]) /\ emit(w, "policy.evaluated", "deny")
      <3>1. DenialsIn(T \cup {<<"policy.evaluated", "deny">>}) =
              DenialsIn(T) \cup {<<"policy.evaluated", "deny">>}
        BY Zenon DEF DenialsIn
      <3> QED BY <1>2, <1>4, <2>1, <2>2, <3>1, Zenon DEF emit, Going
    <2>3. ASSUME NEW d, emit(w, "policy.evaluated", "allow"),
                 Goto(w, [q EXCEPT !.pc = "obligations", !.due = d.obligations,
                                   !.todo = d.obligations])
          PROVE  TrailInv'
      <3> DEFINE r == [q EXCEPT !.pc = "obligations", !.due = d.obligations,
                                !.todo = d.obligations]
      <3>1. r.pc = "obligations" /\ r.due = r.todo
        BY <1>0, Zenon
      <3>2. DenialsIn(T) = {}
        BY <1>0, <2>1, Zenon DEF TrailOK, Going
      <3>3. DenialsIn(T \cup {Allow}) = {}
        BY <3>2 DEF DenialsIn, Allow
      <3>4. Goto(w, r) /\ trail' = [trail EXCEPT ![w] = T \cup {Allow}]
        BY <2>3, Zenon DEF emit, Allow
      <3> HIDE DEF r
      <3>5. TrailOK(r, T \cup {Allow})
        BY <3>1, <3>3, Zenon DEF TrailOK
      <3> QED BY <3>4, <3>5, TrailMoves, Zenon
    <2> QED BY <1>9, <2>2, <2>3, Zenon DEF evaluate_policy
  <1>10. CASE enforce_obligations(w)
    <2>1. q.pc = "obligations" /\ DenialsIn(T) = {}
      BY <1>0, <1>10, Zenon DEF enforce_obligations, TrailOK, Going
    <2>2. CASE q.todo = <<>> /\ Goto(w, [q EXCEPT !.pc = "put"]) /\ UNCHANGED trail
      BY <1>3, <2>1, <2>2, Zenon DEF Going, Admitted
    <2> DEFINE ob == Head(q.todo)
    <2>3. CASE /\ q.todo # <<>> /\ Goto(w, [q EXCEPT !.pc = "refused"])
               /\ emit(w, "obligation.failed", ob)
      <3>1. DenialsIn(T \cup {<<"obligation.failed", ob>>}) =
              DenialsIn(T) \cup {<<"obligation.failed", ob>>}
        BY DenialsAdd, Zenon
      <3> QED BY <1>2, <1>4, <2>1, <2>3, <3>1, ZenonT(30) DEF emit, Going
    <2>4. CASE /\ q.todo # <<>> /\ Goto(w, [q EXCEPT !.todo = Tail(@)])
               /\ emit(w, "obligation.enforced", ob)
      <3> DEFINE r == [q EXCEPT !.todo = Tail(@)]
                 e == <<"obligation.enforced", ob>>
      <3>1. r.pc = "obligations" /\ r.due = q.due /\ r.todo = Tail(q.todo)
        BY <1>0, <2>1, Zenon
      <3>2. DenialsIn(T \cup {e}) = {}
        BY <2>1, DenialsKept, Zenon
      <3>3. Range(q.todo) \subseteq Range(Tail(q.todo)) \cup {ob}
        BY <1>0, <2>4, TailSet, Zenon
      <3>4. Goto(w, r) /\ trail' = [trail EXCEPT ![w] = T \cup {e}]
        BY <2>4, Zenon DEF emit
      <3> HIDE DEF r
      <3>5. TrailOK(r, T \cup {e})
        BY <1>0, <2>1, <3>1, <3>2, <3>3, ZenonT(30) DEF TrailOK
      <3> QED BY <3>4, <3>5, TrailMoves, Zenon
    <2> QED BY <1>10, <2>2, <2>3, <2>4, Zenon DEF enforce_obligations
  <1>11. ASSUME NEW pc, NEW e, Goto(w, [q EXCEPT !.pc = pc]),
                trail' = [trail EXCEPT ![w] = T \cup {e}], q.pc \in Going,
                pc # "refused", pc # "obligations", pc \in Admitted => q.pc \in Admitted,
                DenialsIn(T \cup {e}) = DenialsIn(T)
         PROVE  TrailInv'
    <2>1. TrailOK([q EXCEPT !.pc = pc], T \cup {e})
      BY <1>0, <1>2, <1>11, Zenon DEF TrailOK, Going, Admitted
    <2> QED BY <1>11, <2>1, TrailMoves, Zenon
  <1>12. CASE finalize_provision(w)
    <2>1. CASE Goto(w, [q EXCEPT !.pc = "meter"]) /\ UNCHANGED trail
      <3>1. q.pc = "apply"
        BY <1>12, Zenon DEF finalize_provision
      <3> QED BY <1>3, <2>1, <3>1, Zenon DEF Going, Admitted
    <2>2. CASE /\ Goto(w, [q EXCEPT !.pc = "error"])
               /\ emit(w, "instance.provision_failed", q.service)
      <3>1. DenialsIn(T \cup {<<"instance.provision_failed", q.service>>}) = DenialsIn(T)
        BY DenialsKept, Zenon
      <3> QED BY <1>11, <1>12, <2>2, <3>1, Zenon DEF finalize_provision, emit, Going, Admitted
    <2> QED BY <1>12, <2>1, <2>2, Zenon DEF finalize_provision
  <1>13. CASE emit_usage(w)
    <2>1. DenialsIn(T \cup {<<"instance.provisioned", q.service>>}) = DenialsIn(T)
      BY DenialsKept, Zenon
    <2> QED BY <1>11, <1>13, <2>1, Zenon DEF emit_usage, emit, Going, Admitted
  <1>14. CASE finish_update(w)
    <2>1. q.pc = "apply"
      BY <1>14, Zenon DEF finish_update
    <2>2. CASE Goto(w, [q EXCEPT !.pc = "error"]) /\ UNCHANGED trail
      BY <1>3, <2>1, <2>2, Zenon DEF Going, Admitted
    <2>3. CASE Goto(w, [q EXCEPT !.pc = "done"]) /\ emit(w, "instance.updated", q.service)
      <3>1. DenialsIn(T \cup {<<"instance.updated", q.service>>}) = DenialsIn(T)
        BY DenialsKept, Zenon
      <3> QED BY <1>11, <2>1, <2>3, <3>1, Zenon DEF emit, Going, Admitted
    <2> QED BY <1>14, <2>2, <2>3, Zenon DEF finish_update
  <1>15. CASE delete_instance(w)
    <2>1. DenialsIn(T \cup {<<"instance.deprovisioned", q.service>>}) = DenialsIn(T)
      BY DenialsKept, Zenon
    <2> QED BY <1>11, <1>15, <2>1, Zenon DEF delete_instance, emit, Going, Admitted
  <1> QED BY <1>1, <1>5, <1>6, <1>7, <1>8, <1>9, <1>10, <1>12, <1>13, <1>14, <1>15 DEF Step

\* The trail agrees with the request in every reachable state.
LEMMA TrailKept == Spec => [](TypeOK /\ TrailInv)
  <1>1. Init => TrailInv
    BY DEF Init, TrailInv, TrailOK, Idle, Going, Admitted
  <1>2. TypeOK /\ TrailInv /\ [Next]_vars => TrailInv'
    <2>1. TrailInv /\ UNCHANGED vars => TrailInv'
      BY Zenon DEF TrailInv, vars
    <2> QED BY <2>1, TrailStep, Zenon DEF Next
  <1> QED BY <1>1, <1>2, AdmissionTyped, PTL DEF Spec

\* Whatever the gates decide and however requests interleave, provision stores an
\* instance only behind an allow and all of its obligations.
THEOREM AdmittedCleared == Spec => []AdmittedIsCleared
  <1>1. TrailInv => AdmittedIsCleared
    BY Zenon DEF TrailInv, TrailOK, AdmittedIsCleared, Denials, DenialsIn, Allow, Going, Admitted
  <1> QED BY <1>1, TrailKept, PTL

\* Whichever gate refuses, the broker emits one denial for the request, not none
\* and not two.
THEOREM RefusalsAudited == Spec => []RefusalAudited
  <1>1. TrailInv => RefusalAudited
    <2> SUFFICES ASSUME TrailInv, NEW w \in Workers, request[w].pc = "refused"
                 PROVE  Cardinality(Denials(w)) = 1
      BY Zenon DEF RefusalAudited
    <2>1. Denials(w) = DenialsIn(trail[w])
      BY Zenon DEF Denials, DenialsIn
    <2>2. PICK e : DenialsIn(trail[w]) = {e}
      BY Zenon DEF TrailInv, TrailOK
    <2> QED BY <2>1, <2>2, FS_Singleton, Zenon
  <1> QED BY <1>1, TrailKept, PTL
=============================================================================
