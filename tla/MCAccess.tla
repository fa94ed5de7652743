------------------------------ MODULE MCAccess ------------------------------
(***************************************************************************)
(* The caches and checks that stand before every handler: the secrets      *)
(* provider, the token verifier's key cache, the rate limiter, the auth    *)
(* posture, and the tenant tree with its role bindings and group sync.     *)
(* The first three share the clock, and they share nothing else, so that   *)
(* one of them moves in each behaviour.                                    *)
(***************************************************************************)
EXTENDS Secrets, Jwks, RateLimit, Posture, Tenancy, TLC

CONSTANTS agency, bureau, team

VARIABLE focus

cacheVars == <<secretsVars, jwksVars, limitVars>>
allVars == <<now, focus, cacheVars, postureVars, tenancyVars>>

\* Every content of the tenancy tables is an initial state of a decision; the tree
\* plays no part in a sync.
NoTables == \A t \in Tenants : parent[t] = Absent /\ binding[t] = Absent

Init ==
    /\ now = 0
    /\ focus \in {"secrets", "jwks", "limit", "posture", "check", "sync"}
    /\ SecretsInit /\ JwksInit /\ RateInit
    /\ PostureInit
    /\ TenancyInit
    /\ focus = "check" \/ NoTables

\* Bound: how far each of them is followed.
Horizon == [secrets |-> 2, jwks |-> 4, limit |-> 2, posture |-> 0, check |-> 0, sync |-> 0]

\* The posture checks keep no state between requests: one request is enough.  In a
\* decision writes matter only between its first read and its last; since it begins
\* with any table, it may always be about the same tenant.
Next ==
    /\ UNCHANGED focus
    /\ \/ /\ focus = "secrets" /\ SecretsNext
          /\ UNCHANGED <<jwksVars, limitVars, postureVars, tenancyVars>>
       \/ /\ focus = "jwks" /\ JwksNext
          /\ UNCHANGED <<secretsVars, limitVars, postureVars, tenancyVars>>
       \/ /\ focus = "limit" /\ RateNext
          /\ UNCHANGED <<secretsVars, jwksVars, postureVars, tenancyVars>>
       \/ /\ focus = "posture" /\ answer = NoAnswer /\ PostureNext
          /\ UNCHANGED <<now, cacheVars, tenancyVars>>
       \/ /\ focus = "check"
          /\ \/ check.pc \in {"tree", "inherit"} /\ tenancyWrite
             \/ tenancyCheck
          /\ check'.tenant = agency
          /\ UNCHANGED <<now, cacheVars, postureVars>>
       \/ /\ focus = "sync" /\ (tenancyRoleWrite \/ tenancySync)
          /\ UNCHANGED <<now, cacheVars, postureVars>>
    /\ now' <= Horizon[focus]

Spec == Init /\ [][Next]_allVars

-----------------------------------------------------------------------------

\* Types of the state of the component that moves, the others staying as they were;
\* in particular a token bucket never goes below zero.
AccessTypeOK ==
    /\ focus = "secrets" => SecretsTypeOK
    /\ focus = "jwks" => JwksTypeOK
    /\ focus = "limit" => RateTypeOK
    /\ focus = "posture" => PostureTypeOK

MCFieldOrder == <<"service-bearer-token">>

GroupRoles == [admins |-> "agency_admin", teams |-> "program_team", auditors |-> "auditor"]
GroupTenants == [auditors |-> agency]
=============================================================================
