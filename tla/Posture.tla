------------------------------ MODULE Posture -------------------------------
(***************************************************************************)
(* How a service decides whom it answers: the settings it reads from its   *)
(* environment at start (settings.py), the checks that refuse to start it, *)
(* the inbound check of service-to-service calls (security.py, mtls.py),   *)
(* the headers it sends on its own calls, and the broker's identification  *)
(* of its callers (apps/broker/app/main.py).  A credential is what the     *)
(* checks tell apart: whose identity it names, or which secret signed it.  *)
(***************************************************************************)
EXTENDS Naturals, FiniteSets, Sequences

CONSTANT MaxOverrides     \* bound: flags an operator sets against their default

ASSUME PostureAssumption == MaxOverrides \in Nat

VARIABLES
    service,     \* "off", "up", or "refused": the process exits
    conf,        \* the Settings of the process
    answer       \* the answer to the last request: [route, peer, via]: the peer whose
                 \* certificate the mesh saw, and how the caller was accepted

postureVars == <<service, conf, answer>>

\* The flags with an environment-dependent default, and the default where real
\* secrets are required (settings.py, _default_*); elsewhere it is the opposite.
ManagedDefault ==
    [shared_bearer_auth_enabled |-> FALSE, broker_trust_basic_auth |-> FALSE,
     strict_secrets |-> TRUE, require_oidc |-> TRUE, require_managed_secrets |-> TRUE,
     workload_identity_enabled |-> TRUE, mtls_required |-> TRUE,
     require_audit_signing |-> TRUE]

Flags == DOMAIN ManagedDefault

\* _env_bool: a variable that is set overrides the default.  Setting it to its
\* default is no override.
flag_values(managed, overridden) ==
    [f \in Flags |-> (ManagedDefault[f] = managed) # (f \in overridden)]

Overrides == {s \in SUBSET Flags : Cardinality(s) <= MaxOverrides}

\* Mesh identities: this service's own, another of the platform, a stranger's.
Identity == {"self", "peer", "stranger"}
NoIdentity == "none"

\* Bearer tokens: none, the shared one, one the IdP signed, one signed with the
\* HS256 secret, and one nobody accepts.
Bearer == {"none", "shared", "oidc", "hs256", "bad"}

\* HTTP Basic credentials.
Basic == {"none", "good", "bad"}

Unread == [managed |-> FALSE, flag |-> flag_values(FALSE, {}), issuer |-> FALSE,
           audience |-> FALSE, env_provider |-> TRUE, sentinel |-> TRUE,
           signing_key |-> FALSE, allowed |-> {}]
NoAnswer == [route |-> "none", peer |-> NoIdentity, via |-> "refused"]

PostureInit ==
    /\ service = "off"
    /\ conf = Unread
    /\ answer = NoAnswer

-----------------------------------------------------------------------------
(* Start-up: get_settings, then assert_secure_posture.                        *)

requires_real_secrets(s) == s.managed

\* get_settings raises.  A managed provider has by then replaced the secrets it
\* holds; sentinel: a dev default is still live among them.
get_settings_raises(s) ==
    /\ requires_real_secrets(s)
    /\ \/ s.sentinel /\ s.flag.strict_secrets
       \/ s.flag.require_oidc /\ ~(s.issuer /\ s.audience)
       \/ s.flag.require_managed_secrets /\ s.env_provider
       \/ s.flag.require_audit_signing /\ ~s.signing_key
       \/ s.flag.broker_trust_basic_auth

\* Mutant: a service that forgets to call it.
posture_not_asserted(s) == FALSE

assert_secure_posture_raises(s) ==
    /\ requires_real_secrets(s)
    /\ \/ s.flag.shared_bearer_auth_enabled
       \/ ~(s.flag.require_oidc \/ s.flag.mtls_required)

refuses_to_start(s) == get_settings_raises(s) \/ assert_secure_posture_raises(s)

\* The environments an operator can give it.
Environment ==
    {[managed |-> m, flag |-> flag_values(m, o), issuer |-> "issuer" \in g,
      audience |-> "audience" \in g, env_provider |-> "provider" \notin g,
      sentinel |-> "secrets" \notin g, signing_key |-> "key" \in g, allowed |-> w] :
        m \in BOOLEAN, o \in Overrides, w \in {{}, {"self", "peer"}, {"*"}},
        g \in SUBSET {"issuer", "audience", "provider", "secrets", "key"}}

start ==
    /\ service = "off"
    /\ conf' \in Environment
    /\ service' = IF refuses_to_start(conf') THEN "refused" ELSE "up"
    /\ UNCHANGED answer

-----------------------------------------------------------------------------
(* Inbound: parse_xfcc_identity and require_bearer.                           *)

\* A forwarded-certificate header is a sequence of elements, the immediate peer's
\* first, each a sequence of <<key, value>> pairs; quoting is resolved.
parse_xfcc_identity(raw) ==
    IF raw = <<>> THEN NoIdentity
    ELSE LET uris == {k \in DOMAIN raw[1] : raw[1][k][1] = "URI"}
             first == CHOOSE k \in uris : \A j \in uris : k <= j
         IN  IF uris = {} THEN NoIdentity ELSE raw[1][first][2]

workload_identity_allowed(id, s) == "*" \in s.allowed \/ id \in s.allowed

AcceptIdentity(id, s, via) == IF workload_identity_allowed(id, s) THEN via ELSE "refused"

\* How a request with these headers is accepted.
require_bearer(s, xfcc, asserted, bearer) ==
    CASE s.flag.mtls_required ->
            LET id == parse_xfcc_identity(xfcc)
            IN  IF id = NoIdentity THEN "refused" ELSE AcceptIdentity(id, s, "mtls")
      [] ~s.flag.mtls_required /\ s.flag.workload_identity_enabled /\ asserted # NoIdentity ->
            AcceptIdentity(asserted, s, "asserted")
      [] OTHER ->
            IF s.flag.require_oidc \/ s.issuer
            THEN IF bearer = "oidc" /\ s.issuer THEN "oidc" ELSE "refused"
            ELSE IF s.flag.shared_bearer_auth_enabled /\ bearer = "shared"
                 THEN "shared" ELSE "refused"

-----------------------------------------------------------------------------
(* Outbound: service_auth_headers, and what the mesh adds on the way.         *)

service_auth_headers(s) ==
    [asserted |-> IF s.flag.workload_identity_enabled THEN "self" ELSE NoIdentity,
     bearer   |-> IF s.flag.shared_bearer_auth_enabled THEN "shared" ELSE "none"]

\* The mesh forwards the certificate of the peer, and after it that of the proxy the
\* peer came through; a certificate may have no URI.
mesh_certificate(id) ==
    << << <<"By", "self">>, <<"URI", id>> >>, << <<"URI", "peer">> >> >>

xfcc_header(peer) == CASE peer = NoIdentity -> <<>>
                       [] peer = "no URI" -> << << <<"By", "self">> >> >>
                       [] OTHER -> mesh_certificate(peer)

-----------------------------------------------------------------------------
(* The broker's callers: identify, state_change_identify, _enforce_rbac.      *)

\* _decode: which key a token is checked against.
decode(s, bearer) ==
    IF s.issuer THEN (IF bearer = "oidc" THEN "oidc" ELSE "refused")
    ELSE IF ~s.flag.require_oidc /\ bearer = "hs256" THEN "hs256" ELSE "refused"

identify(s, bearer, basic) ==
    CASE bearer # "none" -> decode(s, bearer)
      [] bearer = "none" /\ basic = "none" -> "anonymous"
      [] bearer = "none" /\ basic # "none" -> IF basic = "good" THEN "basic" ELSE "refused"

state_change_identify(s, bearer, basic) ==
    IF identify(s, bearer, basic) = "anonymous" THEN "refused" ELSE identify(s, bearer, basic)

\* The caller is let through without roles, or has to hold one.
enforce_rbac(s, caller) ==
    IF caller = "basic" /\ s.flag.broker_trust_basic_auth THEN "bypass" ELSE "rbac"

-----------------------------------------------------------------------------
(* Requests.                                                                 *)

Answer(route, peer, via) ==
    /\ service = "up"
    /\ answer' = [route |-> route, peer |-> peer, via |-> via]
    /\ UNCHANGED <<service, conf>>

internal_call(peer, asserted, bearer) ==
    Answer("internal", peer, require_bearer(conf, xfcc_header(peer), asserted, bearer))

self_call ==
    LET h == service_auth_headers(conf)
    IN  Answer("self", "self", require_bearer(conf, xfcc_header("self"), h.asserted, h.bearer))

change_instance(bearer, basic) ==
    LET caller == state_change_identify(conf, bearer, basic)
    IN  Answer("change", NoIdentity,
               IF caller = "refused" THEN "refused" ELSE enforce_rbac(conf, caller))

\* Basic callers see every instance; identify counts a caller without credentials
\* as one.
list_instances(bearer, basic) ==
    LET caller == identify(conf, bearer, basic)
    IN  Answer("list", NoIdentity,
               CASE caller = "refused" -> "refused"
                 [] caller \in {"basic", "anonymous"} -> caller
                 [] OTHER -> enforce_rbac(conf, caller))

PostureNext ==
    \/ start
    \/ \E peer \in Identity \cup {NoIdentity, "no URI"}, id \in {NoIdentity, "self", "stranger"},
         b \in Bearer : internal_call(peer, id, b)
    \/ self_call
    \/ \E b \in Bearer, c \in Basic : change_instance(b, c) \/ list_instances(b, c)

PostureSpec == PostureInit /\ [][PostureNext]_postureVars

-----------------------------------------------------------------------------
(* Properties.                                                               *)

\* Types of the service's settings and of its answers.
PostureTypeOK ==
    /\ service \in {"off", "up", "refused"}
    /\ conf.flag \in [Flags -> BOOLEAN]
    /\ answer \in [route : {"none", "internal", "self", "change", "list"},
                   peer : Identity \cup {NoIdentity, "no URI"},
                   via : {"refused", "mtls", "asserted", "oidc", "shared", "rbac",
                          "bypass", "basic", "anonymous"}]

\* "in a managed environment it fails fast ... rather than quietly serving on a
\* shared static token with no strong auth" (settings.py:363-365): whatever flags
\* an operator overrides, a managed service that starts accepts no call on the
\* shared token and no change without roles.
NoDevCredential ==
    conf.managed => answer.via \notin {"shared", "bypass"}

\* With mTLS required, an accepted call came from a peer whose own certificate
\* names an allowed identity, whatever identity headers it sends and whoever
\* forwarded it.
PeerVerified ==
    (answer.route = "internal" /\ conf.flag.mtls_required /\ answer.via # "refused") =>
        workload_identity_allowed(answer.peer, conf)

\* "Symmetric with the inbound require_bearer policy" (security.py:39): a service
\* whose identity is allowed accepts the headers it sends itself, in every posture
\* that verifies identities and in the development one, also where shared tokens
\* are still on.
SelfCallAccepted ==
    (/\ answer.route = "self"
     /\ workload_identity_allowed("self", conf)
     /\ \/ conf.flag.mtls_required \/ conf.flag.workload_identity_enabled
        \/ conf.flag.shared_bearer_auth_enabled /\ ~conf.issuer /\ ~conf.flag.require_oidc)
    => answer.via # "refused"

\* "so the platform can talk to itself under every auth posture"
\* (security.py:39-40).
SelfCallAlwaysAccepted ==
    (answer.route = "self" /\ workload_identity_allowed("self", conf)) =>
        answer.via # "refused"
=============================================================================
