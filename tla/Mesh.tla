-------------------------------- MODULE Mesh --------------------------------
(***************************************************************************)
(* The mesh of sidecars and its rollout.  Every pod of a chassis service   *)
(* gets an Envoy whose bootstrap is rendered by render_sidecar_bootstrap;  *)
(* the pod's iptables rules send its inbound connections and its app's     *)
(* egress through it.  The sidecars are introduced one service at a time,  *)
(* first permissive, then strict.                                          *)
(***************************************************************************)
EXTENDS Envoy

CONSTANTS
    Chassis,    \* services that get a sidecar
    Outsiders   \* callers and callees that never do: the portal, OPA, the kubelet

VARIABLES
    sidecar,   \* of each service: "none", "permissive", "strict"
    hop        \* the last call: [from, to, outcome, identity]

meshVars == <<sidecar, hop>>

Services == Chassis \cup Outsiders

NoHop == [from |-> "", to |-> "", outcome |-> "none", identity |-> "none"]

-----------------------------------------------------------------------------
(* The bootstrap of a sidecar.                                               *)

\* Mutant: the identity is forwarded from the wrong chain.
inbound_hcm_swapped(match, tls, with_xfcc) ==
    HttpChain(match, tls, {"*"}, <<ToCluster("/", "local_app")>>, ~with_xfcc)

inbound_hcm(match, tls, with_xfcc) ==
    HttpChain(match, tls, {"*"}, <<ToCluster("/", "local_app")>>, with_xfcc)

inbound_chains(strict) ==
    {inbound_hcm("tls", downstream_tls_transport_socket, TRUE)}
        \cup (IF strict THEN {} ELSE {inbound_hcm("raw_buffer", "none", FALSE)})

outbound_listener == {TcpChain("outbound_mtls")}

outbound_cluster == Cluster("outbound_mtls", "ORIGINAL_DST", {}, upstream_tls_transport_socket)

sidecar_doc(strict) ==
    [listeners |-> {inbound_chains(strict), outbound_listener},
     clusters  |-> {Cluster("local_app", "STATIC", {"port"}, "none"), outbound_cluster}
                       \cup (IF sds THEN {sds_cluster} ELSE {})]

-----------------------------------------------------------------------------
MeshInit ==
    /\ sidecar = [s \in Services |-> "none"]
    /\ hop = NoHop

\* A deployment is rolled out with its sidecar.  The cutover to strict waits, as
\* settings.py says, until every caller is confirmed mTLS.
render_sidecar_bootstrap(s, strict) ==
    /\ s \in Chassis
    /\ validate_bootstrap(sidecar_doc(strict))
    /\ strict => \A t \in Chassis : sidecar[t] # "none"
    /\ sidecar' = [sidecar EXCEPT ![s] = IF strict THEN "strict" ELSE "permissive"]
    /\ UNCHANGED hop

\* What leaves a pod: its app speaks plain HTTP, which the outbound listener
\* hands to outbound_mtls.
transport_from(a) ==
    IF sidecar[a] # "none" /\ outbound_cluster.tls # "none" THEN "tls" ELSE "raw_buffer"

\* What comes of it at the other pod: its sidecar's inbound chains, or the app
\* itself, which speaks plain HTTP only.
call(a, b) ==
    LET chains == chains_for(inbound_chains(sidecar[b] = "strict"), transport_from(a))
        served == IF sidecar[b] = "none" THEN transport_from(a) = "raw_buffer" ELSE chains # {}
        known == /\ sidecar[b] # "none" /\ transport_from(a) = "tls"
                 /\ \E c \in chains : c.xfcc
    IN /\ a # b
       /\ hop' = [from |-> a, to |-> b, outcome |-> IF served THEN "served" ELSE "refused",
                  identity |-> IF served /\ known THEN a ELSE "none"]
       /\ UNCHANGED sidecar

MeshNext ==
    /\ \/ \E s \in Chassis, strict \in BOOLEAN : render_sidecar_bootstrap(s, strict)
       \/ \E a, b \in Services : call(a, b)
    /\ UNCHANGED envoyVars

\* Instances are rendered, and serve, beside the rollout.
MeshSpec ==
    /\ EnvoyInit /\ MeshInit
    /\ [][MeshNext \/ (EnvoyNext /\ UNCHANGED meshVars)]_<<envoyVars, meshVars>>

-----------------------------------------------------------------------------
MeshTypeOK ==
    /\ sidecar \in [Services -> {"none", "permissive", "strict"}]
    /\ hop.outcome \in {"none", "served", "refused"}

\* At every point of the rollout the services that have their sidecar reach each
\* other, and each is told who called: what require_bearer's workload identity
\* check rests on once the shared bearer is off (render_sidecar_bootstrap, "emitting
\* XFCC so the app's `require_bearer` sees the verified peer identity").
MeshedCallsIdentified ==
    [][\A a, b \in Services :
         sidecar[a] # "none" /\ sidecar[b] # "none" /\ call(a, b)
            => hop'.outcome = "served" /\ hop'.identity = a]_meshVars

\* "Permissive rollout: also accept plaintext so not-yet-migrated callers keep
\* working" (render.py:402-403): a service is not cut off from one that already
\* has its sidecar, in whatever order they are rolled out.
NotYetMigratedCallersServed ==
    [][\A a, b \in Chassis :
         sidecar[a] = "none" /\ call(a, b) => hop'.outcome = "served"]_meshVars

\* Every TLS context that takes its certificate from SDS finds the cluster of the
\* SPIRE agent in the same document, in an instance's and in a sidecar's
\* (_sds_cluster: "so every TLS context's `sds_config` can resolve").
SdsResolves ==
    /\ sds_resolves(doc)
    /\ \A s \in Services :
         sidecar[s] # "none" => sds_resolves(sidecar_doc(sidecar[s] = "strict"))

\* Violated by the code.  settings.py:287-289: "so a half-migrated mesh keeps
\* working during rollout"; a sidecar originates mTLS to whatever its app dials,
\* and a service that has no sidecar yet, or never gets one, cannot answer it.
HalfMigratedMeshWorks == hop.outcome = "refused" => hop.to \notin Chassis

\* Violated by the code, as above: production.yaml:25 has the broker call
\* http://opa:8181, a port its redirect does not exempt, and gives OPA no sidecar.
OutsidersReached == hop.outcome = "refused" => hop.to \notin Outsiders

\* Violated by the code.  Strict is meant for "once every caller is confirmed
\* mTLS"; the kubelet, which probes /healthz in plain HTTP (production.yaml:166),
\* and the portal never are.
OutsidersServed == hop.outcome = "refused" => hop.from \notin Outsiders

=============================================================================
