------------------------------- MODULE Envoy --------------------------------
(***************************************************************************)
(* The Envoy bootstrap documents the platform renders, the schema they are *)
(* validated against, and what an Envoy that loads one does with a         *)
(* request.  A document is reduced to what routing and transport depend    *)
(* on: the filter chains of its listeners (transport they match, TLS       *)
(* context, routes), its clusters (endpoints, TLS context).                *)
(***************************************************************************)
EXTENDS Integers, Sequences, FiniteSets, FiniteSetsExt

CONSTANTS
    Hosts,      \* host names routes and requests are for
    Pools,      \* names of the clusters of an instance; nothing keeps an instance from
                \* using the name of sds_cluster
    MaxRoutes   \* bound: routes of an instance

\* "" stands for a route that names no cluster.
ASSUME EnvoyAssumption == "" \notin Pools /\ MaxRoutes \in Nat

VARIABLES
    sds,      \* MESH_SDS_ENABLED
    lb,       \* the instance's parameters, or NoLb
    doc,      \* its bootstrap document once rendered, or NoDoc
    render_status,  \* what /render answered: 0, 200, 422, 500
    proxied   \* what the instance did with the last request

envoyVars == <<sds, lb, doc, render_status, proxied>>

Paths == {"/", "/a"}   \* also the paths requests ask for

matches(prefix, path) == prefix \in {"/", path}

\* What an endpoint of the request splits into: a port in range, a port the
\* schema refuses, or no port at all.
EndpointForms == {"port", "bad_port", "no_port"}

Route == [host : Hosts, prefix : Paths, cluster : Pools]

\* LbParameters.  A cluster has at least one endpoint (require_endpoints); two
\* endpoints differ for the renderer only in their form.
LbParameters ==
    [listeners : SUBSET {"http"},
     routes    : UNION {[1..n -> Route] : n \in 0..MaxRoutes},
     clusters  : UNION {[names -> (SUBSET EndpointForms) \ {{}}] : names \in SUBSET Pools},
     mtls      : BOOLEAN]

NoLb == [listeners |-> {}, routes |-> <<>>, clusters |-> <<>>, mtls |-> FALSE]
NoDoc == [listeners |-> {}, clusters |-> {}]
NotProxied == [host |-> "", path |-> "", transport |-> "", status |-> 0, cluster |-> "",
               hop |-> "none", xfcc |-> FALSE]

-----------------------------------------------------------------------------
(* The pieces of a document.                                                 *)

file_common_tls_context == "files"
sds_common_tls_context == "sds"

common_tls_context == IF sds THEN sds_common_tls_context ELSE file_common_tls_context

\* Terminates mTLS and requires a client certificate; originates mTLS.
downstream_tls_transport_socket == common_tls_context
upstream_tls_transport_socket == common_tls_context

Cluster(name, type, endpoints, tls) ==
    [name |-> name, type |-> type, endpoints |-> endpoints, tls |-> tls]

sds_cluster == Cluster("spiffe_sds", "STATIC", {"pipe"}, "none")

\* A filter chain with an HttpConnectionManager, or with a TCP proxy.
HttpChain(match, tls, domains, routes, xfcc) ==
    [match |-> match, tls |-> tls, filter |-> "http", domains |-> domains,
     routes |-> routes, xfcc |-> xfcc, cluster |-> ""]

TcpChain(cluster) ==
    [match |-> "any", tls |-> "none", filter |-> "tcp", domains |-> {}, routes |-> <<>>,
     xfcc |-> FALSE, cluster |-> cluster]

ToCluster(prefix, cluster) == [prefix |-> prefix, cluster |-> cluster, status |-> 0]
DirectResponse(prefix, status) == [prefix |-> prefix, cluster |-> "", status |-> status]

-----------------------------------------------------------------------------
(* _build_doc.                                                               *)

routes_doc(p) ==
    IF p.routes = <<>> THEN <<DirectResponse("/", 404)>>
    ELSE [i \in DOMAIN p.routes |-> ToCluster(p.routes[i].prefix, p.routes[i].cluster)]

domains_doc(p) ==
    IF p.routes = <<>> THEN {"*"} ELSE {p.routes[i].host : i \in DOMAIN p.routes}

listener_doc(p) ==
    {HttpChain("any", IF p.mtls THEN downstream_tls_transport_socket ELSE "none",
               domains_doc(p), routes_doc(p), p.mtls)}

\* Mutant: mTLS ends at the listener.
cluster_doc_plain(p, name) == Cluster(name, "STRICT_DNS", p.clusters[name], "none")

cluster_doc(p, name) ==
    Cluster(name, "STRICT_DNS", p.clusters[name],
            IF p.mtls THEN upstream_tls_transport_socket ELSE "none")

sds_clusters(p) == IF p.mtls /\ sds THEN {sds_cluster} ELSE {}

build_doc(p) ==
    [listeners |-> {listener_doc(p) : l \in p.listeners},
     clusters  |-> {cluster_doc(p, name) : name \in DOMAIN p.clusters} \cup sds_clusters(p)]

\* ep.split(":")[1] raises for an endpoint without a port.
build_doc_raises(p) == \E name \in DOMAIN p.clusters : "no_port" \in p.clusters[name]

-----------------------------------------------------------------------------
(* validate_bootstrap: the models of envoy_v3.py.                            *)

valid_route(r) == (r.cluster = "") # (r.status = 0)

valid_chain(c) ==
    c.filter = "http" => /\ c.domains # {} /\ c.routes # <<>>
                         /\ \A i \in DOMAIN c.routes : valid_route(c.routes[i])

\* An ORIGINAL_DST cluster has no load_assignment; any other here has endpoints,
\* each a pipe or a socket address with a port in 1..65535.
valid_cluster(c) ==
    c.type # "ORIGINAL_DST" => c.endpoints # {} /\ c.endpoints \subseteq {"port", "pipe"}

validate_bootstrap(d) ==
    /\ \A chains \in d.listeners : chains # {} /\ \A c \in chains : valid_chain(c)
    /\ \A c \in d.clusters : valid_cluster(c)

\* A TLS context that takes its certificate from SDS needs the agent's cluster.
sds_resolves(d) ==
    (\/ \E chains \in d.listeners : \E c \in chains : c.tls = "sds"
     \/ \E c \in d.clusters : c.tls = "sds")
        => sds_cluster \in d.clusters

-----------------------------------------------------------------------------
(* An Envoy that has loaded a document.                                      *)

\* The chains a connection is given to: the transport must be the chain's, and a
\* chain with a TLS context speaks nothing else.
chains_for(chains, transport) ==
    {c \in chains : c.match \in {"any", transport} /\ (c.tls # "none") = (transport = "tls")}

\* The first route of the virtual host whose prefix matches; 0 if there is none.
route_index(c, host, path) ==
    LET hits == {i \in DOMAIN c.routes : matches(c.routes[i].prefix, path)}
    IN IF hits = {} \/ {"*", host} \cap c.domains = {} THEN 0 ELSE Min(hits)

\* Envoy refuses a bootstrap with two clusters of one name.
loads(d) == \A c, k \in d.clusters : c.name = k.name => c = k

tls_to(d, name) == LET cs == {c \in d.clusters : c.name = name} IN
    IF cs = {} THEN "unknown" ELSE (CHOOSE c \in cs : TRUE).tls

-----------------------------------------------------------------------------
EnvoyInit ==
    /\ sds \in BOOLEAN
    /\ lb = NoLb /\ doc = NoDoc /\ render_status = 0 /\ proxied = NotProxied

\* EnvoyRenderer.render behind POST /render: an endpoint without a port escapes
\* as an error of the server, a document the schema refuses answers 422.
render_lb(p) ==
    /\ lb' = p
    /\ \/ build_doc_raises(p) /\ render_status' = 500 /\ UNCHANGED doc
       \/ /\ ~build_doc_raises(p) /\ ~validate_bootstrap(build_doc(p))
          /\ render_status' = 422 /\ UNCHANGED doc
       \/ /\ ~build_doc_raises(p) /\ validate_bootstrap(build_doc(p))
          /\ render_status' = 200 /\ doc' = build_doc(p)
    /\ UNCHANGED <<sds, proxied>>

render_envoy ==
    /\ render_status = 0
    /\ \E p \in LbParameters : render_lb(p)

\* A request of a client with its certificate (tls), or without any (raw_buffer).
proxy(host, path, transport) ==
    \E chains \in doc.listeners :
      LET cs == chains_for(chains, transport)
          c == CHOOSE x \in cs : TRUE
          i == IF cs = {} THEN 0 ELSE route_index(c, host, path)
          r == c.routes[i]
          answered == [NotProxied EXCEPT !.host = host, !.path = path, !.transport = transport]
      IN proxied' =
           IF cs = {} THEN answered                   \* connection refused
           ELSE IF i = 0 THEN [answered EXCEPT !.status = 404]
           ELSE IF r.cluster = "" THEN [answered EXCEPT !.status = r.status]
           ELSE IF tls_to(doc, r.cluster) = "unknown" THEN [answered EXCEPT !.status = 503]
           ELSE [answered EXCEPT !.status = 200, !.cluster = r.cluster,
                                 !.hop = tls_to(doc, r.cluster), !.xfcc = c.xfcc]

client_request ==
    /\ render_status = 200 /\ loads(doc) /\ proxied = NotProxied
    /\ \E host \in Hosts, path \in Paths, transport \in {"tls", "raw_buffer"} :
         proxy(host, path, transport)
    /\ UNCHANGED <<sds, lb, doc, render_status>>

EnvoyNext == render_envoy \/ client_request

EnvoySpec == EnvoyInit /\ [][EnvoyNext]_envoyVars

-----------------------------------------------------------------------------
EnvoyTypeOK ==
    /\ sds \in BOOLEAN
    /\ render_status \in {0, 200, 422, 500}
    /\ proxied.status \in {0, 200, 404, 503}
    /\ \A c \in doc.clusters : c.tls \in {"none", "files", "sds"}

\* The template has no bug the schema would catch: a request is refused with 422
\* only for a port the client gave, whatever lists it left empty (_build_doc's
\* defaults for an instance without routes, envoy_v3.py's min_length).
OnlyBadPortsRefused ==
    render_status = 422 => \E name \in DOMAIN lb.clusters : "bad_port" \in lb.clusters[name]

\* A route may name the cluster _build_doc adds for the SPIRE agent.
ToAgent == sds /\ proxied.cluster = sds_cluster.name

\* What an instance with mtls_enabled passes on came over mTLS, carries the peer's
\* identity, and goes on over mTLS, whatever listeners, routes and clusters it asked
\* for and wherever the certificates come from; all but what goes to the agent.
NoPlaintextHop ==
    lb.mtls /\ proxied.cluster # "" /\ ~ToAgent =>
        proxied.transport = "tls" /\ proxied.xfcc /\ proxied.hop # "none"

\* Violated by the code.  render.py:140-142: "with both in place, east-west traffic is
\* mutually authenticated in both directions, leaving no plaintext hop when
\* `mtls_enabled` is set"; a route to the agent's cluster is one.
NoPlaintextAtAll == lb.mtls /\ proxied.cluster # "" => proxied.hop # "none"

\* Violated by the code.  A route names its host (models.py:33-36, and the schema
\* of renderers/envoy.py:87-97 requires it); _build_doc puts the routes of every
\* host into one virtual host, so that a request for one host is sent to the
\* cluster of another.
HostsKeptApart ==
    proxied.cluster # "" =>
        \E i \in DOMAIN lb.routes : /\ lb.routes[i].host = proxied.host
                                    /\ lb.routes[i].cluster = proxied.cluster

\* Violated by the code.  render.py:4-7: a bug "fails loudly here instead of
\* silently shipping a broken config to S3"; a route to a cluster the instance
\* does not have passes the schema.
RenderedRoutesResolve == proxied.status # 503

\* Violated by the code.  renderers/base.py:42-43: "May raise on invalid inputs
\* (the chassis converts to 422 problem detail)"; an endpoint without a port
\* raises an IndexError that nothing converts.
BadEndpointIs422 == render_status # 500

=============================================================================
