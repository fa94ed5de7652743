--------------------------- MODULE ServingProofs ----------------------------
(***************************************************************************)
(* What the service packs render, what Envoy documents and the mesh do with *)
(* a request, and what a scrape of the metrics reports, for any number of  *)
(* tags, hosts, clusters, services, routes and requests.                   *)
(***************************************************************************)
EXTENDS Packs, Mesh, Metrics, FiniteSetTheorems, TLAPS

-----------------------------------------------------------------------------
(* The service packs (Packs).                                                *)

\* The default of an integer field lies within its bounds.
DefaultsWithin(p) == \A f \in DOMAIN p.ints : p.ints[f][3] \in p.ints[f][1]..p.ints[f][2]

\* validate looks for the document render writes.
WritesWhatItWants(r) == r.wants[1] = r.writes[1] /\ r.wants[2] \in {AnyKind, r.writes[2]}

\* Every pack's class has sound defaults, its render and its validate agree on the
\* file's name and on the kind of document in it, and its deployment step has an
\* executor.
LEMMA RenderersSound ==
    ASSUME NEW t \in PackTypes
    PROVE  /\ DefaultsWithin(renderers[t].params) /\ WritesWhatItWants(renderers[t])
           /\ renderers[t].step \in {NoStep, "k8s-apply", "terraform-apply"}
  <1>1. CASE t = "inference-endpoint"
    <2>1. renderers[t] = InferenceEndpointRenderer
      BY <1>1 DEF renderers
    <2>2. DefaultsWithin(InferenceEndpointParams)
      BY DEF DefaultsWithin, InferenceEndpointParams
    <2>3. InferenceEndpointRenderer.params = InferenceEndpointParams
      BY DEF Renderer, InferenceEndpointRenderer
    <2>4. /\ WritesWhatItWants(InferenceEndpointRenderer)
          /\ InferenceEndpointRenderer.step \in {NoStep, "k8s-apply", "terraform-apply"}
      BY DEF Renderer, WritesWhatItWants, InferenceEndpointRenderer, AnyKind, k8s_deployment
    <2> QED BY <2>1, <2>2, <2>3, <2>4
  <1>2. CASE t = "rag-workspace"
    <2>1. renderers[t] = RagWorkspaceRenderer
      BY <1>2 DEF renderers
    <2>2. DefaultsWithin(RagWorkspaceParams)
      BY DEF DefaultsWithin, RagWorkspaceParams, NoInts
    <2>3. RagWorkspaceRenderer.params = RagWorkspaceParams
      BY DEF Renderer, RagWorkspaceRenderer
    <2>4. /\ WritesWhatItWants(RagWorkspaceRenderer)
          /\ RagWorkspaceRenderer.step \in {NoStep, "k8s-apply", "terraform-apply"}
      BY DEF Renderer, WritesWhatItWants, RagWorkspaceRenderer, AnyKind
    <2> QED BY <2>1, <2>2, <2>3, <2>4
  <1>3. CASE t = "managed-database"
    <2>1. renderers[t] = ManagedDatabaseRenderer
      BY <1>3 DEF renderers
    <2>2. DefaultsWithin(ManagedDatabaseParams)
      BY DEF DefaultsWithin, ManagedDatabaseParams
    <2>3. ManagedDatabaseRenderer.params = ManagedDatabaseParams
      BY DEF Renderer, ManagedDatabaseRenderer
    <2>4. /\ WritesWhatItWants(ManagedDatabaseRenderer)
          /\ ManagedDatabaseRenderer.step \in {NoStep, "k8s-apply", "terraform-apply"}
      BY DEF Renderer, WritesWhatItWants, ManagedDatabaseRenderer, AnyKind, tf_database
    <2> QED BY <2>1, <2>2, <2>3, <2>4
  <1>4. CASE t = "vector-db"
    <2>1. renderers[t] = VectorDbRenderer
      BY <1>4 DEF renderers
    <2>2. DefaultsWithin(VectorDbParams)
      BY DEF DefaultsWithin, VectorDbParams
    <2>3. VectorDbRenderer.params = VectorDbParams
      BY DEF Renderer, VectorDbRenderer
    <2>4. /\ WritesWhatItWants(VectorDbRenderer)
          /\ VectorDbRenderer.step \in {NoStep, "k8s-apply", "terraform-apply"}
      BY DEF Renderer, WritesWhatItWants, VectorDbRenderer, AnyKind
    <2> QED BY <2>1, <2>2, <2>3, <2>4
  <1>5. CASE t = "siem-workspace"
    <2>1. renderers[t] = SiemWorkspaceRenderer
      BY <1>5 DEF renderers
    <2>2. DefaultsWithin(SiemWorkspaceParams)
      BY DEF DefaultsWithin, SiemWorkspaceParams
    <2>3. SiemWorkspaceRenderer.params = SiemWorkspaceParams
      BY DEF Renderer, SiemWorkspaceRenderer
    <2>4. /\ WritesWhatItWants(SiemWorkspaceRenderer)
          /\ SiemWorkspaceRenderer.step \in {NoStep, "k8s-apply", "terraform-apply"}
      BY DEF Renderer, WritesWhatItWants, SiemWorkspaceRenderer, AnyKind, siem_statefulset
    <2> QED BY <2>1, <2>2, <2>3, <2>4
  <1>6. CASE t = "log-pipeline"
    <2>1. renderers[t] = LogPipelineRenderer
      BY <1>6 DEF renderers
    <2>2. DefaultsWithin(LogPipelineParams)
      BY DEF DefaultsWithin, LogPipelineParams, NoInts
    <2>3. LogPipelineRenderer.params = LogPipelineParams
      BY DEF Renderer, LogPipelineRenderer
    <2>4. /\ WritesWhatItWants(LogPipelineRenderer)
          /\ LogPipelineRenderer.step \in {NoStep, "k8s-apply", "terraform-apply"}
      BY DEF Renderer, WritesWhatItWants, LogPipelineRenderer, AnyKind
    <2> QED BY <2>1, <2>2, <2>3, <2>4
  <1>7. CASE t = "edge-node"
    <2>1. renderers[t] = EdgeNodeRenderer
      BY <1>7 DEF renderers
    <2>2. DefaultsWithin(EdgeNodeParams)
      BY DEF DefaultsWithin, EdgeNodeParams, NoInts
    <2>3. EdgeNodeRenderer.params = EdgeNodeParams
      BY DEF Renderer, EdgeNodeRenderer
    <2>4. /\ WritesWhatItWants(EdgeNodeRenderer)
          /\ EdgeNodeRenderer.step \in {NoStep, "k8s-apply", "terraform-apply"}
      BY DEF Renderer, WritesWhatItWants, EdgeNodeRenderer, AnyKind
    <2> QED BY <2>1, <2>2, <2>3, <2>4
  <1>8. CASE t = "edge-cluster"
    <2>1. renderers[t] = EdgeClusterRenderer
      BY <1>8 DEF renderers
    <2>2. DefaultsWithin(EdgeClusterParams)
      BY DEF DefaultsWithin, EdgeClusterParams
    <2>3. EdgeClusterRenderer.params = EdgeClusterParams
      BY DEF Renderer, EdgeClusterRenderer
    <2>4. /\ WritesWhatItWants(EdgeClusterRenderer)
          /\ EdgeClusterRenderer.step \in {NoStep, "k8s-apply", "terraform-apply"}
      BY DEF Renderer, WritesWhatItWants, EdgeClusterRenderer, AnyKind
    <2> QED BY <2>1, <2>2, <2>3, <2>4
  <1>9. CASE t = "secure-email"
    <2>1. renderers[t] = SecureEmailRenderer
      BY <1>9 DEF renderers
    <2>2. DefaultsWithin(SecureEmailParams)
      BY DEF DefaultsWithin, SecureEmailParams
    <2>3. SecureEmailRenderer.params = SecureEmailParams
      BY DEF Renderer, SecureEmailRenderer
    <2>4. /\ WritesWhatItWants(SecureEmailRenderer)
          /\ SecureEmailRenderer.step \in {NoStep, "k8s-apply", "terraform-apply"}
      BY DEF Renderer, WritesWhatItWants, SecureEmailRenderer, AnyKind
    <2> QED BY <2>1, <2>2, <2>3, <2>4
  <1>10. CASE t = "secure-chat"
    <2>1. renderers[t] = SecureChatRenderer
      BY <1>10 DEF renderers
    <2>2. DefaultsWithin(SecureChatParams)
      BY DEF DefaultsWithin, SecureChatParams
    <2>3. SecureChatRenderer.params = SecureChatParams
      BY DEF Renderer, SecureChatRenderer
    <2>4. /\ WritesWhatItWants(SecureChatRenderer)
          /\ SecureChatRenderer.step \in {NoStep, "k8s-apply", "terraform-apply"}
      BY DEF Renderer, WritesWhatItWants, SecureChatRenderer, AnyKind
    <2> QED BY <2>1, <2>2, <2>3, <2>4
  <1>11. CASE t = "idp-broker"
    <2>1. renderers[t] = IdpBrokerRenderer
      BY <1>11 DEF renderers
    <2>2. DefaultsWithin(IdpBrokerParams)
      BY DEF DefaultsWithin, IdpBrokerParams
    <2>3. IdpBrokerRenderer.params = IdpBrokerParams
      BY DEF Renderer, IdpBrokerRenderer
    <2>4. /\ WritesWhatItWants(IdpBrokerRenderer)
          /\ IdpBrokerRenderer.step \in {NoStep, "k8s-apply", "terraform-apply"}
      BY DEF Renderer, WritesWhatItWants, IdpBrokerRenderer, AnyKind
    <2> QED BY <2>1, <2>2, <2>3, <2>4
  <1>12. CASE t = "scim-bridge"
    <2>1. renderers[t] = ScimBridgeRenderer
      BY <1>12 DEF renderers
    <2>2. DefaultsWithin(ScimBridgeParams)
      BY DEF DefaultsWithin, ScimBridgeParams
    <2>3. ScimBridgeRenderer.params = ScimBridgeParams
      BY DEF Renderer, ScimBridgeRenderer
    <2>4. /\ WritesWhatItWants(ScimBridgeRenderer)
          /\ ScimBridgeRenderer.step \in {NoStep, "k8s-apply", "terraform-apply"}
      BY DEF Renderer, WritesWhatItWants, ScimBridgeRenderer, AnyKind
    <2> QED BY <2>1, <2>2, <2>3, <2>4
  <1>13. CASE t = "cloud-account"
    <2>1. renderers[t] = CloudAccountRenderer
      BY <1>13 DEF renderers
    <2>2. DefaultsWithin(CloudAccountParams)
      BY DEF DefaultsWithin, CloudAccountParams, NoInts
    <2>3. CloudAccountRenderer.params = CloudAccountParams
      BY DEF Renderer, CloudAccountRenderer
    <2>4. /\ WritesWhatItWants(CloudAccountRenderer)
          /\ CloudAccountRenderer.step \in {NoStep, "k8s-apply", "terraform-apply"}
      BY DEF Renderer, WritesWhatItWants, CloudAccountRenderer, AnyKind
    <2> QED BY <2>1, <2>2, <2>3, <2>4
  <1>14. CASE t = "landing-zone"
    <2>1. renderers[t] = LandingZoneRenderer
      BY <1>14 DEF renderers
    <2>2. DefaultsWithin(LandingZoneParams)
      BY DEF DefaultsWithin, LandingZoneParams
    <2>3. LandingZoneRenderer.params = LandingZoneParams
      BY DEF Renderer, LandingZoneRenderer
    <2>4. /\ WritesWhatItWants(LandingZoneRenderer)
          /\ LandingZoneRenderer.step \in {NoStep, "k8s-apply", "terraform-apply"}
      BY DEF Renderer, WritesWhatItWants, LandingZoneRenderer, AnyKind
    <2> QED BY <2>1, <2>2, <2>3, <2>4
  <1>15. CASE t = "permissioned-ledger"
    <2>1. renderers[t] = PermissionedLedgerRenderer
      BY <1>15 DEF renderers
    <2>2. DefaultsWithin(PermissionedLedgerParams)
      BY DEF DefaultsWithin, PermissionedLedgerParams
    <2>3. PermissionedLedgerRenderer.params = PermissionedLedgerParams
      BY DEF Renderer, PermissionedLedgerRenderer
    <2>4. /\ WritesWhatItWants(PermissionedLedgerRenderer)
          /\ PermissionedLedgerRenderer.step \in {NoStep, "k8s-apply", "terraform-apply"}
      BY DEF Renderer, WritesWhatItWants, PermissionedLedgerRenderer, AnyKind
    <2> QED BY <2>1, <2>2, <2>3, <2>4
  <1> QED BY <1>1, <1>2, <1>3, <1>4, <1>5, <1>6, <1>7, <1>8,
             <1>9, <1>10, <1>11, <1>12, <1>13, <1>14, <1>15
         DEF PackTypes, AiPack, DataPack, SecopsPack, EdgePack, CommsPack, IdentityPack,
             MulticloudPack, BlockchainPack, FinopsPack

\* What a flag and an integer of an artifact come from (_params of the packs).
LEMMA FlagAsAsked ==
    ASSUME NEW r, NEW tags, NEW f
    PROVE  /\ f \notin DOMAIN tags => params_flag(r, tags, f) = r.params.flags[f]
           /\ f \in DOMAIN tags /\ tags[f] \in {"true", "TRUE"} => params_flag(r, tags, f)
           /\ f \in DOMAIN tags /\ tags[f] = "false" => ~params_flag(r, tags, f)
  <1>1. CASE f \notin DOMAIN tags
    BY <1>1, Zenon DEF params_flag
  <1>2. CASE f \in DOMAIN tags /\ r.coerces
    <2>1. params_flag(r, tags, f) = coerce_bool(tags[f])
      BY <1>2, Zenon DEF params_flag
    <2> QED BY <1>2, <2>1, Zenon DEF coerce_bool, lower
  <1>3. CASE f \in DOMAIN tags /\ ~r.coerces
    <2>1. params_flag(r, tags, f) = pydantic_bool(tags[f])
      BY <1>3, Zenon DEF params_flag
    <2> QED BY <1>3, <2>1, Zenon DEF pydantic_bool, lower
  <1> QED BY <1>1, <1>2, <1>3, Zenon

\* An artifact is the rendering of the tags of the instance that is recorded, and its
\* tags raised nothing.
ArtifactOfInstance ==
    /\ instance = NoInstance \/ instance.type \in PackTypes
    /\ artifact # NoArtifact =>
         /\ instance.type \in PackTypes
         /\ artifact = render(renderers[instance.type], instance.tags)
         /\ ~params_raise(renderers[instance.type], instance.tags)
    /\ instance = NoInstance => artifact = NoArtifact
    /\ answer = 0 => artifact = NoArtifact

PacksInv == ArtifactOfInstance /\ OwnArtifactValid

\* Such an artifact is as asked.
LEMMA RenderingIsAsAsked == ArtifactOfInstance => RenderedAsAsked
  <1> SUFFICES ASSUME ArtifactOfInstance, artifact # NoArtifact PROVE RenderedAsAsked
    BY Zenon DEF RenderedAsAsked
  <1> DEFINE r == renderers[instance.type]
             p == r.params
             tags == instance.tags
  <1>1. instance.type \in PackTypes /\ artifact = render(r, tags) /\ ~params_raise(r, tags)
    BY Zenon DEF ArtifactOfInstance
  <1>2. /\ \A f \in DOMAIN artifact.flags : artifact.flags[f] = params_flag(r, tags, f)
        /\ \A f \in DOMAIN p.ints : artifact.ints[f] = params_int(r, tags, f)
    BY <1>1, Zenon DEF render
  <1>3. DefaultsWithin(p)
    BY <1>1, RenderersSound, Zenon
  <1> HIDE DEF r
  <1>4. ASSUME NEW f \in DOMAIN artifact.flags
        PROVE  IF f \in DOMAIN tags
               THEN /\ tags[f] \in {"true", "TRUE"} => artifact.flags[f]
                    /\ tags[f] = "false" => ~artifact.flags[f]
               ELSE artifact.flags[f] = p.flags[f]
    BY <1>2, FlagAsAsked, Zenon
  <1>5. ASSUME NEW f \in DOMAIN p.ints
        PROVE  /\ artifact.ints[f] \in p.ints[f][1]..p.ints[f][2]
               /\ f \notin DOMAIN tags => artifact.ints[f] = p.ints[f][3]
    <2>1. CASE f \in DOMAIN tags
      <3>1. int_valid(p.ints[f], tags[f])
        BY <1>1, <2>1, Zenon DEF params_raise
      <3>2. artifact.ints[f] = number(p.ints[f], tags[f])
        BY <1>2, <2>1, Zenon DEF params_int
      <3> QED BY <2>1, <3>1, <3>2, Zenon DEF int_valid
    <2>2. CASE f \notin DOMAIN tags
      BY <1>2, <1>3, <2>2, Zenon DEF params_int, DefaultsWithin
    <2> QED BY <2>1, <2>2, Zenon
  <1> QED BY <1>4, <1>5, Zenon DEF RenderedAsAsked, r

\* Recording, rendering and tearing down an instance keep the invariant.
LEMMA PacksStep == PacksInv /\ [PacksNext]_packVars => PacksInv'
  <1> SUFFICES ASSUME PacksInv, [PacksNext]_packVars PROVE PacksInv'
    BY Zenon
  <1> USE DEF PacksInv, ArtifactOfInstance, OwnArtifactValid
  <1>1. CASE provisioned
    <2>1. PICK t \in DOMAIN renderers : \E tags \in TagSets(renderers[t]) :
                 instance' = [type |-> t, tags |-> tags]
      BY <1>1, Zenon DEF provisioned
    <2>2. t \in PackTypes /\ instance'.type = t
      <3>1. DOMAIN renderers = PackTypes
        BY Zenon DEF renderers
      <3> QED BY <2>1, <3>1
    <2>3. t # "none"
      BY <2>2, Zenon DEF PackTypes, AiPack, DataPack, SecopsPack, EdgePack, CommsPack, IdentityPack,
                  MulticloudPack, BlockchainPack, FinopsPack
    <2>4. artifact = NoArtifact /\ artifact' = NoArtifact /\ answer' = answer
      BY <1>1, Zenon DEF provisioned
    <2> QED BY <2>2, <2>4, Zenon
  <1>2. CASE render_request
    <2> DEFINE r == renderers[instance.type]
               a == render(r, instance.tags)
    <2>1. instance.type \in PackTypes /\ instance' = instance
      BY <1>2, Zenon DEF render_request
    <2>2. a.file = r.writes
      BY Zenon DEF render
    <2>3. validate(r, a)
      BY <2>1, <2>2, RenderersSound DEF WritesWhatItWants, validate
    <2>4. apply(r) => answer' \in {200, 503}
      <3>1. r.step \in {NoStep, "k8s-apply", "terraform-apply"}
        BY <2>1, RenderersSound, Zenon
      <3> HIDE DEF r
      <3> QED BY <3>1, ZenonT(30) DEF apply, KubernetesExecutor, TerraformExecutor, NoStep
    <2>5. CASE params_raise(r, instance.tags)
      <3>1. answer = 0 /\ answer' = 500 /\ artifact' = artifact
        BY <1>2, <2>5 DEF render_request
      <3> QED BY <2>1, <3>1
    <2>6. CASE ~params_raise(r, instance.tags)
      <3>1. apply(r) /\ artifact' = a /\ instance # NoInstance
        BY <1>2, <2>3, <2>6 DEF render_request
      <3>2. answer' \in {200, 503}
        BY <2>4, <3>1
      <3>3. /\ artifact' = render(renderers[instance'.type], instance'.tags)
            /\ ~params_raise(renderers[instance'.type], instance'.tags)
        BY <2>1, <2>6, <3>1, Zenon
      <3> QED BY <2>1, <3>1, <3>2, <3>3
    <2> QED BY <2>5, <2>6, Zenon
  <1>3. CASE teardown
    BY <1>3 DEF teardown
  <1>4. CASE UNCHANGED packVars
    BY <1>4, Zenon DEF packVars
  <1> QED BY <1>1, <1>2, <1>3, <1>4, Zenon DEF PacksNext

\* The invariant holds throughout.
LEMMA PacksInvariant == PacksSpec => []PacksInv
  <1>1. PacksInit => PacksInv
    BY DEF PacksInit, PacksInv, ArtifactOfInstance, OwnArtifactValid, NoInstance
  <1> QED BY <1>1, PacksStep, PTL DEF PacksSpec

\* What a document says of a parameter is what the tenant wrote, however many tags a
\* request sets: the flags it carries as the tags say or at their defaults, the
\* integers within the bounds of the pack's model (the _params methods and models.py
\* of the packs).
THEOREM RendersAsAsked == PacksSpec => []RenderedAsAsked
  BY PacksInvariant, RenderingIsAsAsked, PTL DEF PacksInv

\* No artifact a pack renders is refused by the validate of the same class.
THEOREM OwnArtifactsValid == PacksSpec => []OwnArtifactValid
  BY PacksInvariant, PTL DEF PacksInv

-----------------------------------------------------------------------------
(* Envoy documents and the mesh (Envoy, Mesh).                             *)

\* An instance serves with the document of its parameters; before that it has none.
DocumentOfParameters ==
    /\ render_status = 0 => lb = NoLb
    /\ render_status # 200 => doc = NoDoc /\ proxied = NotProxied
    /\ render_status = 200 => doc = build_doc(lb)

\* Whatever the certificates come from, a TLS context is one.
LEMMA TlsIsSet == common_tls_context # "none" /\ common_tls_context \in {"files", "sds"}
  BY Zenon DEF common_tls_context, sds_common_tls_context, file_common_tls_context

\* A document is not built where the endpoints have no ports, and kept as it is built.
LEMMA RenderEffect ==
    ASSUME DocumentOfParameters, render_envoy
    PROVE  DocumentOfParameters' /\ UNCHANGED <<sds, proxied>> /\ proxied = NotProxied
  <1>1. PICK p \in LbParameters : render_status = 0 /\ render_lb(p)
    BY Zenon DEF render_envoy
  <1>2. /\ doc = NoDoc /\ proxied = NotProxied /\ lb' = p /\ UNCHANGED <<sds, proxied>>
        /\ \/ render_status' \in {422, 500} /\ doc' = doc
           \/ render_status' = 200 /\ doc' = build_doc(p)
    BY <1>1 DEF render_lb, DocumentOfParameters
  <1>3. build_doc(p) = build_doc(lb)'
    BY <1>2 DEF build_doc, listener_doc, cluster_doc, sds_clusters, downstream_tls_transport_socket,
                upstream_tls_transport_socket, common_tls_context
  <1> QED BY <1>2, <1>3 DEF DocumentOfParameters

\* A step that is not the instance's leaves the document its own.
LEMMA DocumentStays ==
    ASSUME DocumentOfParameters, UNCHANGED envoyVars
    PROVE  DocumentOfParameters'
  <1>1. build_doc(lb)' = build_doc(lb)
    BY Zenon DEF envoyVars, build_doc, listener_doc, cluster_doc, sds_clusters,
           downstream_tls_transport_socket, upstream_tls_transport_socket, common_tls_context
  <1> QED BY <1>1, Zenon DEF envoyVars, DocumentOfParameters

\* A request leaves the document as it is.
LEMMA RequestEffect ==
    ASSUME DocumentOfParameters, client_request
    PROVE  DocumentOfParameters' /\ UNCHANGED <<sds, lb, doc, render_status>>
  BY ZenonT(30) DEF client_request, DocumentOfParameters, build_doc, listener_doc, cluster_doc,
                    sds_clusters,
         downstream_tls_transport_socket, upstream_tls_transport_socket, common_tls_context

\* What an instance with mTLS passes on came over TLS, through a chain that forwards the
\* peer's identity, and goes to a cluster of its parameters over TLS, unless it goes to
\* the agent.
LEMMA ProxyEffect ==
    ASSUME doc = build_doc(lb), lb.mtls, proxied = NotProxied,
           NEW host \in Hosts, NEW path \in Paths, NEW transport \in {"tls", "raw_buffer"},
           proxy(host, path, transport), proxied'.cluster # "",
           ~(sds /\ proxied'.cluster = sds_cluster.name)
    PROVE  proxied'.transport = "tls" /\ proxied'.xfcc /\ proxied'.hop # "none"
  <1> DEFINE chain == HttpChain("any", downstream_tls_transport_socket, domains_doc(lb), routes_doc(lb), lb.mtls)
  <1>1. \A chains \in doc.listeners : chains = {chain}
    BY Zenon DEF build_doc, listener_doc
  <1>2. PICK chains \in doc.listeners :
          LET cs == chains_for(chains, transport)
              c == CHOOSE x \in cs : TRUE
              i == IF cs = {} THEN 0 ELSE route_index(c, host, path)
              r == c.routes[i]
              answered == [NotProxied EXCEPT !.host = host, !.path = path, !.transport = transport]
          IN proxied' =
               IF cs = {} THEN answered
               ELSE IF i = 0 THEN [answered EXCEPT !.status = 404]
               ELSE IF r.cluster = "" THEN [answered EXCEPT !.status = r.status]
               ELSE IF tls_to(doc, r.cluster) = "unknown" THEN [answered EXCEPT !.status = 503]
               ELSE [answered EXCEPT !.status = 200, !.cluster = r.cluster,
                                     !.hop = tls_to(doc, r.cluster), !.xfcc = c.xfcc]
    BY Zenon DEF proxy
  <1> DEFINE cs == chains_for(chains, transport)
             c == CHOOSE x \in cs : TRUE
             i == IF cs = {} THEN 0 ELSE route_index(c, host, path)
             r == c.routes[i]
             answered == [NotProxied EXCEPT !.host = host, !.path = path, !.transport = transport]
  <1>3. answered.cluster = "" /\ answered.transport = transport
    BY Zenon DEF NotProxied
  <1>4. DOMAIN answered = {"host", "path", "transport", "status", "cluster", "hop", "xfcc"}
    BY Zenon DEF NotProxied
  <1> HIDE DEF answered, i, r, c, cs
  <1>5. /\ cs # {} /\ tls_to(doc, r.cluster) # "unknown"
        /\ proxied' = [answered EXCEPT !.status = 200, !.cluster = r.cluster,
                                       !.hop = tls_to(doc, r.cluster), !.xfcc = c.xfcc]
    <2>1. proxied' = IF cs = {} THEN answered
               ELSE IF i = 0 THEN [answered EXCEPT !.status = 404]
               ELSE IF r.cluster = "" THEN [answered EXCEPT !.status = r.status]
               ELSE IF tls_to(doc, r.cluster) = "unknown" THEN [answered EXCEPT !.status = 503]
               ELSE [answered EXCEPT !.status = 200, !.cluster = r.cluster,
                                     !.hop = tls_to(doc, r.cluster), !.xfcc = c.xfcc]
      BY <1>2, Zenon DEF answered, i, r, c, cs
    <2>2. /\ [answered EXCEPT !.status = 404].cluster = ""
          /\ [answered EXCEPT !.status = 503].cluster = ""
          /\ [answered EXCEPT !.status = r.status].cluster = ""
      BY <1>3, <1>4, Zenon
    <2> QED BY <1>3, <2>1, <2>2, ZenonT(30)
  <1>6. /\ proxied'.transport = transport /\ proxied'.xfcc = c.xfcc
        /\ proxied'.hop = tls_to(doc, r.cluster) /\ proxied'.cluster = r.cluster
    BY <1>3, <1>4, <1>5, ZenonT(30)
  <1>7. c = chain /\ chain \in cs
    BY <1>1, <1>5, Zenon DEF c, cs, chains_for
  <1>8. chain.tls # "none" /\ chain.xfcc = lb.mtls
    BY TlsIsSet, Zenon DEF HttpChain, downstream_tls_transport_socket
  <1>9. transport = "tls"
    BY <1>7, <1>8, Zenon DEF cs, chains_for
  <1>10. tls_to(doc, r.cluster) # "none"
    <2> DEFINE ks == {k \in doc.clusters : k.name = r.cluster}
    <2>1. ks # {} /\ tls_to(doc, r.cluster) = (CHOOSE k \in ks : TRUE).tls
      BY <1>5, Zenon DEF tls_to
    <2>2. PICK k \in ks : tls_to(doc, r.cluster) = k.tls
      BY <2>1, Zenon
    <2>3. k \notin sds_clusters(lb)
      BY <1>6, <2>2, Zenon DEF sds_clusters
    <2>4. PICK name \in DOMAIN lb.clusters : k = cluster_doc(lb, name)
      BY <2>2, <2>3, Zenon DEF build_doc
    <2>5. k.tls = common_tls_context
      BY <2>4, Zenon DEF cluster_doc, Cluster, upstream_tls_transport_socket
    <2> QED BY <2>2, <2>5, TlsIsSet, Zenon
  <1> QED BY <1>6, <1>7, <1>8, <1>9, <1>10, Zenon

\* An instance whose parameters ask for mTLS passes nothing on in plain text: it came over
\* mTLS, carries the peer's identity and goes on over mTLS (_build_doc), for any hosts,
\* clusters and routes, whatever their names, but for what a route sends to the cluster the
\* document itself adds for the SPIRE agent, a local socket without TLS.
THEOREM NoPlaintext == EnvoySpec => []NoPlaintextHop
  <1> DEFINE Inv == DocumentOfParameters /\ NoPlaintextHop
  <1>1. EnvoyInit => Inv
    <2>1. NotProxied.cluster = ""
      BY Zenon DEF NotProxied
    <2>2. EnvoyInit => DocumentOfParameters
      BY DEF EnvoyInit, DocumentOfParameters
    <2>3. EnvoyInit => NoPlaintextHop
      BY <2>1, Zenon DEF EnvoyInit, NoPlaintextHop
    <2> QED BY <2>2, <2>3, Zenon
  <1>2. Inv /\ [EnvoyNext]_envoyVars => Inv'
    <2> SUFFICES ASSUME Inv, [EnvoyNext]_envoyVars PROVE Inv'
      BY Zenon
    <2>1. CASE UNCHANGED envoyVars
      <3>1. DocumentOfParameters'
        BY <2>1, DocumentStays, Zenon
      <3>2. proxied' = proxied /\ lb' = lb /\ ToAgent' = ToAgent
        BY <2>1, Zenon DEF envoyVars, ToAgent, sds_cluster
      <3> QED BY <3>1, <3>2, Zenon DEF NoPlaintextHop
    <2>2. CASE render_envoy
      <3>1. DocumentOfParameters' /\ proxied' = NotProxied
        BY <2>2, RenderEffect, Zenon
      <3> QED BY <3>1, Zenon DEF NoPlaintextHop, NotProxied
    <2>3. CASE client_request
      <3>1. DocumentOfParameters' /\ lb' = lb /\ sds' = sds
        BY <2>3, RequestEffect, Zenon
      <3>2. doc = build_doc(lb) /\ proxied = NotProxied
        BY <2>3, Zenon DEF client_request, DocumentOfParameters
      <3>3. ASSUME lb.mtls, proxied'.cluster # "", ~(sds /\ proxied'.cluster = sds_cluster.name)
            PROVE  proxied'.transport = "tls" /\ proxied'.xfcc /\ proxied'.hop # "none"
        BY <2>3, <3>2, <3>3, ProxyEffect, Zenon DEF client_request
      <3>4. NoPlaintextHop'
        BY <3>1, <3>3, Zenon DEF NoPlaintextHop, ToAgent, sds_cluster
      <3> QED BY <3>1, <3>4, Zenon
    <2> QED BY <2>1, <2>2, <2>3, Zenon DEF EnvoyNext
  <1> QED BY <1>1, <1>2, PTL DEF EnvoySpec

\* What _build_doc makes of any parameters passes the schema but for a port: it puts in
\* a route and a domain where there are none.
LEMMA RefusedForAPort ==
    ASSUME NEW p \in LbParameters, ~build_doc_raises(p), ~validate_bootstrap(build_doc(p))
    PROVE  \E name \in DOMAIN p.clusters : "bad_port" \in p.clusters[name]
  <1> DEFINE d == build_doc(p)
             chain == HttpChain("any", IF p.mtls THEN downstream_tls_transport_socket ELSE "none",
                                domains_doc(p), routes_doc(p), p.mtls)
  <1>1. /\ p.routes \in UNION {[1..n -> Route] : n \in 0..MaxRoutes}
        /\ p.clusters \in UNION {[names -> (SUBSET EndpointForms) \ {{}}] : names \in SUBSET Pools}
    BY Zenon DEF LbParameters
  <1>2. PICK n \in 0..MaxRoutes : p.routes \in [1..n -> Route]
    BY <1>1, Zenon
  <1>3. PICK names \in SUBSET Pools : p.clusters \in [names -> (SUBSET EndpointForms) \ {{}}]
    BY <1>1, Zenon
  <1>4. valid_chain(chain)
    <2>1. /\ chain.filter = "http" /\ chain.domains = domains_doc(p) /\ chain.routes = routes_doc(p)
      BY Zenon DEF HttpChain
    <2>2. CASE p.routes = <<>>
      <3> DEFINE direct == DirectResponse("/", 404)
      <3>1. domains_doc(p) = {"*"} /\ routes_doc(p) = <<direct>>
        BY <2>2 DEF domains_doc, routes_doc
      <3>2. valid_route(direct)
        BY DEF valid_route, DirectResponse
      <3> HIDE DEF chain, direct
      <3>3. routes_doc(p) # <<>> /\ \A i \in DOMAIN routes_doc(p) : routes_doc(p)[i] = direct
        BY <3>1
      <3> QED BY <2>1, <3>1, <3>2, <3>3, Zenon DEF valid_chain
    <2>3. CASE p.routes # <<>>
      <3>0. DOMAIN p.routes = 1..n
        BY <1>2, Zenon
      <3>1. DOMAIN p.routes = 1..n /\ n \in Nat
        <4>1. MaxRoutes \in Nat
          BY EnvoyAssumption, Zenon
        <4>2. n \in Nat
          BY <4>1
        <4> QED BY <3>0, <4>2, Zenon
      <3>2. n # 0
        BY <1>2, <2>3
      <3>3. 1 \in DOMAIN p.routes
        BY <3>1, <3>2
      <3>4. routes_doc(p) = [i \in DOMAIN p.routes |->
                               ToCluster(p.routes[i].prefix, p.routes[i].cluster)]
        BY <2>3, Zenon DEF routes_doc
      <3>5. domains_doc(p) # {}
        BY <2>3, <3>3, Zenon DEF domains_doc
      <3>6. routes_doc(p) # <<>>
        BY <3>3, <3>4
      <3>7. ASSUME NEW i \in DOMAIN routes_doc(p) PROVE valid_route(routes_doc(p)[i])
        <4>1. i \in DOMAIN p.routes /\ p.routes[i].cluster \in Pools
          BY <1>2, <3>4, Zenon DEF Route
        <4>2. routes_doc(p)[i] = ToCluster(p.routes[i].prefix, p.routes[i].cluster)
          BY <3>4, <4>1, Zenon
        <4>3. /\ ToCluster(p.routes[i].prefix, p.routes[i].cluster).cluster # ""
              /\ ToCluster(p.routes[i].prefix, p.routes[i].cluster).status = 0
          BY <4>1, EnvoyAssumption, Zenon DEF ToCluster
        <4> QED BY <4>2, <4>3, Zenon DEF valid_route
      <3> HIDE DEF chain
      <3> QED BY <2>1, <3>5, <3>6, <3>7, Zenon DEF valid_chain
    <2> QED BY <2>2, <2>3, Zenon
  <1>5. \A chains \in d.listeners : chains = {chain}
    BY Zenon DEF build_doc, listener_doc
  <1> HIDE DEF chain
  <1>6. PICK c \in d.clusters : ~valid_cluster(c)
    BY <1>4, <1>5, Zenon DEF validate_bootstrap
  <1>7. c # sds_cluster
    BY <1>6 DEF valid_cluster, sds_cluster, Cluster
  <1>8. PICK name \in DOMAIN p.clusters : c = cluster_doc(p, name)
    BY <1>6, <1>7, Zenon DEF build_doc, sds_clusters
  <1>9. /\ p.clusters[name] # {} /\ p.clusters[name] \subseteq EndpointForms
        /\ c.endpoints = p.clusters[name]
    <2>1. c.endpoints = p.clusters[name]
      BY <1>8, Zenon DEF cluster_doc, Cluster
    <2>2. p.clusters[name] \in (SUBSET EndpointForms) \ {{}}
      BY <1>3, <1>8, Zenon
    <2> DEFINE forms == p.clusters[name]
    <2>3. forms \in SUBSET EndpointForms /\ forms \notin {{}}
      BY <2>2, Zenon
    <2> HIDE DEF forms
    <2>4. forms # {} /\ forms \subseteq EndpointForms
      BY <2>3, Zenon
    <2> QED BY <2>1, <2>4, Zenon DEF forms
  <1>10. ~(p.clusters[name] \subseteq {"port", "pipe"})
    BY <1>6, <1>9, Zenon DEF valid_cluster
  <1>11. "no_port" \notin p.clusters[name]
    BY Zenon DEF build_doc_raises
  <1> QED BY <1>9, <1>10, <1>11, Zenon DEF EndpointForms

\* A request is refused with 422 only for a port the client gave (EnvoyRenderer.render,
\* validate_bootstrap), whatever lists it left empty.
THEOREM RefusedOnlyForPorts == EnvoySpec => []OnlyBadPortsRefused
  <1>1. EnvoyInit => OnlyBadPortsRefused
    BY DEF EnvoyInit, OnlyBadPortsRefused
  <1>2. OnlyBadPortsRefused /\ [EnvoyNext]_envoyVars => OnlyBadPortsRefused'
    <2> SUFFICES ASSUME OnlyBadPortsRefused, [EnvoyNext]_envoyVars PROVE OnlyBadPortsRefused'
      BY Zenon
    <2>1. CASE render_envoy
      <3>1. PICK p \in LbParameters : render_lb(p)
        BY <2>1, Zenon DEF render_envoy
      <3>2. /\ lb' = p
            /\ render_status' = 422 => ~build_doc_raises(p) /\ ~validate_bootstrap(build_doc(p))
        BY <3>1 DEF render_lb
      <3> QED BY <3>2, RefusedForAPort DEF OnlyBadPortsRefused
    <2>2. CASE client_request \/ UNCHANGED envoyVars
      <3>1. lb' = lb /\ render_status' = render_status
        BY <2>2, Zenon DEF client_request, envoyVars
      <3> QED BY <3>1 DEF OnlyBadPortsRefused
    <2> QED BY <2>1, <2>2, Zenon DEF EnvoyNext
  <1> QED BY <1>1, <1>2, PTL DEF EnvoySpec

\* A service is strict only once every service has its sidecar.
StrictLast ==
    /\ sidecar \in [Services -> {"none", "permissive", "strict"}]
    /\ \A s \in Services : sidecar[s] = "strict" => \A t \in Chassis : sidecar[t] # "none"

\* A call to a service with a sidecar over TLS meets the chain that knows the peer.
LEMMA TlsChain ==
    ASSUME NEW strict
    PROVE  /\ inbound_hcm("tls", downstream_tls_transport_socket, TRUE)
                \in chains_for(inbound_chains(strict), "tls")
           /\ inbound_hcm("tls", downstream_tls_transport_socket, TRUE).xfcc
  BY TlsIsSet, Zenon DEF inbound_hcm, HttpChain, chains_for, inbound_chains,
                         downstream_tls_transport_socket

\* A permissive sidecar has a chain for plain text.
LEMMA PlainChain ==
    inbound_hcm("raw_buffer", "none", FALSE) \in chains_for(inbound_chains(FALSE), "raw_buffer")
  BY Zenon DEF inbound_hcm, HttpChain, chains_for, inbound_chains

\* What leaves a pod is TLS if and only if it has a sidecar.
LEMMA TransportFrom ==
    ASSUME NEW a
    PROVE  transport_from(a) = IF sidecar[a] # "none" THEN "tls" ELSE "raw_buffer"
  BY TlsIsSet, Zenon DEF transport_from, outbound_cluster, Cluster, upstream_tls_transport_socket

\* The rollout keeps StrictLast.
LEMMA RolloutKeeps ==
    ASSUME StrictLast, MeshNext \/ UNCHANGED sidecar
    PROVE  StrictLast'
  <1>1. CASE UNCHANGED sidecar
    BY <1>1, Zenon DEF StrictLast
  <1>2. ASSUME NEW s \in Chassis, NEW strict \in BOOLEAN, render_sidecar_bootstrap(s, strict)
        PROVE  StrictLast'
    <2>1. CASE strict
      <3>1. sidecar' = [sidecar EXCEPT ![s] = "strict"] /\ \A t \in Chassis : sidecar[t] # "none"
        BY <1>2, <2>1, Zenon DEF render_sidecar_bootstrap
      <3> QED BY <3>1, Zenon DEF StrictLast, Services
    <2>2. CASE ~strict
      <3>1. sidecar' = [sidecar EXCEPT ![s] = "permissive"]
        BY <1>2, <2>2, Zenon DEF render_sidecar_bootstrap
      <3> QED BY <3>1, Zenon DEF StrictLast, Services
    <2> QED BY <2>1, <2>2, Zenon
  <1>3. ASSUME NEW a \in Services, NEW b \in Services, call(a, b)
        PROVE  StrictLast'
    BY <1>1, <1>3, Zenon DEF call
  <1> QED BY <1>1, <1>2, <1>3, Zenon DEF MeshNext

\* StrictLast is an inductive invariant of the rollout.
LEMMA StrictLastInvariant == MeshSpec => []StrictLast
  <1>1. MeshInit => StrictLast
    BY Zenon DEF MeshInit, StrictLast
  <1>2. ASSUME StrictLast, [MeshNext \/ (EnvoyNext /\ UNCHANGED meshVars)]_<<envoyVars, meshVars>>
        PROVE  StrictLast'
    BY <1>2, RolloutKeeps, Zenon DEF meshVars
  <1> QED BY <1>1, <1>2, PTL DEF MeshSpec

\* At every point of the rollout the services that have their sidecar reach each other,
\* and each is told who called (render_sidecar_bootstrap), for any services.
THEOREM MeshIdentifies == MeshSpec => MeshedCallsIdentified
  <1> DEFINE Good == \A a, b \in Services :
         sidecar[a] # "none" /\ sidecar[b] # "none" /\ call(a, b)
            => hop'.outcome = "served" /\ hop'.identity = a
  <1>1. Good
    <2> SUFFICES ASSUME NEW a \in Services, NEW b \in Services,
                        sidecar[a] # "none", sidecar[b] # "none", call(a, b)
                 PROVE  hop'.outcome = "served" /\ hop'.identity = a
      BY Zenon
    <2>1. transport_from(a) = "tls"
      BY TransportFrom, Zenon
    <2> DEFINE chains == chains_for(inbound_chains(sidecar[b] = "strict"), transport_from(a))
    <2>2. chains # {} /\ \E c \in chains : c.xfcc
      BY <2>1, TlsChain, Zenon
    <2> HIDE DEF chains
    <2>3. hop' = [from |-> a, to |-> b, outcome |-> "served", identity |-> a]
      BY <2>1, <2>2, Zenon DEF call, chains
    <2> QED BY <2>3, Zenon
  <1> QED BY <1>1, PTL DEF MeshSpec, MeshedCallsIdentified

\* A service that has no sidecar yet is served by those that have theirs, in whatever
\* order they are rolled out (the permissive chain of render_sidecar_bootstrap), since
\* none is strict before all have one.
THEOREM PlainCallersServed == MeshSpec => NotYetMigratedCallersServed
  <1> DEFINE Good == \A a, b \in Chassis :
         sidecar[a] = "none" /\ call(a, b) => hop'.outcome = "served"
  <1>1. StrictLast => Good
    <2> SUFFICES ASSUME StrictLast, NEW a \in Chassis, NEW b \in Chassis, sidecar[a] = "none", call(a, b)
                 PROVE  hop'.outcome = "served"
      BY Zenon
    <2>1. transport_from(a) = "raw_buffer" /\ sidecar[b] # "strict"
      BY TransportFrom, Zenon DEF StrictLast, Services
    <2> DEFINE chains == chains_for(inbound_chains(sidecar[b] = "strict"), transport_from(a))
    <2>2. chains # {}
      <3>1. (sidecar[b] = "strict") = FALSE
        BY <2>1, Zenon
      <3> QED BY <2>1, <3>1, PlainChain, Zenon
    <2>3. hop'.outcome = "served"
      BY <2>1, <2>2, Zenon DEF call
    <2> QED BY <2>3, Zenon
  <1> QED BY <1>1, StrictLastInvariant, PTL DEF MeshSpec, NotYetMigratedCallersServed

\* Every TLS context that takes its certificate from SDS finds the agent's cluster in its
\* document, an instance's (_build_doc) or a sidecar's (render_sidecar_bootstrap).
THEOREM SdsAlwaysResolves == MeshSpec => []SdsResolves
  <1>1. EnvoyInit => DocumentOfParameters
    BY DEF EnvoyInit, DocumentOfParameters
  <1>2. ASSUME DocumentOfParameters,
               [MeshNext \/ (EnvoyNext /\ UNCHANGED meshVars)]_<<envoyVars, meshVars>>
        PROVE  DocumentOfParameters'
    <2>1. CASE UNCHANGED envoyVars
      BY <1>2, <2>1, DocumentStays, Zenon
    <2> QED BY <1>2, <2>1, RenderEffect, RequestEffect, Zenon DEF MeshNext, EnvoyNext
  <1>3. DocumentOfParameters => SdsResolves
    <2> SUFFICES ASSUME DocumentOfParameters PROVE SdsResolves
      BY Zenon
    <2>1. ASSUME NEW p PROVE sds_resolves(build_doc(p))
      <3> SUFFICES ASSUME \/ \E chains \in build_doc(p).listeners : \E c \in chains : c.tls = "sds"
                          \/ \E c \in build_doc(p).clusters : c.tls = "sds"
                   PROVE  sds_cluster \in build_doc(p).clusters
        BY Zenon DEF sds_resolves
      <3>1. p.mtls /\ sds
        <4>1. common_tls_context = "sds" => sds
          BY Zenon DEF common_tls_context, file_common_tls_context
        <4>2. ASSUME NEW chains \in build_doc(p).listeners, NEW c \in chains, c.tls = "sds"
              PROVE  p.mtls /\ sds
          <5>1. c = HttpChain("any", IF p.mtls THEN common_tls_context ELSE "none",
                              domains_doc(p), routes_doc(p), p.mtls)
            BY <4>2, Zenon DEF build_doc, listener_doc, downstream_tls_transport_socket
          <5>2. c.tls = IF p.mtls THEN common_tls_context ELSE "none"
            BY <5>1, Zenon DEF HttpChain
          <5> QED BY <4>1, <4>2, <5>2, Zenon
        <4>3. ASSUME NEW c \in build_doc(p).clusters, c.tls = "sds"
              PROVE  p.mtls /\ sds
          <5>1. sds_cluster.tls = "none"
            BY Zenon DEF sds_cluster, Cluster
          <5>2. c # sds_cluster
            BY <4>3, <5>1, Zenon
          <5>3. PICK name \in DOMAIN p.clusters : c = cluster_doc(p, name)
            BY <4>3, <5>2, Zenon DEF build_doc, sds_clusters
          <5>4. c.tls = IF p.mtls THEN common_tls_context ELSE "none"
            BY <5>3, Zenon DEF cluster_doc, Cluster, upstream_tls_transport_socket
          <5> QED BY <4>1, <4>3, <5>4, Zenon
        <4> QED BY <4>2, <4>3, Zenon
      <3> QED BY <3>1, Zenon DEF build_doc, sds_clusters
    <2>2. sds_resolves(NoDoc)
      BY Zenon DEF sds_resolves, NoDoc
    <2>3. ASSUME NEW strict PROVE sds_resolves(sidecar_doc(strict))
      <3>1. CASE sds
        BY <3>1, Zenon DEF sds_resolves, sidecar_doc
      <3>2. CASE ~sds
        <4>1. common_tls_context = "files"
          BY <3>2, Zenon DEF common_tls_context, file_common_tls_context
        <4>2. \A c \in sidecar_doc(strict).clusters : c.tls # "sds"
          BY <3>2, <4>1 DEF sidecar_doc, outbound_cluster, Cluster, upstream_tls_transport_socket
        <4>3. \A c \in inbound_chains(strict) : c.tls # "sds"
          <5>1. inbound_hcm("tls", downstream_tls_transport_socket, TRUE).tls = "files"
            BY <4>1, Zenon DEF inbound_hcm, HttpChain, downstream_tls_transport_socket
          <5>2. inbound_hcm("raw_buffer", "none", FALSE).tls = "none"
            BY Zenon DEF inbound_hcm, HttpChain
          <5> QED BY <5>1, <5>2, Zenon DEF inbound_chains
        <4>4. \A c \in outbound_listener : c.tls # "sds"
          BY DEF outbound_listener, TcpChain
        <4>5. sidecar_doc(strict).listeners = {inbound_chains(strict), outbound_listener}
          BY Zenon DEF sidecar_doc
        <4> QED BY <4>2, <4>3, <4>4, <4>5, Zenon DEF sds_resolves
      <3> QED BY <3>1, <3>2, Zenon
    <2> QED BY <2>1, <2>2, <2>3, Zenon DEF SdsResolves, DocumentOfParameters
  <1> QED BY <1>1, <1>2, <1>3, PTL DEF MeshSpec

-----------------------------------------------------------------------------
(* The metrics of the HTTP middleware (Metrics).                           *)

Tally == [1..Buckets -> Nat]

ReportedLines == UNION {[rs -> [last : Nat, inf : Nat]] : rs \in SUBSET Templates}

Render == [pc : {"none", "counters", "keys", "buckets", "done", "error"},
           keys : SUBSET Templates, route : Templates, bucket : Nat,
           cumulative : Nat, lines : ReportedLines]

MetricsTypes ==
    /\ requests \in [Series -> Nat] /\ ended \in [Series -> Nat]
    /\ counts \in [Templates -> {NoTally} \cup Tally]
    /\ total \in [Templates -> Nat]
    /\ recording \in [pc : {"idle", "inc", "setdefault", "bucket", "total"}, route : Templates,
                      status : Statuses, bucket : 1..(Buckets + 1)]
    /\ scrape \in Render

\* The observations of a route, one by one: the k-th that fell into bucket b.  Their
\* number is the sum of the route's tallies.
Observations(r) ==
    {o \in (1..Buckets) \X Nat :
        counts[r] # NoTally /\ o[2] >= 1 /\ o[2] <= counts[r][o[1]]}

Below(r, n) == {o \in Observations(r) : o[1] < n}

\* A route has at most as many observations as its total, but for one on its way.
ObservedAreTotal ==
    \A r \in Templates :
        /\ IsFiniteSet(Observations(r))
        /\ Cardinality(Observations(r)) <= total[r] + 1
        /\ ~(recording.pc = "total" /\ recording.route = r) =>
             Cardinality(Observations(r)) <= total[r]

\* A route is observed only once it has its tallies.
TalliesThere == recording.pc \in {"bucket", "total"} => counts[recording.route] # NoTally

\* A render has counted no more than the observations of the buckets it has passed.
RenderSoFar ==
    /\ \A r \in scrape.keys : counts[r] # NoTally
    /\ scrape.pc = "buckets" =>
         /\ counts[scrape.route] # NoTally /\ scrape.bucket \in 1..(Buckets + 1)
         /\ scrape.cumulative <= Cardinality(Below(scrape.route, scrape.bucket))

\* The counter and the total lag behind the handlers that have ended by the steps of
\* the finally block still to come.
RecordedSoFar ==
    /\ recording.pc # "inc" => requests = ended
    /\ recording.pc = "inc" =>
         ended = [requests EXCEPT ![<<recording.route, recording.status>>] = @ + 1]
    /\ \A r \in Templates :
         total[r] + (IF recording.pc \in {"setdefault", "bucket", "total"} /\ recording.route = r
                     THEN 1 ELSE 0)
           = requests[<<r, "200">>] + requests[<<r, "500">>]

MetricsInv ==
    /\ MetricsTypes /\ ObservedAreTotal /\ TalliesThere /\ RenderSoFar
    /\ RecordedSoFar /\ ScrapeOffByOne

-----------------------------------------------------------------------------

\* Tallies are not the missing tally.
LEMMA TallyIsThere == \A x \in Tally : x # NoTally /\ \A b \in 1..Buckets : x[b] \in Nat
  <1> SUFFICES ASSUME NEW x \in Tally PROVE x # NoTally /\ \A b \in 1..Buckets : x[b] \in Nat
    BY Zenon
  <1>1. 1 \in DOMAIN x /\ DOMAIN NoTally = {}
    BY MetricsAssumption DEF Tally, NoTally
  <1> QED BY <1>1, Zenon DEF Tally

\* One more observation in bucket b.
LEMMA ObserveOne ==
    ASSUME MetricsTypes, NEW r \in Templates, IsFiniteSet(Observations(r)), NEW b \in 1..Buckets,
           counts[r] \in Tally, counts'[r] = [counts[r] EXCEPT ![b] = @ + 1]
    PROVE  /\ IsFiniteSet(Observations(r)') /\ Observations(r) \subseteq Observations(r)'
           /\ Cardinality(Observations(r)') = Cardinality(Observations(r)) + 1
  <1> DEFINE o == <<b, counts[r][b] + 1>>
  <1>1. counts'[r] \in Tally /\ counts'[r] # NoTally /\ counts[r] # NoTally /\ counts[r][b] \in Nat
    <2>1. \A d \in 1..Buckets : counts[r][d] \in Nat
      BY TallyIsThere, Zenon
    <2>2. counts'[r] \in Tally
      BY <2>1 DEF Tally
    <2> QED BY <2>1, <2>2, TallyIsThere, Zenon
  <1>2. Observations(r)' = Observations(r) \cup {o}
    <2>1. \A x \in (1..Buckets) \X Nat :
             (x[2] >= 1 /\ x[2] <= counts'[r][x[1]]) <=>
             ((x[2] >= 1 /\ x[2] <= counts[r][x[1]]) \/ x = o)
      <3> SUFFICES ASSUME NEW d \in 1..Buckets, NEW k \in Nat
                   PROVE  (k >= 1 /\ k <= counts'[r][d]) <=>
                          ((k >= 1 /\ k <= counts[r][d]) \/ (d = b /\ k = counts[r][b] + 1))
        OBVIOUS
      <3>1. counts'[r][d] = IF d = b THEN counts[r][b] + 1 ELSE counts[r][d]
        BY Zenon DEF Tally
      <3>2. counts[r][d] \in Nat
        BY Zenon DEF Tally
      <3> QED BY <3>1, <3>2, <1>1
    <2>2. o \in (1..Buckets) \X Nat
      BY <1>1
    <2> QED BY <1>1, <2>1, <2>2, ZenonT(30) DEF Observations
  <1>3. o \notin Observations(r)
    BY <1>1 DEF Observations
  <1> QED BY <1>2, <1>3, FS_AddElement, ZenonT(30)

\* Nothing is observed where the tallies do not change.
LEMMA ObserveNone ==
    ASSUME NEW r \in Templates, counts'[r] = counts[r]
    PROVE  Observations(r)' = Observations(r)
  BY Zenon DEF Observations

\* What a render has passed only grows.
LEMMA BelowGrows ==
    ASSUME NEW r \in Templates, NEW n \in Nat, IsFiniteSet(Observations(r)'),
           Observations(r) \subseteq Observations(r)'
    PROVE  Cardinality(Below(r, n)) <= Cardinality(Below(r, n)')
  <1>1. Below(r, n)' \subseteq Observations(r)' /\ Below(r, n) \subseteq Below(r, n)'
    BY Zenon DEF Below
  <1> QED BY <1>1, FS_Subset, Zenon

\* The next bucket adds its tally.
LEMMA BelowNext ==
    ASSUME NEW r \in Templates, NEW n \in 1..Buckets, IsFiniteSet(Observations(r)),
           counts[r] \in Tally
    PROVE  Cardinality(Below(r, n + 1)) = Cardinality(Below(r, n)) + counts[r][n]
  <1> DEFINE c == counts[r][n]
             T == {n} \X (1..c)
  <1>1. c \in Nat /\ counts[r] # NoTally /\ n \in Nat
    BY TallyIsThere
  <1>2. Below(r, n + 1) = Below(r, n) \cup T
    <2>1. \A o \in (1..Buckets) \X Nat : o[1] < n + 1 <=> (o[1] < n \/ o[1] = n)
      BY <1>1
    <2>2. \A o : o \in T <=> (o \in (1..Buckets) \X Nat /\ o[1] = n /\ o[2] >= 1 /\ o[2] <= counts[r][o[1]])
      BY <1>1
    <2> QED BY <1>1, <2>1, <2>2, Zenon DEF Below, Observations
  <1>3. IsFiniteSet(T) /\ Cardinality(T) = c
    <2>1. IsFiniteSet({n}) /\ Cardinality({n}) = 1
      BY FS_Singleton, Zenon
    <2>2. IsFiniteSet(1..c) /\ Cardinality(1..c) = c
      <3>1. c \in Int /\ 1 \in Int /\ c - 1 + 1 = c /\ (1 > c => c = 0)
        BY <1>1
      <3> HIDE DEF c
      <3> QED BY <3>1, FS_Interval, Zenon
    <2>3. IsFiniteSet(T) /\ Cardinality(T) = 1 * c
      BY <2>1, <2>2, FS_Product, ZenonT(30)
    <2> QED BY <2>3, <1>1
  <1>4. IsFiniteSet(Below(r, n)) /\ Cardinality(Below(r, n)) \in Nat
    BY FS_Subset, FS_CardinalityType, Zenon DEF Below
  <1>5. Below(r, n) \cap T = {}
    BY <1>1 DEF Below
  <1> HIDE DEF T, c
  <1>6. Cardinality(Below(r, n) \cup T) = Cardinality(Below(r, n)) + Cardinality(T) - 0
    BY <1>3, <1>4, <1>5, FS_Union, FS_EmptySet
  <1>7. Cardinality(Below(r, n) \cup T) = Cardinality(Below(r, n)) + c
    <2>1. Cardinality(T) = c /\ c \in Nat /\ Cardinality(Below(r, n)) \in Nat
      BY <1>1, <1>3, <1>4, Zenon
    <2> QED BY <2>1, <1>6
  <1> QED BY <1>2, <1>7, Zenon DEF c

\* A number of observations is a number.
LEMMA BelowCounts ==
    ASSUME NEW r \in Templates, NEW n, IsFiniteSet(Observations(r))
    PROVE  /\ Cardinality(Below(r, n)) \in Nat /\ Cardinality(Observations(r)) \in Nat
           /\ Cardinality(Below(r, n)) <= Cardinality(Observations(r))
  <1>1. Below(r, n) \in SUBSET Observations(r)
    BY Zenon DEF Below
  <1> QED BY <1>1, FS_Subset, FS_CardinalityType, Zenon

\* Recording, whatever it does meanwhile, keeps what a render has counted in bounds.
LEMMA RecordingKeepsRender ==
    ASSUME MetricsInv, scrape' = scrape,
           \A r \in Templates : /\ IsFiniteSet(Observations(r)')
                                /\ Observations(r) \subseteq Observations(r)'
                                /\ counts[r] # NoTally => counts'[r] # NoTally
    PROVE  RenderSoFar' /\ ScrapeOffByOne'
  <1>1. ScrapeOffByOne'
    BY Zenon DEF MetricsInv, ScrapeOffByOne
  <1>2. \A r \in scrape'.keys : counts'[r] # NoTally
    BY Zenon DEF MetricsInv, RenderSoFar, MetricsTypes, Render
  <1>3. ASSUME scrape'.pc = "buckets"
        PROVE  /\ counts'[scrape'.route] # NoTally /\ scrape'.bucket \in 1..(Buckets + 1)
               /\ scrape'.cumulative <= Cardinality(Below(scrape.route, scrape.bucket)')
    <2>1. PICK r \in Templates, n \in Nat : r = scrape.route /\ n = scrape.bucket
      BY Zenon DEF MetricsInv, MetricsTypes, Render
    <2>2. /\ scrape.cumulative \in Nat /\ counts[r] # NoTally /\ n \in 1..(Buckets + 1)
          /\ scrape.cumulative <= Cardinality(Below(r, n))
      BY <1>3, <2>1, Zenon DEF MetricsInv, RenderSoFar, MetricsTypes, Render
    <2>3. IsFiniteSet(Observations(r)) /\ IsFiniteSet(Observations(r)')
      BY Zenon DEF MetricsInv, ObservedAreTotal
    <2>4. Cardinality(Below(r, n)) \in Nat
      BY <2>3, BelowCounts, Zenon
    <2>5. Cardinality(Below(r, n)) <= Cardinality(Below(r, n)')
      BY <2>3, BelowGrows, Zenon
    <2>6. Cardinality(Below(r, n)') \in Nat
      <3>1. Below(r, n)' \in SUBSET Observations(r)'
        BY Zenon DEF Below
      <3> QED BY <3>1, <2>3, FS_Subset, FS_CardinalityType, ZenonT(30)
    <2>7. scrape.cumulative <= Cardinality(Below(r, n)')
      BY <2>2, <2>4, <2>5, <2>6
    <2>8. Below(scrape.route, scrape.bucket)' = Below(r, n)'
      BY <2>1, Zenon DEF Below, Observations
    <2> QED BY <2>1, <2>2, <2>7, <2>8, Zenon
  <1> QED BY <1>1, <1>2, <1>3, Zenon DEF RenderSoFar

\* A render changes nothing that is recorded.
LEMMA RenderKeepsRecord ==
    ASSUME MetricsInv, UNCHANGED <<requests, counts, total, recording, ended>>
    PROVE  ObservedAreTotal' /\ TalliesThere' /\ RecordedSoFar'
  BY Zenon DEF MetricsInv, ObservedAreTotal, TalliesThere, RecordedSoFar, Observations

\* The next route of a render, or its end.
LEMMA NextKeyEffect ==
    ASSUME NEW sc \in Render
    PROVE  /\ next_key(sc) \in Render /\ next_key(sc).lines = sc.lines
           /\ next_key(sc).keys \subseteq sc.keys
           /\ next_key(sc).pc = "buckets" =>
                /\ next_key(sc).route \in sc.keys /\ next_key(sc).bucket = 1
                /\ next_key(sc).cumulative = 0
  <1>1. CASE sc.keys = {}
    <2>1. next_key(sc) = [sc EXCEPT !.pc = "done"]
      BY <1>1, Zenon DEF next_key
    <2> QED BY <2>1, Zenon DEF Render
  <1>2. CASE sc.keys # {}
    <2> DEFINE r == CHOOSE x \in sc.keys : TRUE
    <2>1. r \in sc.keys
      BY <1>2, Zenon
    <2>2. next_key(sc) = [sc EXCEPT !.pc = "buckets", !.keys = @ \ {r}, !.route = r, !.bucket = 1,
                                    !.cumulative = 0]
      BY <1>2, Zenon DEF next_key
    <2> HIDE DEF r
    <2>3. r \in Templates /\ sc.keys \ {r} \in SUBSET Templates /\ 1 \in Nat /\ 0 \in Nat
      BY <2>1, Zenon DEF Render
    <2>4. next_key(sc) = [pc |-> "buckets", keys |-> sc.keys \ {r}, route |-> r, bucket |-> 1,
                          cumulative |-> 0, lines |-> sc.lines]
      BY <2>2, Zenon DEF Render
    <2>5. sc.lines \in ReportedLines
      BY Zenon DEF Render
    <2> QED BY <2>1, <2>3, <2>4, <2>5 DEF Render
  <1> QED BY <1>1, <1>2, Zenon

\* A render's steps keep the invariant.
LEMMA RenderKeeps ==
    ASSUME MetricsInv, render_counters \/ render_keys \/ render_bucket \/ render_total
    PROVE  MetricsInv'
  <1>1. UNCHANGED <<requests, counts, total, inflight, recording, ended>>
    BY Zenon DEF render_counters, render_keys, render_bucket, render_total
  <1>2. ObservedAreTotal' /\ TalliesThere' /\ RecordedSoFar'
    BY <1>1, RenderKeepsRecord, Zenon
  <1>3. SUFFICES /\ scrape' \in Render /\ ScrapeOffByOne'
                 /\ \A r \in scrape'.keys : counts[r] # NoTally
                 /\ scrape'.pc = "buckets" =>
                      /\ counts[scrape'.route] # NoTally /\ scrape'.bucket \in 1..(Buckets + 1)
                      /\ scrape'.cumulative <= Cardinality(Below(scrape'.route, scrape'.bucket))
    <2>1. MetricsTypes'
      BY <1>1, <1>3, Zenon DEF MetricsInv, MetricsTypes
    <2>2. RenderSoFar'
      BY <1>1, <1>3, Zenon DEF RenderSoFar, Below, Observations
    <2> QED BY <1>2, <1>3, <2>1, <2>2, Zenon DEF MetricsInv
  <1>4. /\ scrape \in Render /\ \A r \in scrape.keys : counts[r] # NoTally
        /\ 1 \in 1..(Buckets + 1)
        /\ \A r \in Templates, n \in Nat : 0 <= Cardinality(Below(r, n))
    <2>1. \A r \in Templates, n \in Nat : Cardinality(Below(r, n)) \in Nat
      BY BelowCounts, Zenon DEF MetricsInv, ObservedAreTotal
    <2>2. 1 \in 1..(Buckets + 1)
      BY MetricsAssumption
    <2> QED BY <2>1, <2>2 DEF MetricsInv, MetricsTypes, RenderSoFar
  <1>5. CASE render_counters
    <2>1. scrape' = [scrape EXCEPT !.pc = "keys"]
      BY <1>5, Zenon DEF render_counters
    <2> QED BY <1>4, <2>1, Zenon DEF MetricsInv, ScrapeOffByOne, Render
  <1>6. CASE render_keys
    <2> DEFINE sc == [scrape EXCEPT !.keys = {r \in Templates : counts[r] # NoTally}]
    <2>1. sc \in Render /\ sc.lines = scrape.lines /\ \A r \in sc.keys : counts[r] # NoTally
      BY <1>4, Zenon DEF Render
    <2>2. scrape' = next_key(sc)
      BY <1>6, Zenon DEF render_keys
    <2> HIDE DEF sc
    <2>3. /\ scrape' \in Render /\ scrape'.lines = scrape.lines /\ scrape'.keys \subseteq sc.keys
          /\ scrape'.pc = "buckets" =>
               scrape'.route \in sc.keys /\ scrape'.bucket = 1 /\ scrape'.cumulative = 0
      BY <2>1, <2>2, NextKeyEffect, Zenon
    <2>4. ScrapeOffByOne'
      BY <2>3, Zenon DEF MetricsInv, ScrapeOffByOne
    <2>5. scrape'.route \in Templates
      BY <2>3, Zenon DEF Render
    <2> QED BY <1>4, <2>1, <2>3, <2>4, <2>5, ZenonT(30)
  <1>7. CASE render_bucket
    <2> DEFINE r == scrape.route
               n == scrape.bucket
    <2>1. /\ n \in 1..Buckets /\ r \in Templates /\ counts[r] \in Tally /\ counts[r] # NoTally
          /\ scrape.cumulative <= Cardinality(Below(r, n)) /\ scrape.cumulative \in Nat
          /\ IsFiniteSet(Observations(r))
      BY <1>4, <1>7, MetricsAssumption
         DEF render_bucket, MetricsInv, MetricsTypes, RenderSoFar, ObservedAreTotal, Render
    <2>2. scrape' = [scrape EXCEPT !.cumulative = @ + counts[r][n], !.bucket = @ + 1]
      BY <1>7, Zenon DEF render_bucket
    <2>3. counts[r][n] \in Nat
      BY <2>1, TallyIsThere, Zenon
    <2>4. /\ scrape'.cumulative = scrape.cumulative + counts[r][n] /\ scrape'.bucket = n + 1
          /\ scrape'.route = r /\ scrape'.keys = scrape.keys /\ scrape'.lines = scrape.lines
          /\ scrape' \in Render
      <3>1. scrape.cumulative + counts[r][n] \in Nat /\ n + 1 \in Nat
        BY <2>1, <2>3
      <3> QED BY <1>4, <2>2, <3>1, ZenonT(30) DEF Render
    <2> HIDE DEF r, n
    <2>5. Cardinality(Below(r, n + 1)) = Cardinality(Below(r, n)) + counts[r][n]
      BY <2>1, BelowNext, Zenon
    <2>6. Cardinality(Below(r, n)) \in Nat
      BY <2>1, BelowCounts, ZenonT(30)
    <2>7. scrape'.cumulative <= Cardinality(Below(r, n + 1))
      BY <2>1, <2>3, <2>4, <2>5, <2>6
    <2>8. n + 1 \in 1..(Buckets + 1)
      BY <2>1, MetricsAssumption
    <2> QED BY <1>4, <2>1, <2>4, <2>7, <2>8, ZenonT(30) DEF MetricsInv, ScrapeOffByOne
  <1>8. CASE render_total
    <2> DEFINE r == scrape.route
    <2>1. /\ r \in Templates /\ scrape.cumulative \in Nat /\ total[r] \in Nat
          /\ scrape.cumulative <= Cardinality(Below(r, scrape.bucket))
          /\ IsFiniteSet(Observations(r)) /\ Cardinality(Observations(r)) <= total[r] + 1
      BY <1>4, <1>8, ZenonT(30) DEF render_total, MetricsInv, MetricsTypes, RenderSoFar,
                                    ObservedAreTotal, Render
    <2>2. scrape.cumulative <= total[r] + 1
      <3>1. /\ Cardinality(Below(r, scrape.bucket)) \in Nat /\ Cardinality(Observations(r)) \in Nat
            /\ Cardinality(Below(r, scrape.bucket)) <= Cardinality(Observations(r))
        BY <2>1, BelowCounts, Zenon
      <3> QED BY <2>1, <3>1
    <2>3. CASE total[r] = 0
      <3>1. scrape' = [scrape EXCEPT !.pc = "error"]
        BY <1>8, <2>3, Zenon DEF render_total
      <3> QED BY <1>4, <3>1, Zenon DEF MetricsInv, ScrapeOffByOne, Render
    <2>4. CASE total[r] # 0
      <3> DEFINE ls == [q \in DOMAIN scrape.lines \cup {r} |->
                          IF q = r THEN [last |-> scrape.cumulative, inf |-> total[q]]
                          ELSE scrape.lines[q]]
                 sc == [scrape EXCEPT !.lines = ls]
      <3>1. scrape' = next_key(sc)
        BY <1>8, <2>4, Zenon DEF render_total
      <3>2. ls \in ReportedLines
        <4>1. PICK rs \in SUBSET Templates : scrape.lines \in [rs -> [last : Nat, inf : Nat]]
          BY <1>4, Zenon DEF Render, ReportedLines
        <4>2. ls \in [rs \cup {r} -> [last : Nat, inf : Nat]]
          BY <4>1, <2>1, Zenon
        <4>3. rs \cup {r} \in SUBSET Templates
          BY <2>1, Zenon
        <4> HIDE DEF ls, r
        <4> QED BY <4>2, <4>3, Zenon DEF ReportedLines
      <3>3. \A q \in DOMAIN ls : ls[q].last <= ls[q].inf + 1
        BY <2>2, Zenon DEF MetricsInv, ScrapeOffByOne
      <3> HIDE DEF ls
      <3>4. sc \in Render /\ sc.lines = ls /\ sc.keys = scrape.keys
        BY <1>4, <3>2, Zenon DEF Render
      <3> HIDE DEF sc
      <3>5. /\ scrape' \in Render /\ scrape'.lines = ls /\ scrape'.keys \subseteq scrape.keys
            /\ scrape'.pc = "buckets" =>
                 scrape'.route \in scrape.keys /\ scrape'.bucket = 1 /\ scrape'.cumulative = 0
        BY <3>1, <3>4, NextKeyEffect, Zenon
      <3>6. ScrapeOffByOne'
        BY <3>3, <3>5, Zenon DEF ScrapeOffByOne
      <3>7. scrape'.route \in Templates
        BY <3>5, Zenon DEF Render
      <3> QED BY <1>4, <3>5, <3>6, <3>7, Zenon
    <2> QED BY <2>3, <2>4, Zenon
  <1> QED BY <1>5, <1>6, <1>7, <1>8, Zenon

\* A request arrives, and may begin a render.
LEMMA ArriveKeeps ==
    ASSUME MetricsInv, NEW r \in Templates, arrive(r)
    PROVE  MetricsInv'
  <1>1. UNCHANGED <<requests, counts, total, recording, ended>>
    BY Zenon DEF arrive
  <1>2. ObservedAreTotal' /\ TalliesThere' /\ RecordedSoFar'
    BY <1>1, RenderKeepsRecord, Zenon
  <1>3. CASE scrape' = scrape
    BY <1>1, <1>2, <1>3, Zenon DEF MetricsInv, MetricsTypes, RenderSoFar, ScrapeOffByOne, Below,
                                   Observations
  <1>4. CASE scrape' = [NoScrape EXCEPT !.pc = "counters"]
    <2>1. /\ scrape'.pc = "counters" /\ scrape'.keys = {} /\ DOMAIN scrape'.lines = {}
          /\ scrape' = [pc |-> "counters", keys |-> {}, route |-> "/metrics", bucket |-> 1,
                        cumulative |-> 0, lines |-> [q \in {} |-> 0]]
      BY <1>4, Zenon DEF NoScrape
    <2>2. [q \in {} |-> 0] \in ReportedLines
      <3>1. [q \in {} |-> 0] \in [{} -> [last : Nat, inf : Nat]]
        BY Zenon
      <3> QED BY <3>1, Zenon DEF ReportedLines
    <2>3. scrape' \in Render
      BY <2>1, <2>2, Zenon DEF Render, Templates
    <2>4. RenderSoFar' /\ ScrapeOffByOne'
      BY <2>1, Zenon DEF RenderSoFar, ScrapeOffByOne
    <2>5. MetricsTypes'
      BY <1>1, <2>3, Zenon DEF MetricsInv, MetricsTypes
    <2> QED BY <1>2, <2>4, <2>5, Zenon DEF MetricsInv
  <1> QED BY <1>3, <1>4, Zenon DEF arrive

\* A handler ends: its request is to be counted.
LEMMA EndKeeps ==
    ASSUME MetricsInv, NEW r \in Templates, NEW st \in Statuses, NEW b \in 1..(Buckets + 1),
           handler_ends(r, st, b)
    PROVE  MetricsInv'
  <1>1. /\ UNCHANGED <<requests, counts, total, scrape>> /\ recording.pc = "idle"
        /\ recording' = [pc |-> "inc", route |-> r, status |-> st, bucket |-> b]
        /\ ended' = [ended EXCEPT ![<<r, st>>] = @ + 1]
    BY Zenon DEF handler_ends, record
  <1>2. <<r, st>> \in Series /\ requests = ended /\ ended \in [Series -> Nat]
    BY <1>1, Zenon DEF Series, MetricsInv, RecordedSoFar, MetricsTypes
  <1>3. MetricsTypes'
    BY <1>1, <1>2 DEF MetricsInv, MetricsTypes
  <1>4. \A q \in Templates : Observations(q)' = Observations(q)
    BY <1>1, Zenon DEF Observations
  <1>5. RenderSoFar' /\ ScrapeOffByOne'
    BY <1>1, <1>4, RecordingKeepsRender, Zenon DEF MetricsInv, ObservedAreTotal
  <1>6. ObservedAreTotal' /\ TalliesThere'
    BY <1>1, <1>4, Zenon DEF MetricsInv, ObservedAreTotal, TalliesThere
  <1>7. RecordedSoFar'
    <2>1. recording'.pc = "inc" /\ recording'.route = r /\ recording'.status = st
      BY <1>1, Zenon
    <2>2. ended' = [requests' EXCEPT ![<<r, st>>] = @ + 1]
      BY <1>1, <1>2, Zenon
    <2>3. \A q \in Templates : total[q] + 0 = requests[<<q, "200">>] + requests[<<q, "500">>]
      BY <1>1, Zenon DEF MetricsInv, RecordedSoFar
    <2> QED BY <1>1, <2>1, <2>2, <2>3, Zenon DEF RecordedSoFar
  <1> QED BY <1>3, <1>5, <1>6, <1>7, Zenon DEF MetricsInv

\* The counter goes up.
LEMMA IncKeeps ==
    ASSUME MetricsInv, inc
    PROVE  MetricsInv'
  <1> DEFINE s == <<recording.route, recording.status>>
  <1>1. /\ recording.pc = "inc" /\ UNCHANGED <<counts, total, scrape, ended>>
        /\ requests' = [requests EXCEPT ![s] = @ + 1]
        /\ recording'.pc = "setdefault" /\ recording'.route = recording.route
    BY Zenon DEF inc, MetricsInv, MetricsTypes
  <1>2. /\ s \in Series /\ requests \in [Series -> Nat] /\ recording.status \in Statuses
        /\ recording.route \in Templates
    BY Zenon DEF Series, MetricsInv, MetricsTypes
  <1>3. MetricsTypes'
    <2>1. recording' = [recording EXCEPT !.pc = "setdefault"]
      BY Zenon DEF inc
    <2> QED BY <1>1, <1>2, <2>1 DEF MetricsInv, MetricsTypes
  <1>4. \A q \in Templates : Observations(q)' = Observations(q)
    BY <1>1, Zenon DEF Observations
  <1>5. RenderSoFar' /\ ScrapeOffByOne'
    BY <1>1, <1>4, RecordingKeepsRender, Zenon DEF MetricsInv, ObservedAreTotal
  <1>6. ObservedAreTotal' /\ TalliesThere'
    BY <1>1, <1>4, Zenon DEF MetricsInv, ObservedAreTotal, TalliesThere
  <1>7. RecordedSoFar'
    <2>1. requests' = ended'
      BY <1>1, Zenon DEF MetricsInv, RecordedSoFar
    <2>2. ASSUME NEW q \in Templates
          PROVE  total'[q] + (IF recording'.route = q THEN 1 ELSE 0)
                   = requests'[<<q, "200">>] + requests'[<<q, "500">>]
      <3>1. /\ <<q, "200">> \in Series /\ <<q, "500">> \in Series
            /\ requests[<<q, "200">>] \in Nat /\ requests[<<q, "500">>] \in Nat
        BY <1>2, Zenon DEF Series, Statuses
      <3>2. total[q] = requests[<<q, "200">>] + requests[<<q, "500">>]
        <4>1. total[q] + 0 = requests[<<q, "200">>] + requests[<<q, "500">>]
          BY <1>1, Zenon DEF MetricsInv, RecordedSoFar
        <4>2. total[q] \in Nat
          BY Zenon DEF MetricsInv, MetricsTypes
        <4> QED BY <4>1, <4>2
      <3>3. CASE q # recording.route
        BY <1>1, <1>2, <3>1, <3>2, <3>3
      <3>4. CASE q = recording.route /\ recording.status = "200"
        <4>1. /\ requests'[<<q, "200">>] = requests[<<q, "200">>] + 1
              /\ requests'[<<q, "500">>] = requests[<<q, "500">>]
          BY <1>1, <1>2, <3>1, <3>4, ZenonT(30)
        <4> QED BY <1>1, <3>1, <3>2, <3>4, <4>1
      <3>5. CASE q = recording.route /\ recording.status = "500"
        <4>1. /\ requests'[<<q, "500">>] = requests[<<q, "500">>] + 1
              /\ requests'[<<q, "200">>] = requests[<<q, "200">>]
          BY <1>1, <1>2, <3>1, <3>5
        <4> QED BY <1>1, <3>1, <3>2, <3>5, <4>1
      <3> QED BY <1>2, <3>3, <3>4, <3>5, Zenon DEF Statuses
    <2> QED BY <1>1, <2>1, <2>2, Zenon DEF RecordedSoFar
  <1> QED BY <1>3, <1>5, <1>6, <1>7, Zenon DEF MetricsInv

\* The tallies of a route begin.
LEMMA KeyKeeps ==
    ASSUME MetricsInv, observe_key
    PROVE  MetricsInv'
  <1> DEFINE r == recording.route
             zeros == [b \in 1..Buckets |-> 0]
  <1>1. /\ recording.pc = "setdefault" /\ UNCHANGED <<requests, total, scrape, ended>>
        /\ counts' = [counts EXCEPT ![r] = IF @ = NoTally THEN zeros ELSE @]
        /\ recording' = [recording EXCEPT !.pc = "bucket"] /\ recording'.pc = "bucket"
        /\ recording'.route = r /\ r \in Templates
    BY Zenon DEF observe_key, MetricsInv, MetricsTypes
  <1>2. zeros \in Tally /\ zeros # NoTally
    <2>1. zeros \in Tally
      BY Zenon DEF Tally
    <2> QED BY <2>1, TallyIsThere, Zenon
  <1>3. counts \in [Templates -> {NoTally} \cup Tally]
    BY Zenon DEF MetricsInv, MetricsTypes
  <1>4. /\ counts'[r] # NoTally /\ counts' \in [Templates -> {NoTally} \cup Tally]
        /\ \A q \in Templates : counts[q] # NoTally => counts'[q] = counts[q]
        /\ \A q \in Templates : counts'[q] = counts[q] \/ (counts[q] = NoTally /\ counts'[q] = zeros)
    <2> HIDE DEF zeros, r
    <2>1. CASE counts[r] = NoTally
      <3>1. counts' = [counts EXCEPT ![r] = zeros]
        BY <1>1, <2>1, Zenon
      <3> QED BY <1>1, <1>2, <1>3, <2>1, <3>1
    <2>2. CASE counts[r] # NoTally
      <3>1. counts' = counts
        BY <1>1, <1>3, <2>2, Zenon
      <3> QED BY <1>1, <1>3, <2>2, <3>1, Zenon
    <2> QED BY <2>1, <2>2, Zenon
  <1>5. MetricsTypes'
    BY <1>1, <1>4, Zenon DEF MetricsInv, MetricsTypes
  <1>6. \A q \in Templates : Observations(q)' = Observations(q)
    <2> SUFFICES ASSUME NEW q \in Templates, counts[q] = NoTally, counts'[q] = zeros
                 PROVE  Observations(q)' = Observations(q)
      BY <1>4, ObserveNone, Zenon
    <2>1. Observations(q) = {}
      BY Zenon DEF Observations
    <2>2. \A o \in (1..Buckets) \X Nat : ~(o[2] >= 1 /\ o[2] <= zeros[o[1]])
      OBVIOUS
    <2>3. Observations(q)' = {}
      BY <2>2, ZenonT(30) DEF Observations
    <2> QED BY <2>1, <2>3, Zenon
  <1>7. RenderSoFar' /\ ScrapeOffByOne'
    BY <1>1, <1>4, <1>6, RecordingKeepsRender DEF MetricsInv, ObservedAreTotal
  <1>8. ObservedAreTotal' /\ TalliesThere'
    BY <1>1, <1>4, <1>6 DEF MetricsInv, ObservedAreTotal, TalliesThere
  <1>9. RecordedSoFar'
    BY <1>1, Zenon DEF MetricsInv, RecordedSoFar
  <1> QED BY <1>5, <1>7, <1>8, <1>9, Zenon DEF MetricsInv

\* One bucket's tally goes up, or none.
LEMMA BucketKeeps ==
    ASSUME MetricsInv, observe_bucket
    PROVE  MetricsInv'
  <1> DEFINE v == recording.bucket
  <1>1. PICK r \in Templates :
          /\ r = recording.route /\ recording.pc = "bucket"
          /\ UNCHANGED <<requests, total, scrape, ended>>
          /\ recording' = [recording EXCEPT !.pc = "total"] /\ recording'.pc = "total"
          /\ recording'.route = r
    BY Zenon DEF observe_bucket, MetricsInv, MetricsTypes
  <1>2. counts \in [Templates -> {NoTally} \cup Tally] /\ counts[r] \in Tally
    BY <1>1, Zenon DEF MetricsInv, MetricsTypes, TalliesThere
  <1>3. \A b \in 1..Buckets : counts[r][b] \in Nat
    BY <1>2, TallyIsThere, Zenon
  <1> DEFINE new == [b \in 1..Buckets |-> counts[r][b] + IF b \in tallied(v) THEN 1 ELSE 0]
  <1>4. counts' = [counts EXCEPT ![r] = new]
    BY <1>1, <1>2, Zenon DEF observe_bucket
  <1>5. new \in Tally
    BY <1>3 DEF Tally
  <1>6. new = counts[r] \/ \E b \in 1..Buckets : new = [counts[r] EXCEPT ![b] = @ + 1]
    <2>1. CASE v \in 1..Buckets
      <3>1. \A b \in 1..Buckets : b \in tallied(v) <=> b = v
        BY <2>1, Zenon DEF tallied
      <3>2. DOMAIN counts[r] = 1..Buckets
        BY <1>2, Zenon DEF Tally
      <3>3. new = [counts[r] EXCEPT ![v] = @ + 1]
        <4>1. \A b \in 1..Buckets : new[b] = [counts[r] EXCEPT ![v] = @ + 1][b]
          <5> SUFFICES ASSUME NEW b \in 1..Buckets
                       PROVE  new[b] = [counts[r] EXCEPT ![v] = @ + 1][b]
            BY Zenon
          <5>1. counts[r][b] \in Nat /\ new[b] = counts[r][b] + IF b \in tallied(v) THEN 1 ELSE 0
            BY <1>3, Zenon
          <5>2. new[b] = IF b = v THEN counts[r][b] + 1 ELSE counts[r][b]
            BY <3>1, <5>1
          <5> HIDE DEF new
          <5> QED BY <2>1, <3>2, <5>2, Zenon
        <4>2. DOMAIN [counts[r] EXCEPT ![v] = @ + 1] = 1..Buckets
          BY <3>2, Zenon
        <4> QED BY <4>1, <4>2, Zenon
      <3> QED BY <2>1, <3>3, Zenon
    <2>2. CASE v \notin 1..Buckets
      <3>1. \A b \in 1..Buckets : b \notin tallied(v)
        BY <2>2, Zenon DEF tallied
      <3>2. \A b \in 1..Buckets : new[b] = counts[r][b]
        BY <1>3, <3>1
      <3>3. new = counts[r]
        BY <1>2, <1>5, <3>2, Zenon DEF Tally
      <3> QED BY <3>3, Zenon
    <2> QED BY <2>1, <2>2, Zenon
  <1> HIDE DEF new
  <1>7. /\ counts'[r] = new /\ \A q \in Templates \ {r} : counts'[q] = counts[q]
        /\ counts' \in [Templates -> {NoTally} \cup Tally] /\ counts'[r] # NoTally
    BY <1>2, <1>4, <1>5, TallyIsThere, Zenon
  <1>8. IsFiniteSet(Observations(r)) /\ Cardinality(Observations(r)) <= total[r] /\ total[r] \in Nat
    BY <1>1, Zenon DEF MetricsInv, ObservedAreTotal, MetricsTypes
  <1>9. /\ IsFiniteSet(Observations(r)') /\ Observations(r) \subseteq Observations(r)'
        /\ Cardinality(Observations(r)') <= total[r] + 1
    <2>1. Cardinality(Observations(r)) \in Nat
      BY <1>8, FS_CardinalityType, Zenon
    <2>2. CASE new = counts[r]
      <3>1. Observations(r)' = Observations(r)
        BY <1>7, <2>2, ObserveNone, Zenon
      <3> QED BY <1>8, <2>1, <3>1
    <2>3. CASE \E b \in 1..Buckets : new = [counts[r] EXCEPT ![b] = @ + 1]
      <3>1. MetricsTypes
        BY Zenon DEF MetricsInv
      <3>2. /\ IsFiniteSet(Observations(r)') /\ Observations(r) \subseteq Observations(r)'
            /\ Cardinality(Observations(r)') = Cardinality(Observations(r)) + 1
        BY <1>2, <1>7, <1>8, <2>3, <3>1, ObserveOne, ZenonT(30)
      <3> QED BY <1>8, <2>1, <3>2
    <2> QED BY <1>6, <2>2, <2>3, Zenon
  <1>10. \A q \in Templates \ {r} : Observations(q)' = Observations(q)
    BY <1>7, ObserveNone, Zenon
  <1>11. RenderSoFar' /\ ScrapeOffByOne'
    BY <1>1, <1>7, <1>9, <1>10, RecordingKeepsRender DEF MetricsInv, ObservedAreTotal
  <1>12. ObservedAreTotal' /\ TalliesThere'
    <2>1. TalliesThere'
      BY <1>1, <1>7, Zenon DEF TalliesThere
    <2>2. \A q \in Templates \ {r} : /\ IsFiniteSet(Observations(q)')
                                     /\ Cardinality(Observations(q)') <= total'[q] + 1
                                     /\ Cardinality(Observations(q)') <= total'[q]
      BY <1>1, <1>10, Zenon DEF MetricsInv, ObservedAreTotal
    <2> QED BY <1>1, <1>9, <2>1, <2>2, Zenon DEF ObservedAreTotal
  <1>13. MetricsTypes'
    BY <1>1, <1>7, Zenon DEF MetricsInv, MetricsTypes
  <1>14. RecordedSoFar'
    BY <1>1 DEF MetricsInv, RecordedSoFar
  <1> QED BY <1>11, <1>12, <1>13, <1>14, Zenon DEF MetricsInv

\* The total goes up, and the finally block ends.
LEMMA TotalKeeps ==
    ASSUME MetricsInv, observe_total
    PROVE  MetricsInv'
  <1>1. PICK r \in Templates :
          /\ r = recording.route /\ recording.pc = "total"
          /\ UNCHANGED <<requests, counts, scrape, ended>>
          /\ total' = [total EXCEPT ![r] = @ + 1] /\ recording' = Idle
    BY Zenon DEF observe_total, MetricsInv, MetricsTypes
  <1>2. recording'.pc = "idle" /\ total \in [Templates -> Nat] /\ total' \in [Templates -> Nat]
    BY <1>1 DEF Idle, MetricsInv, MetricsTypes
  <1>3. MetricsTypes'
    <2>1. 1 \in 1..(Buckets + 1)
      BY MetricsAssumption
    <2> QED BY <1>1, <1>2, <2>1, Zenon DEF MetricsInv, MetricsTypes, Idle, Templates, Statuses
  <1>4. \A q \in Templates : Observations(q)' = Observations(q)
    BY <1>1, Zenon DEF Observations
  <1>5. RenderSoFar' /\ ScrapeOffByOne'
    BY <1>1, <1>4, RecordingKeepsRender, ZenonT(30) DEF MetricsInv, ObservedAreTotal
  <1>6. ObservedAreTotal'
    <2> SUFFICES ASSUME NEW q \in Templates
                 PROVE  /\ IsFiniteSet(Observations(q))
                        /\ Cardinality(Observations(q)) <= total'[q] + 1
                        /\ Cardinality(Observations(q)) <= total'[q]
      BY <1>4, Zenon DEF ObservedAreTotal
    <2>1. IsFiniteSet(Observations(q)) /\ Cardinality(Observations(q)) \in Nat
      BY FS_CardinalityType, Zenon DEF MetricsInv, ObservedAreTotal
    <2>2. Cardinality(Observations(q)) <= total'[q]
      <3>1. CASE q = r
        BY <1>1, <1>2, <2>1, <3>1, Zenon DEF MetricsInv, ObservedAreTotal
      <3>2. CASE q # r
        BY <1>1, <1>2, <2>1, <3>2, Zenon DEF MetricsInv, ObservedAreTotal
      <3> QED BY <3>1, <3>2, Zenon
    <2> QED BY <1>2, <2>1, <2>2
  <1>7. RecordedSoFar' /\ TalliesThere'
    <2>1. ASSUME NEW q \in Templates
          PROVE  total'[q] + 0 = requests'[<<q, "200">>] + requests'[<<q, "500">>]
      <3>1. total[q] + (IF q = r THEN 1 ELSE 0) = requests[<<q, "200">>] + requests[<<q, "500">>]
        BY <1>1, Zenon DEF MetricsInv, RecordedSoFar
      <3>2. total'[q] = total[q] + (IF q = r THEN 1 ELSE 0) /\ total'[q] \in Nat
        BY <1>1, <1>2
      <3> QED BY <1>1, <3>1, <3>2
    <2> QED BY <1>1, <1>2, <2>1, ZenonT(30) DEF RecordedSoFar, TalliesThere, MetricsInv
  <1> QED BY <1>3, <1>5, <1>6, <1>7, Zenon DEF MetricsInv

\* MetricsInv is an inductive invariant.
LEMMA MetricsInvariant == MetricsSpec => []MetricsInv
  <1>1. MetricsInit => MetricsInv
    <2> SUFFICES ASSUME MetricsInit PROVE MetricsInv
      BY Zenon
    <2>1. 1 \in 1..(Buckets + 1)
      BY MetricsAssumption
    <2>2. [q \in {} |-> 0] \in ReportedLines
      <3>1. [q \in {} |-> 0] \in [{} -> [last : Nat, inf : Nat]]
        BY Zenon
      <3> QED BY <3>1, Zenon DEF ReportedLines
    <2>3. NoScrape \in Render
      BY <2>2, Zenon DEF NoScrape, Render, Templates
    <2>4. MetricsTypes
      BY <2>1, <2>3, Zenon DEF MetricsInit, MetricsTypes, Idle, Templates, Statuses
    <2>5. \A r \in Templates : Observations(r) = {}
      BY Zenon DEF MetricsInit, Observations
    <2>6. ObservedAreTotal
      BY <2>5, FS_EmptySet DEF ObservedAreTotal, MetricsInit
    <2>7. \A r \in Templates : <<r, "200">> \in Series /\ <<r, "500">> \in Series
      BY Zenon DEF Series, Statuses
    <2>8. RecordedSoFar /\ TalliesThere
      BY <2>7, Zenon DEF MetricsInit, RecordedSoFar, TalliesThere, Idle
    <2>9. RenderSoFar /\ ScrapeOffByOne
      BY Zenon DEF MetricsInit, NoScrape, RenderSoFar, ScrapeOffByOne
    <2> QED BY <2>4, <2>6, <2>8, <2>9, Zenon DEF MetricsInv
  <1>2. MetricsInv /\ [MetricsNext]_metricsVars => MetricsInv'
    <2> SUFFICES ASSUME MetricsInv, [MetricsNext]_metricsVars PROVE MetricsInv'
      BY Zenon
    <2>1. CASE UNCHANGED metricsVars
      BY <2>1, ZenonT(30) DEF metricsVars, MetricsInv, MetricsTypes, ObservedAreTotal,
                              TalliesThere, RenderSoFar,
                  RecordedSoFar, ScrapeOffByOne, Below, Observations
    <2> QED BY <2>1, ArriveKeeps, EndKeeps, IncKeeps, KeyKeeps, BucketKeeps, TotalKeeps,
               RenderKeeps, ZenonT(30) DEF MetricsNext
  <1> QED BY <1>1, <1>2, PTL DEF MetricsSpec

\* However a scrape interleaves with the requests it meets, what it reports for a route
\* is off by one request at the most (Histogram.observe, Histogram.render), for any
\* routes, buckets and number of requests.
THEOREM ScrapesOffByOne == MetricsSpec => []ScrapeOffByOne
  <1>1. MetricsInv => ScrapeOffByOne
    BY Zenon DEF MetricsInv
  <1> QED BY <1>1, MetricsInvariant, PTL

\* Between two finally blocks the counter and the histogram hold every request whose
\* handler has ended, once (RequestObservabilityMiddleware.dispatch).
THEOREM RequestsCounted == MetricsSpec => []EveryRequestCounted
  <1>1. MetricsInv => EveryRequestCounted
    <2> SUFFICES ASSUME MetricsInv, recording.pc = "idle", NEW r \in Templates
                 PROVE  /\ requests = ended
                        /\ total[r] = requests[<<r, "200">>] + requests[<<r, "500">>]
      BY Zenon DEF EveryRequestCounted, MetricsInv, RecordedSoFar
    <2>1. total[r] + 0 = requests[<<r, "200">>] + requests[<<r, "500">>] /\ requests = ended
      BY Zenon DEF MetricsInv, RecordedSoFar
    <2>2. total[r] \in Nat
      BY Zenon DEF MetricsInv, MetricsTypes
    <2> QED BY <2>1, <2>2
  <1> QED BY <1>1, MetricsInvariant, PTL
=============================================================================
