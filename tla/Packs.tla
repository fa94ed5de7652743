------------------------------- MODULE Packs --------------------------------
(***************************************************************************)
(* The service packs' renderers behind the control plane's /render and the *)
(* broker's teardown: the tags of a request become typed parameters, the   *)
(* parameters an artifact with one file and at most one deployment step,   *)
(* which the CLI executors (executors/shell.py) carry out against a        *)
(* backend.  A renderer is the record of what its class fixes; the four    *)
(* methods every class repeats are operators over such a record.           *)
(***************************************************************************)
EXTENDS Integers, FiniteSets, FiniteSetsExt

CONSTANTS
    MaxTags       \* bound: tags a request sets

-----------------------------------------------------------------------------
(* Parameters: per integer field <<least, most, default>>, per flag its      *)
(* default, and the fields that are lists.                                   *)

NoInts == [f \in {} |-> <<0, 0, 0>>]
NoFlags == [f \in {} |-> TRUE]

InferenceEndpointParams ==
    [ints |-> [replicas |-> <<1, 64, 1>>, max_context_tokens |-> <<512, 1000000, 8192>>],
     flags |-> [pii_redaction |-> TRUE, tls |-> TRUE, logging_enabled |-> TRUE],
     lists |-> {}]

RagWorkspaceParams ==
    [ints |-> NoInts, flags |-> [encryption_at_rest |-> TRUE, pii_redaction |-> TRUE],
     lists |-> {"connectors"}]

ManagedDatabaseParams ==
    [ints |-> [storage_gb |-> <<10, 65536, 20>>, backup_retention_days |-> <<0, 35, 7>>],
     flags |-> [multi_az |-> FALSE, encryption_at_rest |-> TRUE, deletion_protection |-> TRUE],
     lists |-> {}]

VectorDbParams ==
    [ints |-> [storage_gb |-> <<10, 65536, 20>>], flags |-> [encryption_at_rest |-> TRUE],
     lists |-> {}]

SiemWorkspaceParams ==
    [ints |-> [retention_days |-> <<1, 3650, 90>>, hot_nodes |-> <<1, 100, 3>>],
     flags |-> [immutable_storage |-> TRUE, encryption_at_rest |-> TRUE], lists |-> {}]

LogPipelineParams ==
    [ints |-> NoInts, flags |-> [sign_records |-> TRUE], lists |-> {"sinks", "sources"}]

EdgeNodeParams ==
    [ints |-> NoInts,
     flags |-> [fips_image |-> TRUE, attestation_required |-> TRUE, disk_encryption |-> TRUE],
     lists |-> {}]

EdgeClusterParams ==
    [ints |-> [node_count |-> <<1, 50, 3>>],
     flags |-> [fips_image |-> TRUE, attestation_required |-> TRUE, offline_mode |-> TRUE],
     lists |-> {}]

SecureEmailParams ==
    [ints |-> [retention_days |-> <<1, 36500, 2555>>],
     flags |-> [tls_required |-> TRUE, dlp_enabled |-> TRUE], lists |-> {}]

SecureChatParams ==
    [ints |-> [retention_days |-> <<1, 36500, 365>>],
     flags |-> [tls_required |-> TRUE, external_federation |-> FALSE], lists |-> {}]

IdpBrokerParams ==
    [ints |-> [max_token_minutes |-> <<1, 1440, 60>>],
     flags |-> [require_mfa |-> TRUE, allow_piv_cac |-> TRUE], lists |-> {}]

ScimBridgeParams ==
    [ints |-> [sync_interval_minutes |-> <<1, 1440, 15>>],
     flags |-> [deprovision_on_remove |-> TRUE], lists |-> {}]

CloudAccountParams ==
    [ints |-> NoInts, flags |-> [guardrails_enabled |-> TRUE, org_audit_enabled |-> TRUE],
     lists |-> {}]

LandingZoneParams ==
    [ints |-> [account_count |-> <<1, 100, 3>>], flags |-> [network_boundary |-> TRUE],
     lists |-> {}]

PermissionedLedgerParams ==
    [ints |-> [validator_count |-> <<1, 100, 4>>],
     flags |-> [permissioned |-> TRUE, validator_identity_required |-> TRUE,
                hsm_key_custody |-> TRUE, fips_crypto |-> TRUE], lists |-> {}]

-----------------------------------------------------------------------------
(* Renderers: coerces (the tags are converted before the model sees them, or *)
(* left to it), the flags that are parameters and that render puts nowhere   *)
(* in its document, name and kind of that document, name and kind            *)
(* validate looks for (AnyKind: it only parses), kind of the deployment step     *)
(* (NoStep: the manifest is empty and apply does nothing).                   *)

AnyKind == "any"
NoStep == "none"

Renderer(params, coerces, omits, writes, wants, step) ==
    [params |-> params, coerces |-> coerces, omits |-> omits, writes |-> writes,
     wants |-> wants, step |-> step]

\* The documents the larger renderers build in a helper of their own.
k8s_deployment == "Deployment"
tf_database == "resource"

siem_statefulset == "StatefulSet"

InferenceEndpointRenderer ==
    Renderer(InferenceEndpointParams, FALSE, {"pii_redaction", "tls", "logging_enabled"},
             <<"deployment.yaml", k8s_deployment>>,
             <<"deployment.yaml", "Deployment">>, "k8s-apply")
RagWorkspaceRenderer ==
    Renderer(RagWorkspaceParams, FALSE, {"pii_redaction"}, <<"rag.yaml", "ConfigMap">>,
             <<"rag.yaml", AnyKind>>, "k8s-apply")
ManagedDatabaseRenderer ==
    Renderer(ManagedDatabaseParams, TRUE, {}, <<"main.tf.json", tf_database>>,
             <<"main.tf.json", "resource">>, "terraform-apply")
VectorDbRenderer ==
    Renderer(VectorDbParams, TRUE, {}, <<"main.tf.json", "resource">>,
             <<"main.tf.json", AnyKind>>, "terraform-apply")
SiemWorkspaceRenderer ==
    Renderer(SiemWorkspaceParams, TRUE, {"encryption_at_rest"},
             <<"siem.yaml", siem_statefulset>>,
             <<"siem.yaml", "StatefulSet">>, "k8s-apply")
LogPipelineRenderer ==
    Renderer(LogPipelineParams, TRUE, {}, <<"pipeline.yaml", "ConfigMap">>,
             <<"pipeline.yaml", AnyKind>>, "k8s-apply")
EdgeNodeRenderer ==
    Renderer(EdgeNodeParams, TRUE, {"disk_encryption"}, <<"node.yaml", "Pod">>,
             <<"node.yaml", "Pod">>, "k8s-apply")
EdgeClusterRenderer ==
    Renderer(EdgeClusterParams, TRUE, {"attestation_required"},
             <<"cluster.yaml", "DaemonSet">>,
             <<"cluster.yaml", "DaemonSet">>, "k8s-apply")
SecureEmailRenderer ==
    Renderer(SecureEmailParams, TRUE, {}, <<"email.json", "config">>,
             <<"email.json", AnyKind>>, NoStep)
SecureChatRenderer ==
    Renderer(SecureChatParams, TRUE, {}, <<"chat.json", "config">>,
             <<"chat.json", AnyKind>>, NoStep)
IdpBrokerRenderer ==
    Renderer(IdpBrokerParams, TRUE, {}, <<"idp.json", "config">>,
             <<"idp.json", AnyKind>>, NoStep)
ScimBridgeRenderer ==
    Renderer(ScimBridgeParams, TRUE, {}, <<"scim.json", "config">>,
             <<"scim.json", AnyKind>>, NoStep)
CloudAccountRenderer ==
    Renderer(CloudAccountParams, TRUE, {}, <<"main.tf.json", "resource">>,
             <<"main.tf.json", "resource">>, "terraform-apply")
LandingZoneRenderer ==
    Renderer(LandingZoneParams, TRUE, {}, <<"main.tf.json", "resource">>,
             <<"main.tf.json", AnyKind>>, "terraform-apply")
PermissionedLedgerRenderer ==
    Renderer(PermissionedLedgerParams, TRUE, {"validator_identity_required", "fips_crypto"},
             <<"ledger.yaml", "StatefulSet">>,
             <<"ledger.yaml", "StatefulSet">>, "k8s-apply")

\* What each pack's Pack class registers.
AiPack == {"inference-endpoint", "rag-workspace"}
DataPack == {"managed-database", "vector-db"}
SecopsPack == {"siem-workspace", "log-pipeline"}
EdgePack == {"edge-node", "edge-cluster"}
CommsPack == {"secure-email", "secure-chat"}
IdentityPack == {"idp-broker", "scim-bridge"}
MulticloudPack == {"cloud-account", "landing-zone"}
BlockchainPack == {"permissioned-ledger"}
FinopsPack == {}

PackTypes == UNION {AiPack, DataPack, SecopsPack, EdgePack, CommsPack, IdentityPack,
                    MulticloudPack, BlockchainPack, FinopsPack}

renderers == [t \in PackTypes |->
    CASE t = "inference-endpoint"  -> InferenceEndpointRenderer
      [] t = "rag-workspace"       -> RagWorkspaceRenderer
      [] t = "managed-database"    -> ManagedDatabaseRenderer
      [] t = "vector-db"           -> VectorDbRenderer
      [] t = "siem-workspace"      -> SiemWorkspaceRenderer
      [] t = "log-pipeline"        -> LogPipelineRenderer
      [] t = "edge-node"           -> EdgeNodeRenderer
      [] t = "edge-cluster"        -> EdgeClusterRenderer
      [] t = "secure-email"        -> SecureEmailRenderer
      [] t = "secure-chat"         -> SecureChatRenderer
      [] t = "idp-broker"          -> IdpBrokerRenderer
      [] t = "scim-bridge"         -> ScimBridgeRenderer
      [] t = "cloud-account"       -> CloudAccountRenderer
      [] t = "landing-zone"        -> LandingZoneRenderer
      [] t = "permissioned-ledger" -> PermissionedLedgerRenderer]

-----------------------------------------------------------------------------
(* Tags to parameters.  A tag is a string.  Of a flag: "true" (or "1",       *)
(* "yes"), "TRUE" (another case of those), "on" (a word pydantic takes for   *)
(* true and the packs do not list), "false" (a word pydantic takes for       *)
(* false), "junk".  Of an integer: the digits of a number next to one of its *)
(* bounds, or "junk".  Of a list: its items, separated by commas.            *)

FlagWords == {"true", "TRUE", "on", "false", "junk"}
IntWords == {"below", "least", "most", "above", "junk"}

lower(word) == IF word = "TRUE" THEN "true" ELSE word

\* Mutant: the tag is compared as it is spelled.
coerce_bool_cased(word) == word = "true"

\* str(tag).lower() in {"1", "true", "yes"}: every other word is false.
coerce_bool(word) == lower(word) = "true"

pydantic_bool(word) == lower(word) \in {"true", "on"}

number(bounds, word) ==
    CASE word = "below" -> bounds[1] - 1 [] word = "least" -> bounds[1]
      [] word = "most"  -> bounds[2]     [] word = "above" -> bounds[2] + 1

int_valid(bounds, word) == word # "junk" /\ number(bounds, word) \in bounds[1]..bounds[2]

\* _params raises: int() of a word, or the model's validation.
params_raise(r, tags) ==
    \E f \in DOMAIN tags :
        \/ f \in DOMAIN r.params.ints /\ ~int_valid(r.params.ints[f], tags[f])
        \/ f \in DOMAIN r.params.flags /\ ~r.coerces /\ tags[f] = "junk"
        \/ f \in r.params.lists /\ ~r.coerces

params_flag(r, tags, f) ==
    CASE f \notin DOMAIN tags -> r.params.flags[f]
      [] f \in DOMAIN tags /\ r.coerces  -> coerce_bool(tags[f])
      [] f \in DOMAIN tags /\ ~r.coerces -> pydantic_bool(tags[f])

params_int(r, tags, f) ==
    IF f \in DOMAIN tags THEN number(r.params.ints[f], tags[f]) ELSE r.params.ints[f][3]

Fields(r) == DOMAIN r.params.ints \cup DOMAIN r.params.flags \cup r.params.lists

Words(r, f) ==
    CASE f \in DOMAIN r.params.ints -> IntWords
      [] f \in DOMAIN r.params.flags -> FlagWords
      [] f \in r.params.lists -> {"items"}

TagSets(r) ==
    UNION {{tags \in [fs -> IntWords \cup FlagWords \cup {"items"}] :
               \A f \in fs : tags[f] \in Words(r, f)}
           : fs \in UNION {kSubset(k, Fields(r)) : k \in 0..MaxTags}}

-----------------------------------------------------------------------------
VARIABLES
    tools,      \* the CLIs on the control plane's PATH
    placed,     \* /artifacts/<instance>/ holds a file (put there from outside)
    instance,   \* the broker's record: [type, tags], or NoInstance
    artifact,   \* what the last render produced: [flags, ints, file], or NoArtifact
    backend,    \* what is deployed: "nothing", "placed" (the file at the path),
                \* "partial"
    answer      \* status of the last /render, 0 before it

packVars == <<tools, placed, instance, artifact, backend, answer>>

NoInstance == [type |-> "none", tags |-> [f \in {} |-> "junk"]]
NoArtifact == [flags |-> NoFlags, ints |-> [f \in {} |-> 0], file |-> <<"none", "none">>]

PacksInit ==
    /\ tools \in SUBSET {"kubectl", "terraform"}
    /\ placed \in BOOLEAN
    /\ instance = NoInstance /\ artifact = NoArtifact
    /\ backend = "nothing" /\ answer = 0

\* A provision request the broker has recorded.
provisioned ==
    /\ instance = NoInstance
    /\ \E t \in DOMAIN renderers : \E tags \in TagSets(renderers[t]) :
         instance' = [type |-> t, tags |-> tags]
    /\ UNCHANGED <<tools, placed, artifact, backend, answer>>

render(r, tags) ==
    [flags |-> [f \in DOMAIN r.params.flags \ r.omits |-> params_flag(r, tags, f)],
     ints |-> [f \in DOMAIN r.params.ints |-> params_int(r, tags, f)],
     file |-> r.writes]

validate(r, a) == a.file[1] = r.wants[1] /\ r.wants[2] \in {AnyKind, a.file[2]}

\* KubernetesExecutor.execute: the CLI must be there, and it reads the file at
\* manifest_path.  A failing call may have changed the backend in part.
KubernetesExecutor ==
    \/ /\ "kubectl" \in tools /\ placed
       /\ answer' = 200 /\ backend' = "placed"
    \/ answer' = 503 /\ backend' = IF "kubectl" \in tools /\ placed THEN "partial" ELSE backend

\* TerraformExecutor.execute: init, then apply, in module_dir.
TerraformExecutor ==
    \/ /\ "terraform" \in tools /\ placed
       /\ answer' = 200 /\ backend' = "placed"
    \/ answer' = 503 /\ backend' = IF "terraform" \in tools /\ placed THEN "partial" ELSE backend

\* BaseRenderer.apply of a pack: apply_manifest of the one step, or nothing.
apply(r) ==
    CASE r.step = NoStep            -> answer' = 200 /\ UNCHANGED backend
      [] r.step = "k8s-apply"       -> KubernetesExecutor
      [] r.step = "terraform-apply" -> TerraformExecutor

\* The control plane's /render of a pack's service type.  Only the Envoy
\* renderer raises RenderValidationError: whatever _params raises is a 500.
render_request ==
    /\ instance # NoInstance /\ answer = 0
    /\ LET r == renderers[instance.type]
           a == render(r, instance.tags)
       IN \/ /\ params_raise(r, instance.tags)
             /\ answer' = 500
             /\ UNCHANGED <<artifact, backend>>
          \/ /\ ~params_raise(r, instance.tags) /\ ~validate(r, a)
             /\ answer' = 422
             /\ artifact' = a
             /\ UNCHANGED backend
          \/ /\ ~params_raise(r, instance.tags) /\ validate(r, a)
             /\ apply(r)
             /\ artifact' = a
    /\ UNCHANGED <<tools, placed, instance>>

\* Deprovision: teardown of every pack renderer names a resource and removes
\* none; the record goes.
teardown ==
    /\ answer # 0
    /\ instance' = NoInstance /\ artifact' = NoArtifact /\ answer' = 0
    /\ UNCHANGED <<tools, placed, backend>>

PacksNext ==
    \/ provisioned
    \/ render_request
    \/ teardown

PacksSpec == PacksInit /\ [][PacksNext]_packVars

-----------------------------------------------------------------------------
PacksTypeOK ==
    /\ tools \subseteq {"kubectl", "terraform"} /\ placed \in BOOLEAN
    /\ instance.type \in DOMAIN renderers \cup {"none"}
    /\ backend \in {"nothing", "placed", "partial"}
    /\ answer \in {0, 200, 422, 500, 503}

\* What a document says of a parameter is what the tenant wrote: a flag whose tag
\* says true, in any case, is on, one whose tag says false is off, a field
\* without a tag has its default, and an integer lies within the bounds of the
\* pack's model (the _params methods and models.py of the packs).
RenderedAsAsked ==
    artifact # NoArtifact =>
        LET p == renderers[instance.type].params
            tags == instance.tags
        IN /\ \A f \in DOMAIN artifact.flags :
                IF f \in DOMAIN tags
                THEN /\ tags[f] \in {"true", "TRUE"} => artifact.flags[f]
                     /\ tags[f] = "false" => ~artifact.flags[f]
                ELSE artifact.flags[f] = p.flags[f]
           /\ \A f \in DOMAIN p.ints :
                /\ artifact.ints[f] \in p.ints[f][1]..p.ints[f][2]
                /\ f \notin DOMAIN tags => artifact.ints[f] = p.ints[f][3]

\* Violated by the code.  edge/renderers.py:51-52 describes the edge node as
\* "Hardened single edge node (FIPS image, attestation, disk encryption)" and its
\* schema has a flag for each; the Pod render writes says nothing of the last, and
\* five more classes leave out one flag or more.
AskedIsRendered ==
    artifact # NoArtifact =>
        \A f \in DOMAIN instance.tags \cap DOMAIN renderers[instance.type].params.flags :
            f \in DOMAIN artifact.flags

\* No artifact a pack's render produces is refused by the validate of the same
\* class: the two agree on the file's name and on the kind of document in it.
OwnArtifactValid == answer # 422

\* Violated by the code.  renderers/base.py:42-43 says of render "May raise on
\* invalid inputs (the chassis converts to 422 problem detail)"; the control
\* plane converts RenderValidationError alone, and a pack's bad tag is a 500.
InvalidInputIs422 == answer # 500

\* Violated by the code.  renderers/base.py:78 says of teardown "Remove all
\* artifacts and live resources for `instance`"; the packs' teardown returns
\* the name of a resource and removes nothing.
TeardownRemoves == instance = NoInstance => backend = "nothing"

\* Violated by the code.  secops/renderers.py:203-205 says "list-typed fields
\* arrive comma-separated (or already a list when constructed directly).
\* Normalise both."; the AI pack does not, so that no request can name a RAG
\* workspace's connectors.
ListTagsAccepted ==
    answer = 500 =>
        \E f \in DOMAIN instance.tags : f \notin renderers[instance.type].params.lists

\* Violated by the code.  A word for true that pydantic accepts ("on") turns a
\* flag on in the AI pack and off in every other.
OneMeaningOfTrue ==
    \A f \in DOMAIN artifact.flags :
        f \in DOMAIN instance.tags /\ instance.tags[f] = "on" => artifact.flags[f]

=============================================================================
