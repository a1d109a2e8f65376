------------------------------ MODULE JobObjects ------------------------------
(* What createBenchmarkResources builds for one benchmark: the job             *)
(* configuration, the pod's containers, volumes and mounts, the sidecar's      *)
(* configuration and the adapter's Secret.  Three reads of the cluster feed    *)
(* it (hardware profile, MLflow CA bundle, model Secret), each a step of its   *)
(* own, and the cluster may change around each of them; the pod mounts the     *)
(* model Secret once more, later.                                              *)
(*                                                                             *)
(* Abstractions: a text is empty or set (BOOLEAN) unless its value matters; of *)
(* the four quantities only the CPU request is kept; a volume's source keeps   *)
(* its kind and the object it names.                                           *)
(*                                                                             *)
(* Mutants: WholeSecretVolumes of buildRuntimeContainerVolumes,                *)
(* GitMetadataOnly of initContainerVolumes.                                    *)
EXTENDS K8sNames, ModelRefs, FiniteSets

CONSTANTS Requests,    \* deployment, provider and evaluation, as one record
          UserSecrets, \* contents the user's model Secret may have
          Profiles,    \* HardwareProfile resources
          Absent,      \* an object that is not there
          JobIDs, GUIDs, \* ids of jobs and of executions
          MaxEdits     \* bound on changes of the cluster during the creation

(* Secrets are what the classification of keys makes of them; requests name    *)
(* the kind of their test data, if any, list the claims of the                 *)
(* post-processors, and never ask for a GPU and a DRA claim at once.           *)
ASSUME ObjectsAssumption ==
  /\ NoKey \notin KeyPrefixes /\ Absent \notin UserSecrets
  /\ \A s \in UserSecrets : IsSecret(s)
  /\ \A r \in Requests : /\ r.testData \in {"none", "s3", "s3root", "git", "hf", "pvc"}
                         /\ r.claims \in Seq(Range(r.claims))
                         /\ \A w \in {r.hw, r.jobHW} :
                              w.dra => ~w.gpuName /\ ~(w.gpuCount > 0)

(* The id of an execution is a UUID: one length for all of them, a label, and  *)
(* short enough that a name has room for it, a suffix and some of the job id.  *)
ASSUME IdsAssumption ==
  /\ \A id \in JobIDs : id \in Seq(STRING)
  /\ \A g \in GUIDs : /\ g \in Seq(STRING) /\ IsDNSLabel(g)
                       /\ \A h \in GUIDs : Len(g) = Len(h)
                       /\ \A s \in {specSuffix, modelRefSuffix, netpolSuffix} :
                            Len(g) + Len(s) + 2 <= maxK8sNameLength
  /\ \A r \in Requests : r.id \in JobIDs /\ r.guid \in GUIDs

NoSecret  == Absent
NoProfile == Absent
NoConfig  == Absent

VARIABLES req,      \* the request being turned into objects
          secret,   \* the user's Secret in the cluster
          profile,  \* the HardwareProfile in the cluster
          bundle,   \* the {instance}-mlflow-ca-bundle ConfigMap is there
          edits,    \* changes of the cluster so far
          pc, cfg,
          inspected,\* the content of the Secret when it was inspected
          pod,      \* the Job's pod template and the sidecar configuration
          refData,  \* the adapter's Secret
          cache     \* the Secret as the started sidecar has read it

vars == <<req, secret, profile, bundle, edits, pc, cfg, inspected, pod, refData, cache>>
------------------------------------------------------------------------------
(* Hardware: provider defaults, then the profile, then hardware_config, then   *)
(* the deprecated queue.                                                       *)

EffectiveHardwareConfig(r) == IF r.hw.mode # "none" THEN r.hw ELSE r.jobHW

providerHardware(p) ==
  [ok |-> ~(p.gpuCount > 0 /\ p.dra), cpu |-> "default",
   gpuName |-> p.gpuCount > 0 /\ p.gpuName, gpuCount |-> p.gpuCount, dra |-> p.dra,
   selector |-> p.selector, tolerations |-> FALSE, queue |-> FALSE]

Unset    == -1   \* a defaultCount that is not there
NoNumber == -2   \* one that is no number

(* Later identifiers of a kind win, and one without a count leaves the count.  *)
parseHardwareProfileResources(p) ==
  LET Add(a, i) ==
        CASE i.type = "CPU" /\ i.count # Unset ->
               [a EXCEPT !.cpu = IF i.count = NoNumber THEN "bad" ELSE "ok"]
          [] i.type = "Accelerator" ->
               [a EXCEPT !.gpu = TRUE, !.ok = @ /\ i.count # NoNumber,
                         !.gpuCount = IF i.count \in {Unset, NoNumber} THEN @ ELSE i.count]
          [] OTHER -> a
  IN  FoldLeft(Add, [ok |-> TRUE, cpu |-> "unset", gpu |-> FALSE, gpuCount |-> 0,
                     scheduling |-> p.scheduling, queueName |-> p.queueName,
                     selector |-> p.selector, tolerations |-> p.tolerations], p.identifiers)

ClearPlacement(h) == [h EXCEPT !.selector = FALSE, !.tolerations = FALSE]

applyHardwareProfileResources(h, f) ==
  LET r == [h EXCEPT !.cpu = IF f.cpu # "unset" THEN f.cpu ELSE @,
                     !.gpuName = @ \/ f.gpu,
                     !.gpuCount = IF f.gpuCount > 0 THEN f.gpuCount ELSE @]
  IN  CASE f.scheduling = "Queue" /\ f.queueName -> ClearPlacement([r EXCEPT !.queue = TRUE])
        [] f.scheduling = "Node" -> [r EXCEPT !.selector = @ \/ f.selector,
                                              !.tolerations = @ \/ f.tolerations]
        [] OTHER -> r

applyQueueIfUnset(h, q) == IF h.queue \/ ~q THEN h ELSE ClearPlacement([h EXCEPT !.queue = TRUE])

(* A GPU override drops a provider's DRA default and a DRA override drops the  *)
(* GPU; one hardware_config has at most one of them (request validation).      *)
applyDirectHardwareConfig(h, w) ==
  LET gpu == w.gpuName \/ w.gpuCount > 0
      r == [h EXCEPT !.ok = @ /\ w.cpu # "bad",
                     !.cpu = IF w.cpu # "unset" THEN w.cpu ELSE @,
                     !.gpuName = (@ \/ w.gpuName) /\ ~w.dra,
                     !.gpuCount = IF w.dra THEN 0 ELSE IF w.gpuCount > 0 THEN w.gpuCount ELSE @,
                     !.dra = (@ /\ ~gpu) \/ w.dra]
  IN  applyQueueIfUnset(r, w.queue)

finalizeAcceleratorConfig(h) ==
  IF ~h.dra THEN h ELSE [h EXCEPT !.ok = @ /\ h.gpuCount = 0, !.selector = FALSE]

hardwareFor(r, f) ==
  LET w == EffectiveHardwareConfig(r)
      fromProvider == providerHardware(r.provider)
      fromProfile  == IF w.mode = "profile" THEN applyHardwareProfileResources(fromProvider, f)
                                               ELSE fromProvider
      direct       == IF w.mode = "direct" THEN applyDirectHardwareConfig(fromProfile, w)
                                              ELSE fromProfile
  IN  finalizeAcceleratorConfig(applyQueueIfUnset(direct, r.queue))
------------------------------------------------------------------------------
(* The job configuration.                                                      *)

(* postProcessorPVCConfigs: one volume per claim, numbered as first met.       *)
postProcessorPVCConfigs(claims) ==
  LET firsts == {i \in DOMAIN claims : \A j \in 1..(i - 1) : claims[j] # claims[i]}
  IN  {[claim |-> claims[i], vol |-> <<"ppi-calibration-pvc", Cardinality({j \in firsts : j < i})>>,
        path |-> <<"/mnt/calibration-pvc", claims[i]>>] : i \in firsts}

(* The service's own settings for the sidecar, read for every Job.             *)
sidecarResourcesParse(r) == r.sidecarQuantities # "bad"

buildJobConfig(r, f) ==
  LET hw == hardwareFor(r, f) IN
  [ok |-> r.valid /\ sidecarResourcesParse(r) /\ hw.ok, hw |-> hw,
   instance |-> r.instance, mlflow |-> r.mlflow, bundle |-> FALSE,
   oci |-> r.oci, modelURL |-> r.modelURL, auth |-> r.modelURL /\ r.auth, internalRef |-> FALSE,
   testData |-> IF r.testData = "s3root" THEN "none" ELSE r.testData,
   dataSecret |-> r.dataSecret \/ r.testData = "s3",
   pvcs |-> postProcessorPVCConfigs(r.claims)]

hasInitData(c) == c.testData \in {"s3", "git", "hf"}
isGitJob(c) == c.testData \in {"git", "hf"}
------------------------------------------------------------------------------
(* Volumes and mounts.  A volume is <<name, index>> with a source, a mount is  *)
(* a volume name with a path; sequences where the order decides.               *)

Vol(n, src) == [name |-> <<n, 0>>, src |-> src]
Mnt(n, p) == [vol |-> <<n, 0>>, path |-> <<p, "">>]
If(b, s) == IF b THEN s ELSE <<>>

SpecVolumes == <<Vol("job-spec", <<"configmap", "job-spec">>), Vol("data", <<"emptyDir">>),
                 Vol("termination-file-volume", <<"emptyDir">>)>>
CAVolumes(c) ==
  If(c.instance, <<Vol("evalhub-service-ca", <<"configmap", "service-ca">>)>>)
    \o If(c.bundle /\ c.mlflow, <<Vol("mlflow-ca-bundle", <<"configmap", "mlflow-ca">>)>>)
CAMounts(c) ==
  (IF c.instance THEN {Mnt("evalhub-service-ca", "/etc/pki/ca-trust")} ELSE {})
    \cup (IF c.bundle /\ c.mlflow THEN {Mnt("mlflow-ca-bundle", "/etc/evalhub/mlflow-ca")} ELSE {})
OCIVolume(c) == If(c.oci, <<Vol("oci-credentials", <<"secret", "oci">>)>>)
OCIMount(c) == IF c.oci THEN {Mnt("oci-credentials", "/etc/evalhub/.docker")} ELSE {}

WholeSecretVolumes(c) ==
  SpecVolumes \o <<Vol("pod-namespace", <<"downward">>)>> \o CAVolumes(c) \o OCIVolume(c)
    \o If(c.auth, <<Vol("model-auth-internal", <<"secret", "model">>)>>)
    \o If(c.testData = "pvc", <<Vol("test-data", <<"pvc", "test-data">>)>>)
    \o SetToSeq({[name |-> p.vol, src |-> <<"pvc", p.claim>>] : p \in c.pvcs})
(* The adapter: the passthrough keys of the user's Secret and the ref Secret.  *)
buildRuntimeContainerVolumes(c) ==
  SpecVolumes \o <<Vol("pod-namespace", <<"downward">>)>> \o CAVolumes(c) \o OCIVolume(c)
    \o If(c.auth, <<Vol("model-auth-internal",
                        <<"projected", {"hf-token", "ca_cert"}, c.internalRef>>)>>)
    \o If(c.testData = "pvc", <<Vol("test-data", <<"pvc", "test-data">>)>>)
    \o SetToSeq({[name |-> p.vol, src |-> <<"pvc", p.claim>>] : p \in c.pvcs})
buildRuntimeContainerMounts(c) ==
  {Mnt("job-spec", "/meta/job.json"), Mnt("data", "/data"),
   Mnt("termination-file-volume", "/shared"), Mnt("pod-namespace", "/serviceaccount")}
    \cup CAMounts(c) \cup OCIMount(c)
    \cup (IF c.auth THEN {Mnt("model-auth-internal", "/secrets/model")} ELSE {})
    \cup (IF hasInitData(c) \/ c.testData = "pvc" THEN {Mnt("test-data", "/test_data")} ELSE {})
    \cup {[vol |-> p.vol, path |-> p.path] : p \in c.pvcs}

buildSidecarContainerVolumes(c) ==
  SpecVolumes \o CAVolumes(c) \o <<Vol("evalhub-sa-token", <<"sa-token">>)>>
    \o If(c.mlflow, <<Vol("mlflow-token", <<"sa-token">>)>>)
    \o If(c.auth, <<Vol("model-auth", <<"secret", "model">>)>>) \o OCIVolume(c)
buildSidecarContainerMounts(c) ==
  {Mnt("job-spec", "/meta/job.json"), Mnt("job-spec", "/meta/sidecar_config.json"),
   Mnt("data", "/data"), Mnt("termination-file-volume", "/shared"),
   Mnt("evalhub-sa-token", "/serviceaccount")}
    \cup CAMounts(c) \cup OCIMount(c)
    \cup (IF c.mlflow THEN {Mnt("mlflow-token", "/secrets/mlflow")} ELSE {})
    \cup (IF c.auth THEN {Mnt("model-auth", "/secrets/model")} ELSE {})
    \cup (IF isGitJob(c) THEN {Mnt("init-metadata", "/init-metadata")} ELSE {})

DataSecretVolume(kind) == CASE kind = "s3"  -> "test-data-secret"
                            [] kind = "git" -> "test-data-git-auth"
                            [] kind = "hf"  -> "test-data-hf-auth"
GitMetadataOnly(c) ==
  If(hasInitData(c), <<Vol("test-data", <<"emptyDir">>)>>)
    \o If(c.testData = "git", <<Vol("init-metadata", <<"emptyDir">>)>>)
    \o If(hasInitData(c) /\ c.dataSecret,
          <<Vol(DataSecretVolume(c.testData), <<"secret", "test-data">>)>>)
initContainerVolumes(c) ==
  If(hasInitData(c), <<Vol("test-data", <<"emptyDir">>)>>)
    \o If(isGitJob(c), <<Vol("init-metadata", <<"emptyDir">>)>>)
    \o If(hasInitData(c) /\ c.dataSecret,
          <<Vol(DataSecretVolume(c.testData), <<"secret", "test-data">>)>>)
initContainerMounts(c) ==
  (IF hasInitData(c) THEN {Mnt("test-data", "/test_data")} ELSE {})
    \cup (IF isGitJob(c) THEN {Mnt("init-metadata", "/init-metadata")} ELSE {})
    \cup (IF hasInitData(c) /\ c.dataSecret
            THEN {Mnt(DataSecretVolume(c.testData), "/secrets/test-data")} ELSE {})

(* The first volume of each name is kept.                                      *)
mergeVolumesByName(vs) ==
  {vs[i] : i \in {j \in DOMAIN vs : \A k \in 1..(j - 1) : vs[k].name # vs[j].name}}
------------------------------------------------------------------------------
(* Environment of the adapter and configuration of the sidecar: the files      *)
(* they name.                                                                  *)

(* The merged bundle, else the path the API process is configured with, else   *)
(* the service CA.                                                             *)
ConfiguredCA == "configured"
mlflowCACertPathForJob(c, r) ==
  CASE c.bundle   -> "/etc/evalhub/mlflow-ca"
    [] ~c.bundle /\ r.caPath -> ConfiguredCA
    [] ~c.bundle /\ ~r.caPath /\ c.instance -> "/etc/pki/ca-trust"
    [] OTHER -> "none"

(* A name is set once: server values first, then the provider's, then OTEL.    *)
buildEnvVars(c, r) ==
  LET server == {"EVALHUB_MODE"}
                  \cup (IF c.mlflow THEN {"MLFLOW_TRACKING_URI", "MLFLOW_WORKSPACE"} ELSE {})
                  \cup (IF c.oci THEN {"OCI_AUTH_CONFIG_PATH"} ELSE {})
                  \cup (IF c.pvcs # {} THEN {"POST_PROCESSOR_PVC_MOUNTS"} ELSE {})
                  \cup (IF c.mlflow /\ mlflowCACertPathForJob(c, r) # "none"
                          THEN {"MLFLOW_CERT_PATH"} ELSE {})
      otel == IF r.otel THEN {"OTEL_EXPORTER_OTLP_ENDPOINT"} ELSE {}
  IN  [n \in server \cup r.provider.env \cup otel |->
         IF n \in server THEN "server" ELSE IF n \in r.provider.env THEN "provider" ELSE "otel"]

envFiles(c, r) ==
  {q \in {IF c.oci THEN "/etc/evalhub/.docker" ELSE "none",
          IF c.mlflow THEN mlflowCACertPathForJob(c, r) ELSE "none"} : q # "none"}

(* sidecarForJobPod: the paths it writes into sidecar_config.json.             *)
sidecarForJobPod(c, r) ==
  {q \in {IF c.instance THEN "/etc/pki/ca-trust" ELSE "none",
          IF isGitJob(c) THEN "/init-metadata" ELSE "none",
          IF c.mlflow THEN "/secrets/mlflow" ELSE "none",
          IF c.mlflow THEN mlflowCACertPathForJob(c, r) ELSE "none",
          IF c.modelURL /\ c.auth THEN "/secrets/model" ELSE "none"} : q # "none"}

(* The Job, its ConfigMap, the adapter's Secret, the NetworkPolicy.            *)
objectNames(id, guid) ==
  <<jobName(id, guid), configMapName(id, guid),
    buildK8sName(id, guid, modelRefSuffix), netpolName(guid)>>
AllNames == {[guid |-> g, names |-> objectNames(id, g)] : id \in JobIDs, g \in GUIDs}

buildResources(h) ==
  [ok |-> h.cpu # "bad", gpu |-> h.gpuCount > 0 /\ h.gpuName, claims |-> h.dra]
buildResourceClaims(h) == h.dra
(* The kind of a queue is "kueue" (the only one validation takes, and the       *)
(* default), so that its label depends on the name alone.                      *)
jobLabels(c) == [queue |-> c.hw.queue, instance |-> c.instance]

(* The keys of the job's ConfigMap, by the path each is mounted at.            *)
buildConfigMap == {"/meta/job.json", "/meta/sidecar_config.json"}

buildJob(c, r) ==
  [ok |-> (hasInitData(c) => r.initImage) /\ buildResources(c.hw).ok,
   names |-> objectNames(r.id, r.guid),
   adapter |-> buildRuntimeContainerMounts(c), sidecar |-> buildSidecarContainerMounts(c),
   init |-> initContainerMounts(c),
   volumes |-> mergeVolumesByName(buildRuntimeContainerVolumes(c) \o initContainerVolumes(c)
                                    \o buildSidecarContainerVolumes(c)),
   declared |-> buildRuntimeContainerVolumes(c) \o initContainerVolumes(c)
                                    \o buildSidecarContainerVolumes(c),
   env |-> buildEnvVars(c, r), envFiles |-> envFiles(c, r), sidecarFiles |-> sidecarForJobPod(c, r),
   resources |-> buildResources(c.hw), claims |-> buildResourceClaims(c.hw),
   labels |-> jobLabels(c),
   selector |-> c.hw.selector, tolerations |-> c.hw.tolerations]
------------------------------------------------------------------------------
(* The steps of createBenchmarkResources.                                      *)

TypeOK ==
  /\ req.id \in JobIDs /\ req.guid \in GUIDs
  /\ \A s \in {secret, inspected, cache} : s = NoSecret \/ IsSecret(s)
  /\ bundle \in BOOLEAN /\ edits \in 0..MaxEdits
  /\ pc \in {"validate", "profile", "bundle", "inspect", "build", "secret", "created", "started", "failed"}
  /\ pc \in {"validate", "profile"} => cfg = NoConfig
  /\ pc \in {"created", "started"} => cfg.ok /\ pod # NoConfig
  /\ refData = NoSecret \/ DOMAIN refData \subseteq Keys

(* What the request does not name is not there.                                *)
SecretsFor(r) == IF r.modelURL /\ r.auth THEN UserSecrets \cup {NoSecret} ELSE {NoSecret}
ProfilesFor(r) == IF EffectiveHardwareConfig(r).mode = "profile" THEN Profiles \cup {NoProfile} ELSE {NoProfile}
BundlesFor(r) == IF r.instance /\ r.mlflow THEN BOOLEAN ELSE {FALSE}

Init ==
  /\ req \in Requests /\ secret \in SecretsFor(req) /\ profile \in ProfilesFor(req)
  /\ bundle \in BundlesFor(req) /\ edits = 0 /\ pc = "validate"
  /\ cfg = NoConfig /\ pod = NoConfig
  /\ inspected = NoSecret /\ refData = NoSecret /\ cache = NoSecret

Goto(p) == pc' = p /\ UNCHANGED <<req, secret, profile, bundle, edits>>

(* The create request: the job is stored, and its creation started, only if    *)
(* the profile can be read, is enabled and parses.                             *)
ValidateHardwareProfiles ==
  /\ pc = "validate"
  /\ UNCHANGED <<cfg, inspected, pod, refData, cache>>
  /\ IF \/ EffectiveHardwareConfig(req).mode # "profile"
        \/ /\ profile # NoProfile /\ ~profile.disabled
           /\ parseHardwareProfileResources(profile).ok
     THEN Goto("profile") ELSE Goto("failed")

(* The profile is read again, after the check at the request, and is not       *)
(* checked for being disabled.                                                 *)
FetchProfile ==
  /\ pc = "profile"
  /\ UNCHANGED <<inspected, pod, refData, cache>>
  /\ LET named == EffectiveHardwareConfig(req).mode = "profile"
         parsed == IF named /\ profile # NoProfile THEN parseHardwareProfileResources(profile)
                                                   ELSE NoProfile
         found == named => parsed # NoProfile /\ parsed.ok
         c == buildJobConfig(req, parsed)
     IN  IF found /\ c.ok THEN cfg' = c /\ Goto("bundle")
                          ELSE cfg' = NoConfig /\ Goto("failed")

(* A bundle that is absent, or cannot be read, is not mounted.                 *)
resolveMLFlowCABundleConfigMap ==
  /\ pc = "bundle"
  /\ \E read \in BOOLEAN :
       cfg' = [cfg EXCEPT !.bundle = read /\ bundle /\ cfg.instance /\ cfg.mlflow]
  /\ UNCHANGED <<inspected, pod, refData, cache>>
  /\ Goto("inspect")

inspectModelSecret ==
  /\ pc = "inspect"
  /\ UNCHANGED <<pod, refData, cache>>
  /\ IF ~cfg.auth THEN UNCHANGED <<cfg, inspected>> /\ Goto("build")
     ELSE IF secret = NoSecret THEN UNCHANGED <<cfg, inspected>> /\ Goto("failed")
     ELSE LET has == \E k \in DOMAIN secret : isModelCredentialKey(k)
          IN  /\ cfg' = [cfg EXCEPT !.internalRef = has]
              /\ inspected' = IF has THEN secret ELSE NoSecret
              /\ Goto("build")

BuildObjects ==
  /\ pc = "build"
  /\ LET j == buildJob(cfg, req)
     IN  IF j.ok THEN pod' = j /\ Goto("secret") ELSE UNCHANGED pod /\ Goto("failed")
  /\ UNCHANGED <<cfg, inspected, refData, cache>>

(* The adapter's Secret is built from the content that was inspected, and      *)
(* before anything is created; a *_url value that is no known host may not     *)
(* parse, which ends it.                                                       *)
HasBadURL(s) == \E k \in DOMAIN s : k.class = "url" /\ s[k] \notin Hosts
buildInternalModelRefSecret ==
  /\ pc = "secret"
  /\ \/ /\ refData' = IF cfg.internalRef THEN internalModelRef(inspected) ELSE NoSecret
        /\ UNCHANGED pod /\ Goto("created")
     \/ /\ cfg.internalRef /\ HasBadURL(inspected)
        /\ UNCHANGED refData /\ pod' = NoConfig /\ Goto("failed")
  /\ UNCHANGED <<cfg, inspected, cache>>

(* The kubelet mounts the user's Secret; the sidecar reads it once.            *)
PodStarts ==
  /\ pc = "created" /\ (cfg.auth => secret # NoSecret)
  /\ cache' = IF cfg.auth THEN secret ELSE NoSecret
  /\ UNCHANGED <<cfg, inspected, pod, refData>>
  /\ Goto("started")

(* The cluster changes around the creation.                                    *)
EditCluster ==
  /\ edits < MaxEdits /\ pc \notin {"failed", "started"}
  /\ edits' = edits + 1
  /\ \/ secret' \in SecretsFor(req) \ {secret} /\ UNCHANGED <<profile, bundle>>
     \/ profile' \in ProfilesFor(req) \ {profile} /\ UNCHANGED <<secret, bundle>>
     \/ bundle' \in BundlesFor(req) \ {bundle} /\ UNCHANGED <<secret, profile>>
  /\ UNCHANGED <<req, pc, cfg, inspected, pod, refData, cache>>

Next == \/ ValidateHardwareProfiles \/ FetchProfile \/ resolveMLFlowCABundleConfigMap \/ inspectModelSecret \/ BuildObjects
        \/ buildInternalModelRefSecret \/ PodStarts \/ EditCluster

Spec == Init /\ [][Next]_vars
------------------------------------------------------------------------------
Built == pod # NoConfig
SourceOf(v) == CHOOSE src \in {d.src : d \in pod.volumes} : [name |-> v, src |-> src] \in pod.volumes
PathsOf(mounts) == {m.path[1] : m \in mounts}

(* Of the provider's default, the profile and hardware_config exactly one      *)
(* mechanism survives: a pod never asks for a GPU and a claim, a queued or     *)
(* claim-scheduled pod has no node selector, and an accelerator asked for by   *)
(* hardware_config with all it needs is asked for by the pod.  A profile that  *)
(* did not change since the request was checked is enabled.  A queue of        *)
(* hardware_config, or the deprecated one where there is no hardware_config,   *)
(* is the pod's.                                                               *)
OneAccelerator ==
    /\ ~(pod.resources.gpu /\ pod.claims) /\ pod.resources.claims = pod.claims
    /\ pod.claims \/ pod.labels.queue => ~pod.selector
    /\ pod.labels.queue => ~pod.tolerations
    /\ LET w == EffectiveHardwareConfig(req)
       IN  /\ w.mode = "direct" /\ w.dra => pod.claims
           /\ w.mode = "direct" /\ w.gpuName /\ w.gpuCount > 0 => pod.resources.gpu
           /\ w.mode = "profile" /\ edits = 0 => ~profile.disabled
           /\ w.mode = "direct" /\ w.queue => pod.labels.queue
           /\ w.mode = "none" /\ req.queue => pod.labels.queue

(* The deprecated queue is "used only when neither hardware_config is set":    *)
(* false, since a hardware_config without a queue leaves it in force.          *)
DeprecatedQueueOnlyAlone ==
  LET w == EffectiveHardwareConfig(req)
  IN  Built /\ w.mode = "direct" /\ pod.labels.queue => w.queue

(* The three builders agree on the pod: every mount names a declared volume,   *)
(* no two mounts of a container share a path, a volume that several builders   *)
(* declare has one source (mergeVolumesByName keeps the first and drops the    *)
(* rest), the requested test data is mounted, and every file that the          *)
(* adapter's environment or the sidecar's configuration names is mounted in    *)
(* that container, save one: the MLflow CA path of the API process, which the  *)
(* containers are given as it is and for which no builder declares a volume.   *)
(* And the pod asks for its accelerator in one way.                            *)
PodWellFormed ==
  Built =>
    /\ \A c \in {pod.adapter, pod.sidecar, pod.init} :
         /\ \A m \in c : \E v \in pod.volumes : v.name = m.vol
         /\ \A m, n \in c : m.path = n.path => m = n
         /\ \A m \in c : m.vol[1] = "job-spec" => m.path[1] \in buildConfigMap
    /\ \A i, j \in DOMAIN pod.declared :
         pod.declared[i].name = pod.declared[j].name => pod.declared[i].src = pod.declared[j].src
    /\ req.testData \notin {"none", "s3root"} => "/test_data" \in PathsOf(pod.adapter)
    /\ pod.envFiles \subseteq PathsOf(pod.adapter) \cup {ConfiguredCA}
    /\ pod.sidecarFiles \subseteq PathsOf(pod.sidecar) \cup {ConfiguredCA}
    /\ OneAccelerator

(* The path given for MLflow's certificate is one "job containers should use": *)
(* false where the API process has a path of its own and there is no bundle.   *)
NamedCAMounted ==
  Built => ConfiguredCA \notin (pod.envFiles \ PathsOf(pod.adapter))
                             \cup (pod.sidecarFiles \ PathsOf(pod.sidecar))

(* The adapter runs third-party code: whatever the request, it is given        *)
(* neither a service account token nor the model Secret itself, only the       *)
(* passthrough keys, and the Secret made for it holds no value of the user's.  *)
AdapterHoldsNoCredential ==
  Built =>
    /\ \A m \in pod.adapter :
         LET src == SourceOf(m.vol)
         IN  /\ src[1] # "sa-token" /\ src # <<"secret", "model">>
             /\ src[1] = "projected" => src[2] \subseteq {"hf-token", "ca_cert"}
    /\ refData # NoSecret => \A k \in DOMAIN refData : refData[k].kind \in {"ref", "sidecar-url"}

(* A Secret that did not change between its inspection and the start of the    *)
(* pod: each ref the adapter was given resolves in the sidecar, to the value   *)
(* of its own key and to the host of its own prefix, unless an api-key is      *)
(* empty; and each credential of the Secret has a ref.                         *)
RefsResolve ==
  (pc = "started" /\ cfg.auth) =>
    /\ cfg.internalRef /\ cache = inspected =>
         /\ \A k \in DOMAIN refData :
              LET res == resolveModelCredential(k, cache, "sa-token")
                  url == [class |-> "url", prefix |-> k.prefix]
              IN  refData[k].kind = "ref" /\ (cache[k] # Empty \/ k.class = "sa") =>
                    /\ res.ok
                    /\ res.token = IF cache[k] = Empty THEN "sa-token" ELSE cache[k]
                    /\ url \in DOMAIN cache /\ cache[url] \in Hosts => res.host = cache[url]
         /\ \A k \in DOMAIN cache : isCredentialKey(k) => k \in DOMAIN refData
    /\ edits = 0 /\ ~cfg.internalRef => \A k \in DOMAIN cache : ~isCredentialKey(k)

(* The Job and its ConfigMap share a base although both are cut to fit, every  *)
(* name is one the API server takes, and two executions never share a name,    *)
(* whatever their job ids.                                                     *)
NamesAgree ==
  Built =>
    /\ pod.names[2] = pod.names[1] \o specSuffix
    /\ \A i \in DOMAIN pod.names : IsDNSLabel(pod.names[i])
    /\ \A x \in AllNames :
         x.guid # req.guid => \A i \in DOMAIN pod.names : pod.names[i] # x.names[i]
=============================================================================
