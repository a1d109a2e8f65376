-------------------------- MODULE JobObjectsProofs --------------------------
(***************************************************************************)
(* What the objects of a benchmark promise, for every request, Secret and  *)
(* hardware profile and for any number of changes of the cluster meanwhile.*)
(***************************************************************************)
EXTENDS JobObjects, FiniteSetTheorems, SequenceTheorems, TLAPS

-----------------------------------------------------------------------------
(* References to model credentials                                         *)

\* The fields of the job configuration.
IsConfig(c) ==
  c = [ok |-> c.ok, hw |-> c.hw, instance |-> c.instance, mlflow |-> c.mlflow,
       bundle |-> c.bundle, oci |-> c.oci, modelURL |-> c.modelURL, auth |-> c.auth,
       internalRef |-> c.internalRef, testData |-> c.testData, dataSecret |-> c.dataSecret,
       pvcs |-> c.pvcs]

HasCredential(s) == \E k \in DOMAIN s : isModelCredentialKey(k)

\* What is known of the Secret: it is a well-formed one, the flag of the
\* configuration says what the inspected content was, the adapter's Secret was
\* made from that content, and without an edit it is still the same.
SecretOK == secret = NoSecret \/ IsSecret(secret)
InspectedOK ==
  pc \in {"build", "secret", "created", "started"} /\ cfg.auth =>
    /\ cfg.internalRef => IsSecret(inspected)
    /\ edits = 0 => secret # NoSecret /\ (cfg.internalRef <=> HasCredential(secret))
RefDataOK ==
  pc \in {"created", "started"} =>
    refData = IF cfg.internalRef THEN internalModelRef(inspected) ELSE NoSecret
CacheOK ==
  pc = "started" /\ cfg.auth =>
    cache # NoSecret /\ IsSecret(cache) /\ (edits = 0 => cache = secret)

RefsInv ==
  /\ edits \in Nat
  /\ pc \notin {"validate", "profile", "failed"} => IsConfig(cfg)
  /\ SecretOK /\ InspectedOK /\ RefDataOK /\ CacheOK

\* A Secret of the cluster is a user's or none.
LEMMA ClusterSecret ==
  \A r : \A s \in SecretsFor(r) : s = NoSecret \/ IsSecret(s)
  BY ObjectsAssumption DEF SecretsFor

LEMMA RefsInit == Init => RefsInv
  BY ClusterSecret DEF Init, RefsInv, SecretOK, InspectedOK, RefDataOK, CacheOK

LEMMA RefsStep == RefsInv /\ [Next]_vars => RefsInv'
<1> SUFFICES ASSUME RefsInv, [Next]_vars PROVE RefsInv'
  OBVIOUS
<1> USE DEF RefsInv, SecretOK, InspectedOK, RefDataOK, CacheOK, Goto
<1>1. CASE ValidateHardwareProfiles
  BY <1>1 DEF ValidateHardwareProfiles
<1>2. CASE FetchProfile
  <2>1. \A r, f : IsConfig(buildJobConfig(r, f))
    BY DEF IsConfig, buildJobConfig
  <2>2. pc' \notin {"validate", "profile", "failed"} => IsConfig(cfg')
    BY <1>2, <2>1 DEF FetchProfile
  <2>3. QED
    BY <1>2, <2>2 DEF FetchProfile
<1>3. CASE resolveMLFlowCABundleConfigMap
  <2>1. IsConfig(cfg')
    BY <1>3 DEF resolveMLFlowCABundleConfigMap, IsConfig
  <2>2. QED
    BY <1>3, <2>1 DEF resolveMLFlowCABundleConfigMap
<1>4. CASE inspectModelSecret
  <2>1. CASE ~cfg.auth
    BY <1>4, <2>1 DEF inspectModelSecret
  <2>2. CASE cfg.auth /\ secret = NoSecret
    BY <1>4, <2>2 DEF inspectModelSecret
  <2>3. CASE cfg.auth /\ secret # NoSecret
    <3>1. /\ cfg' = [cfg EXCEPT !.internalRef = HasCredential(secret)]
          /\ inspected' = IF HasCredential(secret) THEN secret ELSE NoSecret
          /\ pc' = "build" /\ UNCHANGED <<req, secret, edits, pod, refData, cache>>
      BY <1>4, <2>3 DEF inspectModelSecret, HasCredential
    <3>2. IsConfig(cfg') /\ cfg'.internalRef = HasCredential(secret) /\ cfg'.auth
      BY <1>4, <2>3, <3>1 DEF inspectModelSecret, IsConfig
    <3>3. HasCredential(secret)' = HasCredential(secret)
      BY <3>1 DEF HasCredential
    <3>4. QED
      BY <2>3, <3>1, <3>2, <3>3
  <2>4. QED
    BY <2>1, <2>2, <2>3
<1>5. CASE BuildObjects
  <2>1. pc' \in {"secret", "failed"} /\ UNCHANGED <<req, secret, edits, cfg, inspected, refData, cache>>
    BY <1>5 DEF BuildObjects
  <2>2. QED
    BY <1>5, <2>1 DEF BuildObjects
<1>6. CASE buildInternalModelRefSecret
  BY <1>6 DEF buildInternalModelRefSecret
<1>7. CASE PodStarts
  BY <1>7 DEF PodStarts
<1>8. CASE EditCluster
  <2>1. SecretOK'
    BY <1>8, ClusterSecret DEF EditCluster
  <2>2. edits' \in Nat /\ edits' # 0
    BY <1>8 DEF EditCluster
  <2>3. QED
    BY <1>8, <2>1, <2>2 DEF EditCluster
<1>9. CASE UNCHANGED vars
  BY <1>9 DEF vars
<1>10. QED
  BY <1>1, <1>2, <1>3, <1>4, <1>5, <1>6, <1>7, <1>8, <1>9 DEF Next

LEMMA RefsInvariant == Spec => []RefsInv
  BY RefsInit, RefsStep, PTL DEF Spec

\* The two sides of the contract agree, for every Secret: a ref made for a key
\* resolves to the value of that key and to the host of its prefix.
LEMMA RefResolves ==
  ASSUME NEW s, IsSecret(s), NEW k \in DOMAIN internalModelRef(s),
         internalModelRef(s)[k].kind = "ref", s[k] # Empty \/ k.class = "sa"
  PROVE  LET res == resolveModelCredential(k, s, "sa-token")
             url == [class |-> "url", prefix |-> k.prefix]
         IN  /\ res.ok
             /\ res.token = IF s[k] = Empty THEN "sa-token" ELSE s[k]
             /\ url \in DOMAIN s /\ s[url] \in Hosts => res.host = s[url]
<1> DEFINE url == [class |-> "url", prefix |-> k.prefix]
<1>1. k \in DOMAIN s /\ k.class \in {"single", "api", "sa"} /\ k \in Keys
  BY DEF internalModelRef, isModelCredentialKey, IsSecret
<1>2. url \in DOMAIN s => k.class \in {"api", "sa"}
  <2>1. url \in DOMAIN s => k.prefix \in KeyPrefixes
    BY DEF IsSecret, Keys
  <2>2. k.class = "single" => k.prefix = NoKey
    BY <1>1 DEF Keys
  <2>3. QED
    BY <1>1, <2>1, <2>2, ObjectsAssumption
<1>3. resolveModelCredential(k, s, "sa-token") =
        [ok |-> TRUE, token |-> IF s[k] = Empty THEN "sa-token" ELSE s[k],
         host |-> resolveUpstreamURL(k, s)]
  BY <1>1 DEF resolveModelCredential, isCredentialKey, Empty
<1>4. url \in DOMAIN s /\ s[url] \in Hosts => resolveUpstreamURL(k, s) = s[url]
  BY <1>2 DEF resolveUpstreamURL
<1>5. QED
  BY <1>3, <1>4

\* The runtime and the sidecar agree on model credentials (RefsResolve) for
\* every Secret and every history of edits.
THEOREM ObjectsRefsResolve == Spec => []RefsResolve
<1>1. RefsInv => RefsResolve
  <2> SUFFICES ASSUME RefsInv, pc = "started", cfg.auth
               PROVE  RefsResolve
    BY DEF RefsResolve
  <2>1. ASSUME cfg.internalRef, cache = inspected
        PROVE  refData = internalModelRef(cache) /\ IsSecret(cache)
    BY <2>1 DEF RefsInv, RefDataOK, CacheOK
  <2>2. ASSUME cfg.internalRef, cache = inspected, NEW k \in DOMAIN cache, isCredentialKey(k)
        PROVE  k \in DOMAIN refData
    BY <2>1, <2>2 DEF internalModelRef, isModelCredentialKey, isCredentialKey
  <2>3. ASSUME edits = 0, ~cfg.internalRef, NEW k \in DOMAIN cache
        PROVE  ~isCredentialKey(k)
    BY <2>3 DEF RefsInv, InspectedOK, CacheOK, HasCredential, isModelCredentialKey, isCredentialKey
  <2>4. ASSUME cfg.internalRef, cache = inspected, NEW k \in DOMAIN refData,
               refData[k].kind = "ref", cache[k] # Empty \/ k.class = "sa"
        PROVE  LET res == resolveModelCredential(k, cache, "sa-token")
                   url == [class |-> "url", prefix |-> k.prefix]
               IN  /\ res.ok
                   /\ res.token = IF cache[k] = Empty THEN "sa-token" ELSE cache[k]
                   /\ url \in DOMAIN cache /\ cache[url] \in Hosts => res.host = cache[url]
    BY <2>1, <2>4, RefResolves
  <2>5. QED
    BY <2>2, <2>3, <2>4, Zenon DEF RefsResolve
<1>2. QED
  BY <1>1, RefsInvariant, PTL

-----------------------------------------------------------------------------
(* Sequences of volumes                                                    *)

IsSeq(s) == s \in Seq(Range(s))

LEMMA ConcatRange ==
  ASSUME NEW s, NEW t, IsSeq(s), IsSeq(t)
  PROVE  IsSeq(s \o t) /\ Range(s \o t) = Range(s) \cup Range(t)
<1> DEFINE S == Range(s) \cup Range(t)
<1>1. s \in Seq(S) /\ t \in Seq(S)
  BY SeqMonotonic DEF IsSeq
<1>2. s \o t \in Seq(S)
  BY <1>1, ConcatProperties
<1>3. Range(s \o t) = Range(s) \cup Range(t)
  BY <1>1, RangeConcatenation
<1>4. QED
  BY <1>2, <1>3 DEF IsSeq

LEMMA ShortRange ==
  /\ IsSeq(<<>>) /\ Range(<<>>) = {}
  /\ \A x : IsSeq(<<x>>) /\ Range(<<x>>) = {x}
  BY DEF IsSeq, Range

LEMMA IfRange ==
  ASSUME NEW b, NEW s, IsSeq(s)
  PROVE  IsSeq(If(b, s)) /\ Range(If(b, s)) = IF b THEN Range(s) ELSE {}
  BY ShortRange DEF If

LEMMA SetToSeqRange ==
  ASSUME NEW S, IsFiniteSet(S)
  PROVE  IsSeq(SetToSeq(S)) /\ Range(SetToSeq(S)) = S
<1> DEFINE n == Cardinality(S)
<1>1. n \in Nat /\ ExistsBijection(1..n, S)
  BY FS_CardinalityType
<1>2. PICK g : g \in Bijection(1..n, S)
  BY <1>1 DEF ExistsBijection
<1>3. g \in [1..n -> S] /\ IsInjective(g)
  BY <1>2 DEF Bijection, Injection
<1>4. PICK f : f = SetToSeq(S)
  OBVIOUS
<1>5. f \in [1..n -> S] /\ IsInjective(f)
  BY <1>3, <1>4 DEF SetToSeq
<1>6. f \in Injection(1..n, S)
  BY <1>5 DEF Injection
<1>7. Cardinality(1..n) = n
  BY <1>1, FS_Interval
<1>8. f \in Surjection(1..n, S)
  BY <1>6, <1>7, FS_Injection
<1>9. Range(f) = S
  BY <1>5, <1>8 DEF Range, Surjection
<1>10. f \in Seq(S)
  BY <1>1, <1>5
<1>11. QED
  BY <1>4, <1>9, <1>10 DEF IsSeq

\* Every name that is declared survives the merge, and nothing else does.
LEMMA MergeKeepsNames ==
  ASSUME NEW vs, IsSeq(vs)
  PROVE  /\ mergeVolumesByName(vs) \subseteq Range(vs)
         /\ \A v \in Range(vs) : \E w \in mergeVolumesByName(vs) : w.name = v.name
<1>1. mergeVolumesByName(vs) \subseteq Range(vs)
  BY DEF mergeVolumesByName, Range
<1>2. ASSUME NEW v \in Range(vs)
      PROVE  \E w \in mergeVolumesByName(vs) : w.name = v.name
  <2> DEFINE T == {i \in DOMAIN vs : vs[i].name = v.name}
  <2>1. T \subseteq Nat /\ T # {} /\ DOMAIN vs = 1..Len(vs) /\ Len(vs) \in Nat
    BY <1>2 DEF IsSeq, Range
  <2>2. PICK i \in T : \A j \in T : ~(<<j, i>> \in OpToRel(<, Nat))
    BY <2>1, NatLessThanWellFounded, WFMin
  <2>3. \A j \in T : ~(j < i)
    BY <2>1, <2>2 DEF OpToRel
  <2>4. \A k \in 1..(i - 1) : vs[k].name # vs[i].name
    BY <2>1, <2>3
  <2>5. QED
    BY <2>4 DEF mergeVolumesByName
<1>3. QED
  BY <1>1, <1>2

\* Post-processor claims: one volume each, of a name and a path of its own.
ClaimVolume(p) == [name |-> p.vol, src |-> <<"pvc", p.claim>>]
ClaimsOK(P) ==
  /\ IsFiniteSet({ClaimVolume(p) : p \in P})
  /\ \A p \in P : p.vol[1] = "ppi-calibration-pvc" /\ p.path[1] = "/mnt/calibration-pvc"
  /\ \A p, q \in P : p.vol = q.vol \/ p.path = q.path => p = q

LEMMA ClaimVolumes ==
  ASSUME NEW claims, IsSeq(claims)
  PROVE  ClaimsOK(postProcessorPVCConfigs(claims))
<1> DEFINE firsts == {i \in DOMAIN claims : \A j \in 1..(i - 1) : claims[j] # claims[i]}
           below(i) == {j \in firsts : j < i}
           P == postProcessorPVCConfigs(claims)
           of(i) == [claim |-> claims[i], vol |-> <<"ppi-calibration-pvc", Cardinality(below(i))>>,
                     path |-> <<"/mnt/calibration-pvc", claims[i]>>]
<1>1. DOMAIN claims = 1..Len(claims) /\ Len(claims) \in Nat
  BY DEF IsSeq
<1>2. IsFiniteSet(1..Len(claims))
  BY <1>1, FS_Interval
<1>3. IsFiniteSet(firsts)
  BY <1>1, <1>2, FS_Subset
<1>4. P = {of(i) : i \in firsts}
  BY DEF postProcessorPVCConfigs
<1>5. ASSUME NEW i \in firsts, NEW j \in firsts, i < j
      PROVE  claims[i] # claims[j] /\ Cardinality(below(i)) # Cardinality(below(j))
  <2>1. claims[i] # claims[j]
    BY <1>1, <1>5
  <2>2. below(i) \subseteq below(j) /\ i \in below(j) /\ i \notin below(i)
    BY <1>1, <1>5
  <2>3. IsFiniteSet(below(j))
    BY <1>3, FS_Subset
  <2>4. QED
    BY <2>1, <2>2, <2>3, FS_Subset
<1>6. ASSUME NEW i \in firsts, NEW j \in firsts,
             claims[i] = claims[j] \/ Cardinality(below(i)) = Cardinality(below(j))
      PROVE  i = j
  <2>1. i \in Nat /\ j \in Nat
    BY <1>1
  <2>2. ~(i < j) /\ ~(j < i)
    BY <1>5, <1>6
  <2>3. QED
    BY <2>1, <2>2
<1>7. ASSUME NEW p \in P
      PROVE  p.vol[1] = "ppi-calibration-pvc" /\ p.path[1] = "/mnt/calibration-pvc"
  <2>1. PICK i \in firsts : p = of(i)
    BY <1>4
  <2>2. PICK n : n = Cardinality(below(i))
    OBVIOUS
  <2>3. p.vol = <<"ppi-calibration-pvc", n>> /\ p.path = <<"/mnt/calibration-pvc", claims[i]>>
    BY <2>1, <2>2
  <2>4. QED
    BY <2>3
<1>8. ASSUME NEW p \in P, NEW q \in P, p.vol = q.vol \/ p.path = q.path
      PROVE  p = q
  <2>1. PICK i \in firsts : p = of(i)
    BY <1>4
  <2>2. PICK j \in firsts : q = of(j)
    BY <1>4
  <2>3. claims[i] = claims[j] \/ Cardinality(below(i)) = Cardinality(below(j))
    BY <1>8, <2>1, <2>2
  <2>4. QED
    BY <1>6, <2>1, <2>2, <2>3
<1>9. IsFiniteSet({ClaimVolume(p) : p \in P})
  <2> DEFINE f == [i \in firsts |-> ClaimVolume(of(i))]
  <2>1. f \in Surjection(firsts, {ClaimVolume(p) : p \in P})
    BY <1>4 DEF Surjection
  <2>2. QED
    BY <1>3, <2>1, FS_Surjection
<1>10. QED
  BY <1>7, <1>8, <1>9 DEF ClaimsOK

-----------------------------------------------------------------------------
(* The volumes of a pod                                                    *)

\* The source that each name stands for, whichever builder declares it.
SourceFor(c, n) ==
  CASE n = "job-spec" -> <<"configmap", "job-spec">>
    [] n \in {"data", "termination-file-volume", "init-metadata"} -> <<"emptyDir">>
    [] n = "pod-namespace" -> <<"downward">>
    [] n = "evalhub-service-ca" -> <<"configmap", "service-ca">>
    [] n = "mlflow-ca-bundle" -> <<"configmap", "mlflow-ca">>
    [] n = "oci-credentials" -> <<"secret", "oci">>
    [] n = "model-auth-internal" -> <<"projected", {"hf-token", "ca_cert"}, c.internalRef>>
    [] n = "test-data" -> IF c.testData = "pvc" THEN <<"pvc", "test-data">> ELSE <<"emptyDir">>
    [] n \in {"evalhub-sa-token", "mlflow-token"} -> <<"sa-token">>
    [] n = "model-auth" -> <<"secret", "model">>
    [] OTHER -> <<"secret", "test-data">>
Named(c, n) == Vol(n, SourceFor(c, n))
Opt(b, x) == IF b THEN {x} ELSE {}

\* What the three builders declare, as sets.
SharedSet(c) ==
  {Named(c, n) : n \in {"job-spec", "data", "termination-file-volume"}}
    \cup Opt(c.instance, Named(c, "evalhub-service-ca"))
    \cup Opt(c.bundle /\ c.mlflow, Named(c, "mlflow-ca-bundle"))
    \cup Opt(c.oci, Named(c, "oci-credentials"))
AdapterSet(c) ==
  {Named(c, "pod-namespace")} \cup Opt(c.auth, Named(c, "model-auth-internal"))
    \cup Opt(c.testData = "pvc", Named(c, "test-data"))
    \cup {ClaimVolume(p) : p \in c.pvcs}
SidecarSet(c) ==
  {Named(c, "evalhub-sa-token")} \cup Opt(c.mlflow, Named(c, "mlflow-token"))
    \cup Opt(c.auth, Named(c, "model-auth"))
InitSet(c) ==
  Opt(hasInitData(c), Named(c, "test-data")) \cup Opt(isGitJob(c), Named(c, "init-metadata"))
    \cup Opt(hasInitData(c) /\ c.dataSecret, Named(c, DataSecretVolume(c.testData)))
Declared(c) == SharedSet(c) \cup AdapterSet(c) \cup SidecarSet(c) \cup InitSet(c)

\* A volume that a builder adds under a condition.
LEMMA AddedVolume ==
  ASSUME NEW s, IsSeq(s), NEW b, NEW x
  PROVE  IsSeq(s \o If(b, <<x>>)) /\ Range(s \o If(b, <<x>>)) = Range(s) \cup Opt(b, x)
<1>1. IsSeq(If(b, <<x>>)) /\ Range(If(b, <<x>>)) = Opt(b, x)
  BY ShortRange, IfRange DEF Opt
<1>2. QED
  BY <1>1, ConcatRange

LEMMA SharedVolumes ==
  ASSUME NEW c
  PROVE  /\ IsSeq(SpecVolumes) /\ IsSeq(CAVolumes(c)) /\ IsSeq(OCIVolume(c))
         /\ Range(SpecVolumes) = {Named(c, n) : n \in {"job-spec", "data", "termination-file-volume"}}
         /\ Range(CAVolumes(c)) = Opt(c.instance, Named(c, "evalhub-service-ca"))
                                    \cup Opt(c.bundle /\ c.mlflow, Named(c, "mlflow-ca-bundle"))
         /\ Range(OCIVolume(c)) = Opt(c.oci, Named(c, "oci-credentials"))
<1>1. \A x, y, z : IsSeq(<<x, y, z>>) /\ Range(<<x, y, z>>) = {x, y, z}
  BY DEF IsSeq, Range
<1>2. IsSeq(SpecVolumes) /\ Range(SpecVolumes) = {Named(c, n) : n \in {"job-spec", "data", "termination-file-volume"}}
  <2>1. /\ Named(c, "job-spec") = Vol("job-spec", <<"configmap", "job-spec">>)
        /\ Named(c, "data") = Vol("data", <<"emptyDir">>)
        /\ Named(c, "termination-file-volume") = Vol("termination-file-volume", <<"emptyDir">>)
    BY DEF Named, SourceFor
  <2>2. {Named(c, n) : n \in {"job-spec", "data", "termination-file-volume"}} =
          {Named(c, "job-spec"), Named(c, "data"), Named(c, "termination-file-volume")}
    OBVIOUS
  <2>3. QED
    BY <1>1, <2>1, <2>2 DEF SpecVolumes
<1>3. IsSeq(CAVolumes(c)) /\ Range(CAVolumes(c)) = Opt(c.instance, Named(c, "evalhub-service-ca"))
                                    \cup Opt(c.bundle /\ c.mlflow, Named(c, "mlflow-ca-bundle"))
  <2>1. /\ Named(c, "evalhub-service-ca") = Vol("evalhub-service-ca", <<"configmap", "service-ca">>)
        /\ Named(c, "mlflow-ca-bundle") = Vol("mlflow-ca-bundle", <<"configmap", "mlflow-ca">>)
    BY DEF Named, SourceFor
  <2>2. PICK a, b : a = Named(c, "evalhub-service-ca") /\ b = Named(c, "mlflow-ca-bundle")
    OBVIOUS
  <2>3. CAVolumes(c) = If(c.instance, <<a>>) \o If(c.bundle /\ c.mlflow, <<b>>)
    BY <2>1, <2>2 DEF CAVolumes
  <2>4. IsSeq(If(c.instance, <<a>>)) /\ Range(If(c.instance, <<a>>)) = Opt(c.instance, a)
    BY ShortRange, IfRange DEF Opt
  <2>5. QED
    BY <2>2, <2>3, <2>4, AddedVolume
<1>4. IsSeq(OCIVolume(c)) /\ Range(OCIVolume(c)) = Opt(c.oci, Named(c, "oci-credentials"))
  <2>1. Named(c, "oci-credentials") = Vol("oci-credentials", <<"secret", "oci">>)
    BY DEF Named, SourceFor
  <2>2. QED
    BY <2>1, ShortRange, IfRange DEF OCIVolume, Opt
<1>5. QED
  BY <1>2, <1>3, <1>4

LEMMA AdapterVolumes ==
  ASSUME NEW c, IsFiniteSet({ClaimVolume(p) : p \in c.pvcs})
  PROVE  /\ IsSeq(buildRuntimeContainerVolumes(c))
         /\ Range(buildRuntimeContainerVolumes(c)) = SharedSet(c) \cup AdapterSet(c)
<1> DEFINE pn == Vol("pod-namespace", <<"downward">>)
           ma == Vol("model-auth-internal", <<"projected", {"hf-token", "ca_cert"}, c.internalRef>>)
           td == Vol("test-data", <<"pvc", "test-data">>)
           s1 == SpecVolumes \o <<pn>>
           s2 == s1 \o CAVolumes(c)
           s3 == s2 \o OCIVolume(c)
           s4 == s3 \o If(c.auth, <<ma>>)
           s5 == s4 \o If(c.testData = "pvc", <<td>>)
           claims == SetToSeq({ClaimVolume(p) : p \in c.pvcs})
<1>1. /\ pn = Named(c, "pod-namespace") /\ ma = Named(c, "model-auth-internal")
      /\ c.testData = "pvc" => td = Named(c, "test-data")
  BY DEF Named, SourceFor
<1>2. IsSeq(s1) /\ Range(s1) = Range(SpecVolumes) \cup {pn}
  BY SharedVolumes, ShortRange, ConcatRange
<1>3. IsSeq(s2) /\ Range(s2) = Range(s1) \cup Range(CAVolumes(c))
  BY <1>2, SharedVolumes, ConcatRange
<1>4. IsSeq(s3) /\ Range(s3) = Range(s2) \cup Range(OCIVolume(c))
  BY <1>3, SharedVolumes, ConcatRange
<1>5. IsSeq(s4) /\ Range(s4) = Range(s3) \cup Opt(c.auth, ma)
  BY <1>4, AddedVolume
<1>6. IsSeq(s5) /\ Range(s5) = Range(s4) \cup Opt(c.testData = "pvc", td)
  BY <1>5, AddedVolume
<1>7. IsSeq(claims) /\ Range(claims) = {ClaimVolume(p) : p \in c.pvcs}
  BY SetToSeqRange
<1>8. IsSeq(s5 \o claims) /\ Range(s5 \o claims) = Range(s5) \cup {ClaimVolume(p) : p \in c.pvcs}
  <2> HIDE DEF s5, claims
  <2>1. QED
    BY <1>6, <1>7, ConcatRange
<1>9. buildRuntimeContainerVolumes(c) = s5 \o claims
  BY DEF buildRuntimeContainerVolumes, ClaimVolume
<1>10. Opt(c.testData = "pvc", td) = Opt(c.testData = "pvc", Named(c, "test-data"))
  BY <1>1 DEF Opt
<1> HIDE DEF s1, s2, s3, s4, s5, pn, ma, td, claims
<1>11. QED
  BY <1>1, <1>2, <1>3, <1>4, <1>5, <1>6, <1>8, <1>9, <1>10, SharedVolumes DEF SharedSet, AdapterSet

LEMMA SidecarVolumes ==
  ASSUME NEW c
  PROVE  /\ IsSeq(buildSidecarContainerVolumes(c))
         /\ Range(buildSidecarContainerVolumes(c)) = SharedSet(c) \cup SidecarSet(c)
<1> DEFINE sa == Vol("evalhub-sa-token", <<"sa-token">>)
           ml == Vol("mlflow-token", <<"sa-token">>)
           ma == Vol("model-auth", <<"secret", "model">>)
           s1 == SpecVolumes \o CAVolumes(c)
           s2 == s1 \o <<sa>>
           s3 == s2 \o If(c.mlflow, <<ml>>)
           s4 == s3 \o If(c.auth, <<ma>>)
<1>1. /\ sa = Named(c, "evalhub-sa-token") /\ ml = Named(c, "mlflow-token")
      /\ ma = Named(c, "model-auth")
  BY DEF Named, SourceFor
<1>2. IsSeq(s1) /\ Range(s1) = Range(SpecVolumes) \cup Range(CAVolumes(c))
  BY SharedVolumes, ConcatRange
<1>3. IsSeq(s2) /\ Range(s2) = Range(s1) \cup {sa}
  BY <1>2, ShortRange, ConcatRange
<1>4. IsSeq(s3) /\ Range(s3) = Range(s2) \cup Opt(c.mlflow, ml)
  BY <1>3, AddedVolume
<1>5. IsSeq(s4) /\ Range(s4) = Range(s3) \cup Opt(c.auth, ma)
  BY <1>4, AddedVolume
<1>6. IsSeq(s4 \o OCIVolume(c)) /\ Range(s4 \o OCIVolume(c)) = Range(s4) \cup Range(OCIVolume(c))
  BY <1>5, SharedVolumes, ConcatRange
<1>7. buildSidecarContainerVolumes(c) = s4 \o OCIVolume(c)
  BY DEF buildSidecarContainerVolumes
<1> HIDE DEF s1, s2, s3, s4, sa, ml, ma
<1>8. QED
  BY <1>1, <1>2, <1>3, <1>4, <1>5, <1>6, <1>7, SharedVolumes DEF SharedSet, SidecarSet

LEMMA InitVolumes ==
  ASSUME NEW c
  PROVE  /\ IsSeq(initContainerVolumes(c))
         /\ Range(initContainerVolumes(c)) = InitSet(c)
<1> DEFINE td == Vol("test-data", <<"emptyDir">>)
           im == Vol("init-metadata", <<"emptyDir">>)
           ds == Vol(DataSecretVolume(c.testData), <<"secret", "test-data">>)
           s1 == If(hasInitData(c), <<td>>)
           s2 == s1 \o If(isGitJob(c), <<im>>)
           s3 == s2 \o If(hasInitData(c) /\ c.dataSecret, <<ds>>)
<1>1. im = Named(c, "init-metadata") /\ (hasInitData(c) => td = Named(c, "test-data"))
  BY DEF Named, SourceFor, hasInitData
<1>2. hasInitData(c) => ds = Named(c, DataSecretVolume(c.testData))
  BY DEF Named, SourceFor, hasInitData, DataSecretVolume
<1>3. IsSeq(s1) /\ Range(s1) = Opt(hasInitData(c), td)
  BY ShortRange, IfRange DEF Opt
<1>4. IsSeq(s2) /\ Range(s2) = Range(s1) \cup Opt(isGitJob(c), im)
  BY <1>3, AddedVolume
<1>5. IsSeq(s3) /\ Range(s3) = Range(s2) \cup Opt(hasInitData(c) /\ c.dataSecret, ds)
  BY <1>4, AddedVolume
<1>6. initContainerVolumes(c) = s3
  BY DEF initContainerVolumes
<1>7. Opt(hasInitData(c), td) = Opt(hasInitData(c), Named(c, "test-data"))
  BY <1>1 DEF Opt
<1>8. Opt(hasInitData(c) /\ c.dataSecret, ds)
        = Opt(hasInitData(c) /\ c.dataSecret, Named(c, DataSecretVolume(c.testData)))
  BY <1>2 DEF Opt
<1> HIDE DEF s1, s2, s3, td, im, ds
<1>9. QED
  BY <1>1, <1>3, <1>4, <1>5, <1>6, <1>7, <1>8 DEF InitSet

\* All that a pod declares, and what is left of it after the merge.
LEMMA PodVolumes ==
  ASSUME NEW c, NEW r, IsFiniteSet({ClaimVolume(p) : p \in c.pvcs})
  PROVE  /\ IsSeq(buildJob(c, r).declared)
         /\ Range(buildJob(c, r).declared) = Declared(c)
         /\ buildJob(c, r).volumes \subseteq Declared(c)
         /\ \A v \in Declared(c) : \E w \in buildJob(c, r).volumes : w.name = v.name
<1> DEFINE d == buildRuntimeContainerVolumes(c) \o initContainerVolumes(c)
                  \o buildSidecarContainerVolumes(c)
<1>1. IsSeq(buildRuntimeContainerVolumes(c) \o initContainerVolumes(c))
      /\ Range(buildRuntimeContainerVolumes(c) \o initContainerVolumes(c))
           = SharedSet(c) \cup AdapterSet(c) \cup InitSet(c)
  BY AdapterVolumes, InitVolumes, ConcatRange
<1>2. IsSeq(d) /\ Range(d) = Declared(c)
  BY <1>1, SidecarVolumes, ConcatRange DEF Declared
<1>3. buildJob(c, r).declared = d /\ buildJob(c, r).volumes = mergeVolumesByName(d)
  BY DEF buildJob
<1> HIDE DEF d
<1>4. QED
  BY <1>2, <1>3, MergeKeepsNames

\* A declared volume is the one its name stands for, or the volume of a claim.
LEMMA DeclaredNamed ==
  ASSUME NEW c, NEW v \in Declared(c)
  PROVE  (\E n : v = Named(c, n) /\ n # "ppi-calibration-pvc") \/ \E p \in c.pvcs : v = ClaimVolume(p)
<1>1. DataSecretVolume(c.testData) # "ppi-calibration-pvc" \/ ~hasInitData(c)
  BY DEF DataSecretVolume, hasInitData
<1>2. QED
  BY <1>1 DEF Declared, SharedSet, AdapterSet, SidecarSet, InitSet, Opt

LEMMA NamedName == \A c, n : /\ Named(c, n).name = <<n, 0>> /\ Named(c, n).src = SourceFor(c, n)
                             /\ Named(c, n) = [name |-> <<n, 0>>, src |-> SourceFor(c, n)]
  BY DEF Named, Vol

\* One name, one source.
LEMMA OneSource ==
  ASSUME NEW c, ClaimsOK(c.pvcs), NEW v \in Declared(c), NEW w \in Declared(c), v.name = w.name
  PROVE  v.src = w.src
<1>0. \A a : <<a, 0>>[1] = a
  OBVIOUS
<1>1. CASE \E n : v = Named(c, n) /\ n # "ppi-calibration-pvc"
  <2>1. PICK n : v = Named(c, n) /\ n # "ppi-calibration-pvc"
    BY <1>1
  <2>2. v.name = <<n, 0>> /\ v.src = SourceFor(c, n)
    BY <2>1, NamedName
  <2>3. \A p \in c.pvcs : w # ClaimVolume(p)
    BY <2>1, <2>2 DEF ClaimVolume, ClaimsOK
  <2>4. PICK m : w = Named(c, m)
    BY <2>3, DeclaredNamed
  <2>5. w.name = <<m, 0>> /\ w.src = SourceFor(c, m)
    BY <2>4, NamedName
  <2>6. m = n
    <3>1. v.name[1] = n
      BY <1>0, <2>2
    <3>2. w.name[1] = m
      BY <1>0, <2>5
    <3>3. QED
      BY <3>1, <3>2
  <2>7. QED
    BY <2>2, <2>5, <2>6
<1>2. CASE \E p \in c.pvcs : v = ClaimVolume(p)
  <2>1. PICK p \in c.pvcs : v = ClaimVolume(p)
    BY <1>2
  <2>2. v.name = p.vol /\ v.name[1] = "ppi-calibration-pvc"
    BY <2>1 DEF ClaimVolume, ClaimsOK
  <2>3. ASSUME NEW n, w = Named(c, n), n # "ppi-calibration-pvc" PROVE FALSE
    <3>1. w.name = <<n, 0>>
      BY <2>3, NamedName
    <3>2. QED
      BY <1>0, <2>2, <2>3, <3>1
  <2>4. PICK q \in c.pvcs : w = ClaimVolume(q)
    BY <2>3, DeclaredNamed
  <2>5. p = q
    BY <2>1, <2>4 DEF ClaimVolume, ClaimsOK
  <2>6. QED
    BY <2>1, <2>4, <2>5
<1>3. QED
  BY <1>1, <1>2, DeclaredNamed

\* Each container mounts what the pod declares.
LEMMA MountsDeclared ==
  ASSUME NEW c,
         NEW m \in buildRuntimeContainerMounts(c) \cup buildSidecarContainerMounts(c)
                      \cup initContainerMounts(c)
  PROVE  \E v \in Declared(c) : v.name = m.vol
<1>1. ASSUME NEW n, m.vol = <<n, 0>>, Named(c, n) \in Declared(c)
      PROVE  \E v \in Declared(c) : v.name = m.vol
  BY <1>1, NamedName
<1>2. ASSUME NEW n, NEW q, m = Mnt(n, q) PROVE m.vol = <<n, 0>>
  BY <1>2 DEF Mnt
<1>3. CASE \E p \in c.pvcs : m = [vol |-> p.vol, path |-> p.path]
  <2>1. PICK p \in c.pvcs : m = [vol |-> p.vol, path |-> p.path]
    BY <1>3
  <2>2. ClaimVolume(p) \in Declared(c) /\ ClaimVolume(p).name = m.vol
    BY <2>1 DEF Declared, AdapterSet, ClaimVolume
  <2>3. QED
    BY <2>2
<1>4. CASE m \in buildRuntimeContainerMounts(c) /\ ~\E p \in c.pvcs : m = [vol |-> p.vol, path |-> p.path]
  <2>1. \E n, q : m = Mnt(n, q) /\ Named(c, n) \in Declared(c)
    BY <1>4 DEF buildRuntimeContainerMounts, CAMounts, OCIMount, Declared, SharedSet, AdapterSet, InitSet, Opt
  <2>2. QED
    BY <1>1, <1>2, <2>1
<1>5. CASE m \in buildSidecarContainerMounts(c)
  <2>1. \E n, q : m = Mnt(n, q) /\ Named(c, n) \in Declared(c)
    BY <1>5 DEF buildSidecarContainerMounts, CAMounts, OCIMount, Declared, SharedSet, SidecarSet, InitSet, Opt
  <2>2. QED
    BY <1>1, <1>2, <2>1
<1>6. CASE m \in initContainerMounts(c)
  <2>1. \E n, q : m = Mnt(n, q) /\ Named(c, n) \in Declared(c)
    BY <1>6 DEF initContainerMounts, Declared, InitSet, Opt
  <2>2. QED
    BY <1>1, <1>2, <2>1
<1>7. QED
  BY <1>3, <1>4, <1>5, <1>6

-----------------------------------------------------------------------------
(* The pod                                                                 *)

\* What the configuration keeps of the request, whatever was read meanwhile.
HardwareOK(h, r) ==
  LET w == EffectiveHardwareConfig(r)
  IN  /\ ~(h.gpuCount > 0 /\ h.dra)
      /\ h.dra \/ h.queue => ~h.selector
      /\ h.queue => ~h.tolerations
      /\ w.mode = "direct" /\ w.dra => h.dra
      /\ w.mode = "direct" /\ w.gpuName /\ w.gpuCount > 0 => h.gpuName /\ h.gpuCount > 0
      /\ r.queue => h.queue
      /\ w.mode = "direct" /\ w.queue => h.queue
ConfigOK(c, r) ==
  /\ IsConfig(c) /\ ClaimsOK(c.pvcs) /\ HardwareOK(c.hw, r)
  /\ c.bundle => c.instance /\ c.mlflow
  /\ c.testData = IF r.testData = "s3root" THEN "none" ELSE r.testData

PodInv ==
  /\ req \in Requests /\ edits \in Nat
  /\ pc \notin {"validate", "profile", "failed"} => ConfigOK(cfg, req)
  /\ pc \notin {"validate", "failed"} /\ edits = 0 /\ EffectiveHardwareConfig(req).mode = "profile" =>
       ~profile.disabled
  /\ pod # NoConfig => pc \in {"secret", "created", "started"} /\ pod = buildJob(cfg, req)
  /\ refData # NoSecret => \A k \in DOMAIN refData : refData[k].kind \in {"ref", "sidecar-url"}

\* The provider's defaults, a profile, hardware_config and the queue leave one
\* way of asking for an accelerator.
LEMMA HardwareMerged ==
  ASSUME NEW r \in Requests, NEW f, hardwareFor(r, f).ok
  PROVE  HardwareOK(hardwareFor(r, f), r)
<1> DEFINE w == EffectiveHardwareConfig(r)
           h1 == providerHardware(r.provider)
           h2 == IF w.mode = "profile" THEN applyHardwareProfileResources(h1, f) ELSE h1
           h3 == IF w.mode = "direct" THEN applyDirectHardwareConfig(h2, w) ELSE h2
           h4 == applyQueueIfUnset(h3, r.queue)
           IsHw(h) == /\ h = [x \in DOMAIN h |-> h[x]]
                      /\ DOMAIN h = {"ok", "cpu", "gpuName", "gpuCount", "dra", "selector",
                                     "tolerations", "queue"}
           Queued(h) == h.queue => ~h.selector /\ ~h.tolerations
<1>1. IsHw(h1) /\ Queued(h1)
  BY DEF providerHardware
<1>2. ASSUME NEW h, IsHw(h), Queued(h), NEW q
      PROVE  LET a == applyQueueIfUnset(h, q)
             IN  /\ IsHw(a) /\ Queued(a) /\ (q => a.queue) /\ (h.queue => a.queue)
                 /\ a.dra = h.dra /\ a.gpuName = h.gpuName /\ a.gpuCount = h.gpuCount
  BY <1>2 DEF applyQueueIfUnset, ClearPlacement
<1>3. IsHw(h2) /\ Queued(h2)
  <2> DEFINE a == [h1 EXCEPT !.cpu = IF f.cpu # "unset" THEN f.cpu ELSE @,
                             !.gpuName = @ \/ f.gpu,
                             !.gpuCount = IF f.gpuCount > 0 THEN f.gpuCount ELSE @]
             b == ClearPlacement([a EXCEPT !.queue = TRUE])
             d == [a EXCEPT !.selector = @ \/ f.selector, !.tolerations = @ \/ f.tolerations]
  <2>1. ~h1.queue
    BY DEF providerHardware
  <2> HIDE DEF h1
  <2>2. IsHw(a) /\ ~a.queue
    BY <1>1, <2>1
  <2> HIDE DEF a
  <2>3. IsHw(b) /\ Queued(b)
    BY <2>2 DEF ClearPlacement
  <2>4. IsHw(d) /\ ~d.queue
    BY <2>2
  <2>5. w.mode = "profile" => h2 \in {a, b, d}
    <3>1. w.mode = "profile" => h2 = applyHardwareProfileResources(h1, f)
      OBVIOUS
    <3>2. applyHardwareProfileResources(h1, f) \in {a, b, d}
      BY DEF applyHardwareProfileResources, a
    <3>3. QED
      BY <3>1, <3>2
  <2>6. w.mode # "profile" => h2 = h1
    OBVIOUS
  <2> HIDE DEF b, d, h2
  <2>7. QED
    BY <1>1, <2>2, <2>3, <2>4, <2>5, <2>6
<1>4. w.dra => ~w.gpuName /\ ~(w.gpuCount > 0)
  BY ObjectsAssumption DEF EffectiveHardwareConfig
<1>5. /\ IsHw(h3) /\ Queued(h3)
      /\ w.mode = "direct" /\ w.dra => h3.dra
      /\ w.mode = "direct" /\ w.gpuName /\ w.gpuCount > 0 => h3.gpuName /\ h3.gpuCount > 0
      /\ w.mode = "direct" /\ w.queue => h3.queue
  <2>1. CASE w.mode # "direct"
    BY <1>3, <2>1
  <2>2. CASE w.mode = "direct"
    <3> DEFINE gpu == w.gpuName \/ w.gpuCount > 0
               a == [h2 EXCEPT !.ok = @ /\ w.cpu # "bad",
                     !.cpu = IF w.cpu # "unset" THEN w.cpu ELSE @,
                     !.gpuName = (@ \/ w.gpuName) /\ ~w.dra,
                     !.gpuCount = IF w.dra THEN 0 ELSE IF w.gpuCount > 0 THEN w.gpuCount ELSE @,
                     !.dra = (@ /\ ~gpu) \/ w.dra]
    <3> HIDE DEF h2, w
    <3>1. IsHw(a) /\ Queued(a)
      BY <1>3
    <3>2. (w.dra => a.dra) /\ (w.gpuName /\ w.gpuCount > 0 => a.gpuName /\ a.gpuCount > 0)
      BY <1>3, <1>4
    <3>3. h3 = applyQueueIfUnset(a, w.queue)
      BY <2>2 DEF applyDirectHardwareConfig
    <3> HIDE DEF a, IsHw, Queued
    <3>4. QED
      BY <1>2, <3>1, <3>2, <3>3
  <2>3. QED
    BY <2>1, <2>2
<1>6. /\ IsHw(h4) /\ Queued(h4) /\ (r.queue => h4.queue) /\ (h3.queue => h4.queue)
      /\ h4.dra = h3.dra /\ h4.gpuName = h3.gpuName /\ h4.gpuCount = h3.gpuCount
  <2> HIDE DEF h3, IsHw, Queued
  <2>1. QED
    BY <1>2, <1>5
<1>7. PICK h : h = finalizeAcceleratorConfig(h4)
  OBVIOUS
<1>8. h = hardwareFor(r, f)
  BY <1>7 DEF hardwareFor
<1> HIDE DEF h1, h2, h3, h4, w
<1>9. /\ h.dra = h4.dra /\ h.gpuName = h4.gpuName /\ h.gpuCount = h4.gpuCount
      /\ h.queue = h4.queue /\ h.tolerations = h4.tolerations
      /\ (h4.queue => ~h.selector) /\ (h.dra => ~h.selector /\ (h.ok => h.gpuCount = 0))
  BY <1>6, <1>7 DEF finalizeAcceleratorConfig
<1>10. QED
  BY <1>5, <1>6, <1>8, <1>9 DEF HardwareOK, w

LEMMA BuiltConfigOK ==
  ASSUME NEW r \in Requests, NEW f, buildJobConfig(r, f).ok
  PROVE  ConfigOK(buildJobConfig(r, f), r)
<1> DEFINE c == buildJobConfig(r, f)
<1>1. IsConfig(c)
  BY DEF IsConfig, buildJobConfig
<1>2. c.pvcs = postProcessorPVCConfigs(r.claims) /\ c.hw = hardwareFor(r, f) /\ hardwareFor(r, f).ok
      /\ ~c.bundle /\ c.testData = IF r.testData = "s3root" THEN "none" ELSE r.testData
  BY DEF buildJobConfig
<1>3. IsSeq(r.claims)
  BY ObjectsAssumption DEF IsSeq
<1> HIDE DEF c
<1>4. ClaimsOK(c.pvcs)
  BY <1>2, <1>3, ClaimVolumes
<1>5. HardwareOK(c.hw, r)
  BY <1>2, HardwareMerged
<1>6. QED
  BY <1>1, <1>2, <1>4, <1>5 DEF ConfigOK, c

\* Neither the bundle nor the inspection of the Secret changes anything else.
LEMMA ConfigKept ==
  ASSUME NEW c, NEW r, ConfigOK(c, r)
  PROVE  /\ \A b : (b => c.instance /\ c.mlflow) => ConfigOK([c EXCEPT !.bundle = b], r)
         /\ \A i : ConfigOK([c EXCEPT !.internalRef = i], r)
<1>1. ASSUME NEW b, b => c.instance /\ c.mlflow, NEW d, d = [c EXCEPT !.bundle = b]
      PROVE  ConfigOK(d, r)
  <2>1. /\ IsConfig(d) /\ d.hw = c.hw /\ d.pvcs = c.pvcs /\ d.testData = c.testData
        /\ (d.bundle => d.instance /\ d.mlflow)
    BY <1>1 DEF IsConfig, ConfigOK
  <2>2. QED
    BY <2>1 DEF ConfigOK
<1>2. ASSUME NEW i, NEW e, e = [c EXCEPT !.internalRef = i]
      PROVE  ConfigOK(e, r)
  <2>1. /\ IsConfig(e) /\ e.hw = c.hw /\ e.pvcs = c.pvcs /\ e.testData = c.testData
        /\ (e.bundle => e.instance /\ e.mlflow)
    BY <1>2 DEF IsConfig, ConfigOK
  <2>2. QED
    BY <2>1 DEF ConfigOK
<1>3. QED
  BY <1>1, <1>2

LEMMA PodInit == Init => PodInv
  BY DEF Init, PodInv

LEMMA PodStep == PodInv /\ [Next]_vars => PodInv'
<1> SUFFICES ASSUME PodInv, [Next]_vars PROVE PodInv'
  OBVIOUS
<1> USE DEF PodInv, Goto
<1>1. CASE ValidateHardwareProfiles
  BY <1>1 DEF ValidateHardwareProfiles
<1>2. CASE FetchProfile
  <2>1. pc' \in {"bundle", "failed"} /\ UNCHANGED <<req, profile, edits, pod, refData>>
    BY <1>2 DEF FetchProfile
  <2>2. pc' = "bundle" => \E f : cfg' = buildJobConfig(req, f) /\ buildJobConfig(req, f).ok
    BY <1>2 DEF FetchProfile
  <2>3. pc' = "bundle" => ConfigOK(cfg', req')
    BY <2>1, <2>2, BuiltConfigOK
  <2>4. QED
    BY <1>2, <2>1, <2>3 DEF FetchProfile
<1>3. CASE resolveMLFlowCABundleConfigMap
  <2>1. PICK b : cfg' = [cfg EXCEPT !.bundle = b] /\ (b => cfg.instance /\ cfg.mlflow)
    BY <1>3 DEF resolveMLFlowCABundleConfigMap
  <2>2. ConfigOK(cfg', req')
    BY <1>3, <2>1, ConfigKept DEF resolveMLFlowCABundleConfigMap
  <2>3. QED
    BY <1>3, <2>2 DEF resolveMLFlowCABundleConfigMap
<1>4. CASE inspectModelSecret
  <2>1. cfg' = cfg \/ \E i : cfg' = [cfg EXCEPT !.internalRef = i]
    BY <1>4 DEF inspectModelSecret
  <2>2. pc = "inspect" /\ UNCHANGED <<req, profile, edits, pod, refData>> /\ pc' \in {"build", "failed"}
    BY <1>4 DEF inspectModelSecret
  <2>3. ConfigOK(cfg', req')
    BY <2>1, <2>2, ConfigKept
  <2>4. QED
    BY <2>2, <2>3
<1>5. CASE BuildObjects
  BY <1>5 DEF BuildObjects
<1>6. CASE buildInternalModelRefSecret
  <2>1. ASSUME NEW s, NEW k \in DOMAIN internalModelRef(s)
        PROVE  internalModelRef(s)[k].kind \in {"ref", "sidecar-url"}
    <3>1. internalModelRef(s)[k] = IF k.class = "url" THEN [kind |-> "sidecar-url"]
                                                      ELSE [kind |-> "ref", key |-> k]
      BY <2>1 DEF internalModelRef
    <3>2. QED
      BY <3>1
  <2>2. refData' \in {internalModelRef(inspected), NoSecret, refData}
    BY <1>6 DEF buildInternalModelRefSecret
  <2>3. refData' # NoSecret => \A k \in DOMAIN refData' : refData'[k].kind \in {"ref", "sidecar-url"}
    BY <2>1, <2>2
  <2>4. QED
    BY <1>6, <2>3 DEF buildInternalModelRefSecret
<1>7. CASE PodStarts
  BY <1>7 DEF PodStarts
<1>8. CASE EditCluster
  BY <1>8 DEF EditCluster
<1>9. CASE UNCHANGED vars
  BY <1>9 DEF vars
<1>10. QED
  BY <1>1, <1>2, <1>3, <1>4, <1>5, <1>6, <1>7, <1>8, <1>9 DEF Next

LEMMA PodInvariant == Spec => []PodInv
  BY PodInit, PodStep, PTL DEF Spec

\* The source of what a container mounts.
LEMMA MountSource ==
  ASSUME PodInv, pod # NoConfig, NEW m \in pod.adapter \cup pod.sidecar \cup pod.init
  PROVE  /\ \E v \in pod.volumes : v.name = m.vol
         /\ \E v \in Declared(cfg) : v.name = m.vol /\ v.src = SourceOf(m.vol)
<1>1. ConfigOK(cfg, req) /\ pod = buildJob(cfg, req)
  BY DEF PodInv
<1>2. m \in buildRuntimeContainerMounts(cfg) \cup buildSidecarContainerMounts(cfg)
               \cup initContainerMounts(cfg)
  BY <1>1 DEF buildJob
<1>3. /\ pod.volumes \subseteq Declared(cfg)
      /\ \A v \in Declared(cfg) : \E w \in pod.volumes : w.name = v.name
  BY <1>1, PodVolumes DEF ConfigOK, ClaimsOK
<1>4. PICK v \in pod.volumes : v.name = m.vol
  BY <1>2, <1>3, MountsDeclared
<1>5. v = [name |-> m.vol, src |-> v.src]
  BY <1>3, <1>4, DeclaredNamed, NamedName DEF ClaimVolume
<1>6. SourceOf(m.vol) \in {d.src : d \in pod.volumes}
      /\ [name |-> m.vol, src |-> SourceOf(m.vol)] \in pod.volumes
  BY <1>4, <1>5 DEF SourceOf
<1>7. QED
  BY <1>3, <1>4, <1>6

\* The adapter is given neither a service account token nor the model Secret
\* (AdapterHoldsNoCredential), whatever the request and the Secret.
THEOREM ObjectsAdapterHoldsNoCredential == Spec => []AdapterHoldsNoCredential
<1>1. PodInv => AdapterHoldsNoCredential
  <2> SUFFICES ASSUME PodInv, pod # NoConfig PROVE AdapterHoldsNoCredential
    BY DEF AdapterHoldsNoCredential, Built
  <2> DEFINE Safe(src) == /\ src[1] # "sa-token" /\ src # <<"secret", "model">>
                          /\ src[1] = "projected" => src[2] \subseteq {"hf-token", "ca_cert"}
  <2>1. ASSUME NEW m \in pod.adapter PROVE Safe(SourceOf(m.vol))
    <3>1. PICK v \in Declared(cfg) : v.name = m.vol /\ v.src = SourceOf(m.vol)
      BY <2>1, MountSource
    <3>2. m \in buildRuntimeContainerMounts(cfg) /\ ClaimsOK(cfg.pvcs)
      BY <2>1 DEF PodInv, buildJob, ConfigOK
    <3>3. (\E p \in cfg.pvcs : m.vol = p.vol)
            \/ \E n \in {"job-spec", "data", "termination-file-volume", "pod-namespace",
                        "evalhub-service-ca", "mlflow-ca-bundle", "oci-credentials",
                        "model-auth-internal", "test-data"} : m.vol = <<n, 0>>
      <4>1. (\E p \in cfg.pvcs : m = [vol |-> p.vol, path |-> p.path])
              \/ \E n \in {"job-spec", "data", "termination-file-volume", "pod-namespace",
                        "evalhub-service-ca", "mlflow-ca-bundle", "oci-credentials",
                        "model-auth-internal", "test-data"} : \E q : m = Mnt(n, q)
        BY <3>2 DEF buildRuntimeContainerMounts, CAMounts, OCIMount
      <4>2. \A n, q : Mnt(n, q).vol = <<n, 0>>
        BY DEF Mnt
      <4>3. QED
        BY <4>1, <4>2
    <3>4. CASE \E p \in cfg.pvcs : v = ClaimVolume(p)
      BY <3>1, <3>4 DEF ClaimVolume
    <3>5. CASE \E n : v = Named(cfg, n) /\ n # "ppi-calibration-pvc"
      <4>1. PICK n : v = Named(cfg, n) /\ n # "ppi-calibration-pvc"
        BY <3>5
      <4>2. m.vol = <<n, 0>> /\ SourceOf(m.vol) = SourceFor(cfg, n)
        BY <3>1, <4>1, NamedName
      <4>3. m.vol[1] = n
        BY <4>2
      <4>4. n \in {"job-spec", "data", "termination-file-volume", "pod-namespace",
                   "evalhub-service-ca", "mlflow-ca-bundle", "oci-credentials",
                   "model-auth-internal", "test-data"}
        BY <3>2, <3>3, <4>1, <4>3 DEF ClaimsOK
      <4>5. Safe(SourceFor(cfg, n))
        BY <4>4 DEF SourceFor
      <4>6. QED
        BY <4>2, <4>5
    <3>6. QED
      BY <3>1, <3>4, <3>5, DeclaredNamed
  <2>2. ASSUME refData # NoSecret, NEW k \in DOMAIN refData
        PROVE  refData[k].kind \in {"ref", "sidecar-url"}
    BY <2>2 DEF PodInv
  <2>3. QED
    BY <2>1, <2>2 DEF AdapterHoldsNoCredential
<1>2. QED
  BY <1>1, PodInvariant, PTL

-----------------------------------------------------------------------------
\* Where each container has a path from; a claim's mount has its own.
AdapterAt(q) ==
  CASE q = "/meta/job.json" -> "job-spec"
    [] q = "/data" -> "data"
    [] q = "/shared" -> "termination-file-volume"
    [] q = "/serviceaccount" -> "pod-namespace"
    [] q = "/etc/pki/ca-trust" -> "evalhub-service-ca"
    [] q = "/etc/evalhub/mlflow-ca" -> "mlflow-ca-bundle"
    [] q = "/etc/evalhub/.docker" -> "oci-credentials"
    [] q = "/secrets/model" -> "model-auth-internal"
    [] OTHER -> "test-data"
SidecarAt(q) ==
  CASE q \in {"/meta/job.json", "/meta/sidecar_config.json"} -> "job-spec"
    [] q = "/data" -> "data"
    [] q = "/shared" -> "termination-file-volume"
    [] q = "/serviceaccount" -> "evalhub-sa-token"
    [] q = "/etc/pki/ca-trust" -> "evalhub-service-ca"
    [] q = "/etc/evalhub/mlflow-ca" -> "mlflow-ca-bundle"
    [] q = "/etc/evalhub/.docker" -> "oci-credentials"
    [] q = "/secrets/mlflow" -> "mlflow-token"
    [] q = "/secrets/model" -> "model-auth"
    [] OTHER -> "init-metadata"
InitAt(c, q) ==
  CASE q = "/test_data" -> "test-data"
    [] q = "/init-metadata" -> "init-metadata"
    [] OTHER -> DataSecretVolume(c.testData)

\* Mounts of one container at one path are one mount, and the keys of the job's
\* ConfigMap are those that are mounted.
LEMMA OneMountPerPath ==
  ASSUME NEW c, ClaimsOK(c.pvcs),
         NEW C \in {buildRuntimeContainerMounts(c), buildSidecarContainerMounts(c),
                   initContainerMounts(c)}
  PROVE  /\ \A m, n \in C : m.path = n.path => m = n
         /\ \A m \in C : m.vol[1] = "job-spec" => m.path[1] \in buildConfigMap
<1>1. ASSUME NEW n, NEW q, NEW m, m = Mnt(n, q) PROVE m.path[1] = q /\ m.vol[1] = n
  BY <1>1 DEF Mnt
<1>2. CASE C = buildRuntimeContainerMounts(c)
  <2>1. ASSUME NEW m \in C
        PROVE  \/ \E p \in c.pvcs : m = [vol |-> p.vol, path |-> p.path]
               \/ /\ \E q : m = Mnt(AdapterAt(q), q) /\ m.path[1] = q
                  /\ m.path[1] # "/mnt/calibration-pvc"
                  /\ m.vol[1] = "job-spec" => m.path[1] \in buildConfigMap
    <3>1. \/ \E p \in c.pvcs : m = [vol |-> p.vol, path |-> p.path]
          \/ \E q : m = Mnt(AdapterAt(q), q) /\ q # "/mnt/calibration-pvc"
                   /\ (AdapterAt(q) = "job-spec" => q \in buildConfigMap)
      BY <1>2, <2>1 DEF buildRuntimeContainerMounts, CAMounts, OCIMount, AdapterAt, buildConfigMap
    <3>2. QED
      BY <1>1, <3>1
  <2>2. ASSUME NEW m \in C, NEW p \in c.pvcs, m = [vol |-> p.vol, path |-> p.path]
        PROVE  /\ m.path = p.path /\ m.path[1] = "/mnt/calibration-pvc"
               /\ m.vol[1] = "ppi-calibration-pvc"
    BY <2>2 DEF ClaimsOK
  <2>3. ASSUME NEW m \in C, m.vol[1] = "job-spec" PROVE m.path[1] \in buildConfigMap
    BY <2>1, <2>2, <2>3
  <2>4. ASSUME NEW m \in C, NEW n \in C, m.path = n.path PROVE m = n
    <3>1. CASE \E p \in c.pvcs : m = [vol |-> p.vol, path |-> p.path]
      <4>1. PICK p \in c.pvcs : m = [vol |-> p.vol, path |-> p.path]
        BY <3>1
      <4>2. PICK o \in c.pvcs : n = [vol |-> o.vol, path |-> o.path]
        BY <2>1, <2>2, <2>4, <4>1
      <4>3. p = o
        BY <2>2, <2>4, <4>1, <4>2 DEF ClaimsOK
      <4>4. QED
        BY <4>1, <4>2, <4>3
    <3>2. CASE m.path[1] # "/mnt/calibration-pvc"
      <4>1. PICK q : m = Mnt(AdapterAt(q), q) /\ m.path[1] = q
        BY <2>1, <2>2, <3>2
      <4>2. PICK o : n = Mnt(AdapterAt(o), o) /\ n.path[1] = o
        BY <2>1, <2>2, <2>4, <3>2
      <4>3. q = o
        BY <2>4, <4>1, <4>2
      <4>4. QED
        BY <4>1, <4>2, <4>3
    <3>3. QED
      BY <2>1, <3>1, <3>2
  <2>5. QED
    BY <2>3, <2>4
<1>3. CASE C = buildSidecarContainerMounts(c)
  <2>1. ASSUME NEW m \in C
        PROVE  /\ \E q : m = Mnt(SidecarAt(q), q) /\ m.path[1] = q
               /\ m.vol[1] = "job-spec" => m.path[1] \in buildConfigMap
    <3>1. \E q : m = Mnt(SidecarAt(q), q) /\ (SidecarAt(q) = "job-spec" => q \in buildConfigMap)
      BY <1>3, <2>1 DEF buildSidecarContainerMounts, CAMounts, OCIMount, SidecarAt, buildConfigMap
    <3>2. QED
      BY <1>1, <3>1
  <2>2. QED
    BY <2>1
<1>4. CASE C = initContainerMounts(c)
  <2>1. ASSUME NEW m \in C
        PROVE  (\E q : m = Mnt(InitAt(c, q), q) /\ m.path[1] = q) /\ m.vol[1] # "job-spec"
    <3>1. \E q : m = Mnt(InitAt(c, q), q) /\ InitAt(c, q) # "job-spec"
      BY <1>4, <2>1 DEF initContainerMounts, InitAt, hasInitData, DataSecretVolume
    <3>2. QED
      BY <1>1, <3>1
  <2>2. QED
    BY <2>1
<1>5. QED
  BY <1>2, <1>3, <1>4

\* What the environment of the adapter, the sidecar's configuration and the
\* request name is mounted, but for the CA path of the API process.
LEMMA NamedFilesMounted ==
  ASSUME NEW c, NEW r, c.bundle => c.instance /\ c.mlflow
  PROVE  /\ envFiles(c, r) \subseteq PathsOf(buildRuntimeContainerMounts(c)) \cup {ConfiguredCA}
         /\ sidecarForJobPod(c, r) \subseteq
              PathsOf(buildSidecarContainerMounts(c)) \cup {ConfiguredCA}
         /\ hasInitData(c) \/ c.testData = "pvc" =>
              "/test_data" \in PathsOf(buildRuntimeContainerMounts(c))
<1>1. ASSUME NEW C, NEW n, NEW q, Mnt(n, q) \in C PROVE q \in PathsOf(C)
  <2>1. Mnt(n, q).path[1] = q
    BY DEF Mnt
  <2>2. QED
    BY <1>1, <2>1 DEF PathsOf
<1>2. /\ c.instance => \A C \in {buildRuntimeContainerMounts(c), buildSidecarContainerMounts(c)} :
                          "/etc/pki/ca-trust" \in PathsOf(C)
      /\ c.bundle => \A C \in {buildRuntimeContainerMounts(c), buildSidecarContainerMounts(c)} :
                          "/etc/evalhub/mlflow-ca" \in PathsOf(C)
  <2>1. /\ c.instance => Mnt("evalhub-service-ca", "/etc/pki/ca-trust") \in CAMounts(c)
        /\ c.bundle => Mnt("mlflow-ca-bundle", "/etc/evalhub/mlflow-ca") \in CAMounts(c)
    BY DEF CAMounts
  <2>2. CAMounts(c) \subseteq buildRuntimeContainerMounts(c)
        /\ CAMounts(c) \subseteq buildSidecarContainerMounts(c)
    BY DEF buildRuntimeContainerMounts, buildSidecarContainerMounts
  <2>3. QED
    BY <1>1, <2>1, <2>2
<1>3. c.oci => "/etc/evalhub/.docker" \in PathsOf(buildRuntimeContainerMounts(c))
  <2>1. c.oci => Mnt("oci-credentials", "/etc/evalhub/.docker") \in buildRuntimeContainerMounts(c)
    BY DEF buildRuntimeContainerMounts, OCIMount
  <2>2. QED
    BY <1>1, <2>1
<1>4. hasInitData(c) \/ c.testData = "pvc" => "/test_data" \in PathsOf(buildRuntimeContainerMounts(c))
  <2>1. hasInitData(c) \/ c.testData = "pvc" => Mnt("test-data", "/test_data") \in buildRuntimeContainerMounts(c)
    BY DEF buildRuntimeContainerMounts
  <2>2. QED
    BY <1>1, <2>1
<1>5. /\ c.mlflow => "/secrets/mlflow" \in PathsOf(buildSidecarContainerMounts(c))
      /\ c.auth => "/secrets/model" \in PathsOf(buildSidecarContainerMounts(c))
      /\ isGitJob(c) => "/init-metadata" \in PathsOf(buildSidecarContainerMounts(c))
  <2>1. /\ c.mlflow => Mnt("mlflow-token", "/secrets/mlflow") \in buildSidecarContainerMounts(c)
        /\ c.auth => Mnt("model-auth", "/secrets/model") \in buildSidecarContainerMounts(c)
        /\ isGitJob(c) => Mnt("init-metadata", "/init-metadata") \in buildSidecarContainerMounts(c)
    BY DEF buildSidecarContainerMounts
  <2>2. QED
    BY <1>1, <2>1
<1>6. /\ mlflowCACertPathForJob(c, r) \in {"/etc/evalhub/mlflow-ca", ConfiguredCA, "/etc/pki/ca-trust", "none"}
      /\ mlflowCACertPathForJob(c, r) = "/etc/evalhub/mlflow-ca" => c.bundle
      /\ mlflowCACertPathForJob(c, r) = "/etc/pki/ca-trust" => c.instance
  BY DEF mlflowCACertPathForJob, ConfiguredCA
<1>7. envFiles(c, r) \subseteq PathsOf(buildRuntimeContainerMounts(c)) \cup {ConfiguredCA}
  BY <1>2, <1>3, <1>6 DEF envFiles
<1>8. sidecarForJobPod(c, r) \subseteq PathsOf(buildSidecarContainerMounts(c)) \cup {ConfiguredCA}
  BY <1>2, <1>5, <1>6 DEF sidecarForJobPod
<1>9. QED
  BY <1>4, <1>7, <1>8

\* The builders agree on the pod (PodWellFormed) for every request: among others,
\* every file a container is told of is mounted in it, but for the MLflow CA path
\* of the API process.  And the pod asks for its accelerator in one way.
THEOREM ObjectsPodWellFormed == Spec => []PodWellFormed
<1>1. PodInv => PodWellFormed
  <2> SUFFICES ASSUME PodInv, pod # NoConfig PROVE PodWellFormed
    BY DEF PodWellFormed, Built
  <2>1. /\ pod = buildJob(cfg, req) /\ ConfigOK(cfg, req) /\ ClaimsOK(cfg.pvcs)
        /\ req \in Requests /\ pc \notin {"validate", "failed"}
    BY DEF PodInv, ConfigOK
  <2>2. /\ pod.adapter = buildRuntimeContainerMounts(cfg)
        /\ pod.sidecar = buildSidecarContainerMounts(cfg) /\ pod.init = initContainerMounts(cfg)
        /\ pod.envFiles = envFiles(cfg, req) /\ pod.sidecarFiles = sidecarForJobPod(cfg, req)
    BY <2>1 DEF buildJob
  <2>3. ASSUME NEW C \in {pod.adapter, pod.sidecar, pod.init}
        PROVE  /\ \A m \in C : \E v \in pod.volumes : v.name = m.vol
               /\ \A m, n \in C : m.path = n.path => m = n
               /\ \A m \in C : m.vol[1] = "job-spec" => m.path[1] \in buildConfigMap
    BY <2>1, <2>2, <2>3, MountSource, OneMountPerPath
  <2>4. ASSUME NEW i \in DOMAIN pod.declared, NEW j \in DOMAIN pod.declared,
               pod.declared[i].name = pod.declared[j].name
        PROVE  pod.declared[i].src = pod.declared[j].src
    <3>1. Range(pod.declared) = Declared(cfg)
      BY <2>1, PodVolumes DEF ClaimsOK
    <3>2. pod.declared[i] \in Declared(cfg) /\ pod.declared[j] \in Declared(cfg)
      BY <2>4, <3>1 DEF Range
    <3>3. QED
      BY <2>1, <2>4, <3>2, OneSource
  <2>5. /\ pod.envFiles \subseteq PathsOf(pod.adapter) \cup {ConfiguredCA}
        /\ pod.sidecarFiles \subseteq PathsOf(pod.sidecar) \cup {ConfiguredCA}
    BY <2>1, <2>2, NamedFilesMounted DEF ConfigOK
  <2>6. req.testData \notin {"none", "s3root"} => "/test_data" \in PathsOf(pod.adapter)
    <3>1. req.testData \in {"none", "s3", "s3root", "git", "hf", "pvc"}
      BY <2>1, ObjectsAssumption
    <3>2. req.testData \notin {"none", "s3root"} => hasInitData(cfg) \/ cfg.testData = "pvc"
      BY <2>1, <3>1 DEF ConfigOK, hasInitData
    <3>3. QED
      BY <2>1, <2>2, <3>2, NamedFilesMounted DEF ConfigOK
  <2>7. OneAccelerator
    <3>1. /\ pod.resources.gpu = (cfg.hw.gpuCount > 0 /\ cfg.hw.gpuName)
          /\ pod.resources.claims = cfg.hw.dra /\ pod.claims = cfg.hw.dra
          /\ pod.labels.queue = cfg.hw.queue
          /\ pod.selector = cfg.hw.selector /\ pod.tolerations = cfg.hw.tolerations
      BY <2>1 DEF buildJob, buildResources, buildResourceClaims, jobLabels
    <3>2. HardwareOK(cfg.hw, req)
      BY <2>1 DEF ConfigOK
    <3>3. EffectiveHardwareConfig(req).mode = "profile" /\ edits = 0 => ~profile.disabled
      BY <2>1 DEF PodInv
    <3>4. QED
      BY <3>1, <3>2, <3>3 DEF OneAccelerator, HardwareOK
  <2>8. QED
    BY <2>3, <2>4, <2>5, <2>6, <2>7 DEF PodWellFormed
<1>2. QED
  BY <1>1, PodInvariant, PTL

-----------------------------------------------------------------------------
(* Names                                                                   *)

Clean(s) == IsSeq(s) /\ \A i \in DOMAIN s : s[i] # Bad
Label(s) == Clean(s) /\ Len(s) > 0 /\ s[1] # Dash /\ s[Len(s)] # Dash

LEMMA SeqFacts ==
  ASSUME NEW s, IsSeq(s)
  PROVE  Len(s) \in Nat /\ DOMAIN s = 1..Len(s)
  BY DEF IsSeq

\* Concatenation, position by position.
LEMMA Concat ==
  ASSUME NEW s, NEW t, IsSeq(s), IsSeq(t)
  PROVE  /\ IsSeq(s \o t) /\ Len(s \o t) = Len(s) + Len(t)
         /\ \A i \in 1..Len(s) : (s \o t)[i] = s[i]
         /\ \A i \in 1..Len(t) : (s \o t)[Len(s) + i] = t[i]
<1> DEFINE S == Range(s) \cup Range(t)
<1>1. s \in Seq(S) /\ t \in Seq(S)
  BY SeqMonotonic DEF IsSeq
<1>2. s \o t \in Seq(S)
  BY <1>1
<1>3. IsSeq(s \o t)
  BY <1>2, SeqOfRange DEF IsSeq
<1>4. QED
  BY <1>1, <1>3

\* The least and the greatest element of a set of positions.
LEMMA Least ==
  ASSUME NEW n \in Nat, NEW T, T \subseteq 1..n, T # {}
  PROVE  (\E i \in T : \A j \in T : i <= j) /\ (\E i \in T : \A j \in T : i >= j)
<1>1. \E i \in T : \A j \in T : i <= j
  <2>1. T \subseteq Nat
    OBVIOUS
  <2>2. PICK i \in T : \A j \in T : ~(<<j, i>> \in OpToRel(<, Nat))
    BY <2>1, NatLessThanWellFounded, WFMin
  <2>3. \A j \in T : ~(j < i)
    BY <2>1, <2>2 DEF OpToRel
  <2>4. QED
    BY <2>1, <2>3
<1>2. \E i \in T : \A j \in T : i >= j
  <2> DEFINE U == {k \in 0..n : n - k \in T}
  <2>1. U \subseteq Nat /\ U # {}
    <3>1. PICK t \in T : TRUE
      OBVIOUS
    <3>2. n - t \in 0..n /\ n - (n - t) = t
      BY <3>1
    <3>3. n - t \in U
      BY <3>1, <3>2
    <3>4. U \subseteq Nat
      OBVIOUS
    <3>5. QED
      BY <3>3, <3>4
  <2>2. PICK k \in U : \A j \in U : ~(<<j, k>> \in OpToRel(<, Nat))
    BY <2>1, NatLessThanWellFounded, WFMin
  <2>3. ASSUME NEW j \in T PROVE n - k >= j
    <3>1. n - j \in 0..n /\ n - (n - j) = j /\ k \in 0..n
      BY <2>3
    <3>2. n - j \in U
      BY <3>1
    <3>3. ~(n - j < k)
      BY <2>1, <2>2, <3>2 DEF OpToRel
    <3>4. QED
      BY <2>3, <3>1, <3>3
  <2>4. QED
    BY <2>3
<1>3. QED
  BY <1>1, <1>2

\* What is left of a sequence between its dashes starts and ends without one.
LEMMA TrimLabel ==
  ASSUME NEW s, Clean(s)
  PROVE  Label(OrX(Trim(s))) /\ (Len(OrX(Trim(s))) <= Len(s) \/ Len(OrX(Trim(s))) = 1)
<1> DEFINE kept == {i \in DOMAIN s : IsNotDash(s[i])}
           first == CHOOSE i \in kept : \A j \in kept : i <= j
           last == CHOOSE i \in kept : \A j \in kept : i >= j
<1>0. Label(X) /\ Len(X) = 1
  <2>1. X \in Seq({"x"}) /\ Len(X) = 1 /\ X[1] = "x" /\ DOMAIN X = 1..1
    BY DEF X
  <2>2. IsSeq(X)
    BY <2>1, SeqOfRange DEF IsSeq
  <2>3. QED
    <3>1. "x" # "-" /\ "x" # "_"
      OBVIOUS
    <3>2. \A i \in DOMAIN X : i = 1
      BY <2>1
    <3>3. X[1] # Dash /\ X[Len(X)] # Dash /\ X[1] # Bad
      BY <2>1, <3>1 DEF Dash, Bad
    <3>4. QED
      BY <2>1, <2>2, <3>2, <3>3 DEF Label, Clean
<1>1. CASE kept = {}
  <2>1. Trim(s) = <<>>
    BY <1>1 DEF Trim
  <2>2. QED
    BY <1>0, <2>1 DEF OrX
<1>2. CASE kept # {}
  <2>1. Len(s) \in Nat /\ DOMAIN s = 1..Len(s)
    BY SeqFacts DEF Clean
  <2>2. first \in kept /\ last \in kept /\ first <= last
    BY <1>2, <2>1, Least
  <2>3. Trim(s) = SubSeq(s, first, last)
    BY <1>2 DEF Trim
  <2> HIDE DEF first, last
  <2>4. first \in 1..Len(s) /\ last \in 1..Len(s) /\ s[first] # Dash /\ s[last] # Dash
    BY <2>1, <2>2 DEF IsNotDash
  <2> DEFINE t == SubSeq(s, first, last)
  <2>5. /\ t \in Seq(Range(s)) /\ Len(t) = last - first + 1
        /\ \A i \in 1..Len(t) : t[i] = s[first + i - 1]
    BY <2>1, <2>2, <2>4, SubSeqProperties DEF Clean, IsSeq
  <2> HIDE DEF t
  <2>6. IsSeq(t)
    BY <2>5, SeqOfRange DEF IsSeq
  <2>7. DOMAIN t = 1..Len(t) /\ Len(t) > 0 /\ Len(t) <= Len(s)
    BY <2>1, <2>2, <2>4, <2>5
  <2>8. \A i \in 1..Len(t) : t[i] # Bad
    BY <2>1, <2>2, <2>4, <2>5 DEF Clean
  <2>9. t[1] # Dash /\ t[Len(t)] # Dash
    BY <2>1, <2>2, <2>4, <2>5, <2>7
  <2>10. Label(t) /\ t # <<>>
    BY <2>6, <2>7, <2>8, <2>9 DEF Label, Clean
  <2>11. QED
    BY <2>3, <2>7, <2>10 DEF OrX, t
<1>3. QED
  BY <1>1, <1>2

LEMMA SanitizedLabel ==
  ASSUME NEW s, IsSeq(s)
  PROVE  Label(sanitizeDNS1123Label(s))
<1> DEFINE kept == {i \in DOMAIN s : s[i] = Bad /\ i > 1 => s[i - 1] # Bad}
           at(n) == CHOOSE i \in kept : Cardinality({j \in kept : j <= i}) = n
           t == [n \in 1..Cardinality(kept) |-> IF s[at(n)] = Bad THEN Dash ELSE s[at(n)]]
<1>1. Cardinality(kept) \in Nat
  <2>1. DOMAIN s = 1..Len(s) /\ Len(s) \in Nat
    BY SeqFacts
  <2>2. IsFiniteSet(DOMAIN s)
    BY <2>1, FS_Interval
  <2>3. IsFiniteSet(kept)
    BY <2>2, FS_Subset
  <2>4. QED
    BY <2>3, FS_CardinalityType
<1>2. IsSeq(t)
  <2> DEFINE n == Cardinality(kept)
             e(i) == IF s[at(i)] = Bad THEN Dash ELSE s[at(i)]
  <2>1. t = [i \in 1..n |-> e(i)]
    OBVIOUS
  <2> HIDE DEF t, n, e
  <2>2. n \in Nat
    BY <1>1 DEF n
  <2>3. \A i \in 1..n : t[i] \in Range(t)
    BY <2>1 DEF Range
  <2>4. t \in [1..n -> Range(t)]
    BY <2>1, <2>3
  <2>5. QED
    BY <2>2, <2>4 DEF IsSeq
<1>3. \A i \in DOMAIN t : t[i] # Bad
  BY DEF Dash, Bad
<1>4. sanitizeDNS1123Label(s) = OrX(Trim(t))
  BY DEF sanitizeDNS1123Label
<1>5. QED
  BY <1>2, <1>3, <1>4, TrimLabel DEF Clean

\* A label is kept as it is.
LEMMA SanitizedSame ==
  ASSUME NEW s, Label(s)
  PROVE  sanitizeDNS1123Label(s) = s
<1> DEFINE kept == {i \in DOMAIN s : s[i] = Bad /\ i > 1 => s[i - 1] # Bad}
           at(n) == CHOOSE i \in kept : Cardinality({j \in kept : j <= i}) = n
           t == [n \in 1..Cardinality(kept) |-> IF s[at(n)] = Bad THEN Dash ELSE s[at(n)]]
<1>1. DOMAIN s = 1..Len(s) /\ Len(s) \in Nat
  BY SeqFacts DEF Label, Clean
<1>2. kept = 1..Len(s)
  BY <1>1 DEF Label, Clean
<1>0. \A i \in Nat : Cardinality(1..i) = i
  <2> SUFFICES ASSUME NEW i \in Nat PROVE Cardinality(1..i) = i
    OBVIOUS
  <2>1. Cardinality(1..i) = IF 1 > i THEN 0 ELSE i - 1 + 1
    BY FS_Interval
  <2>2. QED
    BY <2>1
<1>3. Cardinality(kept) = Len(s)
  BY <1>0, <1>1, <1>2
<1>4. ASSUME NEW n \in 1..Len(s) PROVE at(n) = n
  <2>1. ASSUME NEW i \in 1..Len(s) PROVE Cardinality({j \in kept : j <= i}) = i
    <3>1. {j \in kept : j <= i} = 1..i
      BY <1>1, <1>2
    <3>2. i \in Nat
      BY <1>1
    <3>3. Cardinality(1..i) = i
      BY <1>0, <3>2
    <3> HIDE DEF kept
    <3>4. QED
      BY <3>1, <3>3
  <2>2. QED
    BY <1>2, <2>1
<1>5. t = s
  <2>1. t = [n \in 1..Len(s) |-> IF s[at(n)] = Bad THEN Dash ELSE s[at(n)]]
    BY <1>3
  <2>2. \A n \in 1..Len(s) : (IF s[at(n)] = Bad THEN Dash ELSE s[at(n)]) = s[n]
    BY <1>1, <1>4 DEF Label, Clean
  <2>3. t = [n \in 1..Len(s) |-> s[n]]
    BY <2>1, <2>2
  <2>4. QED
    <3>1. s = [n \in 1..Len(s) |-> s[n]]
      BY DEF Label, Clean, IsSeq
    <3>2. QED
      BY <2>3, <3>1
<1>6. Trim(s) = s
  <2> DEFINE k == {i \in DOMAIN s : IsNotDash(s[i])}
             first == CHOOSE i \in k : \A j \in k : i <= j
             last == CHOOSE i \in k : \A j \in k : i >= j
  <2>1. 1 \in k /\ Len(s) \in k /\ k \subseteq 1..Len(s)
    BY <1>1 DEF Label, Clean, IsNotDash
  <2>2. first = 1 /\ last = Len(s)
    BY <1>1, <2>1
  <2>3. Trim(s) = SubSeq(s, 1, Len(s))
    BY <2>1, <2>2 DEF Trim
  <2>4. QED
    BY <2>3 DEF Label, Clean, IsSeq
<1>7. OrX(s) = s
  BY DEF OrX, Label
<1>8. sanitizeDNS1123Label(s) = OrX(Trim(t))
  BY DEF sanitizeDNS1123Label
<1>9. QED
  <2> HIDE DEF t
  <2> QED BY <1>5, <1>6, <1>7, <1>8

\* A name: what is left of the job id, the execution id, the suffix.
HeadOf(id, room) ==
  LET d == sanitizeDNS1123Label(id) IN IF Len(d) > room THEN OrX(Trim(Cut(d, room))) ELSE d
Composed(d, g, suffix) == d \o <<Dash>> \o g \o suffix

LEMMA HeadLabel ==
  ASSUME NEW id, IsSeq(id), NEW room \in Nat, room >= 1
  PROVE  Label(HeadOf(id, room)) /\ Len(HeadOf(id, room)) <= room
<1> DEFINE d == sanitizeDNS1123Label(id)
           c == Cut(d, room)
<1>1. Label(d) /\ Len(d) \in Nat /\ DOMAIN d = 1..Len(d)
  BY SanitizedLabel, SeqFacts DEF Label, Clean
<1> HIDE DEF d
<1>2. CASE Len(d) > room
  <2>1. c = SubSeq(d, 1, room)
    <3>1. \A a, b \in Nat : a > b => Shorter(a, b) = b
      BY DEF Shorter
    <3>2. Shorter(Len(d), room) = room
      BY <1>1, <1>2, <3>1
    <3>3. QED
      BY <3>2 DEF Cut
  <2>2. c \in Seq(Range(d)) /\ Len(c) = room /\ \A i \in 1..Len(c) : c[i] = d[i]
    <3>1. /\ SubSeq(d, 1, room) \in Seq(Range(d))
          /\ Len(SubSeq(d, 1, room)) = room - 1 + 1
          /\ \A i \in 1..(room - 1 + 1) : SubSeq(d, 1, room)[i] = d[1 + i - 1]
      BY <1>1, <1>2, SubSeqProperties DEF Label, Clean, IsSeq
    <3>2. QED
      BY <2>1, <3>1
  <2> HIDE DEF c
  <2>3. IsSeq(c) /\ DOMAIN c = 1..room
    BY <2>2, SeqOfRange DEF IsSeq
  <2>4. Clean(c)
    BY <1>1, <1>2, <2>2, <2>3 DEF Clean, Label
  <2>5. HeadOf(id, room) = OrX(Trim(c))
    BY <1>2 DEF HeadOf, c, d
  <2>6. QED
    BY <2>2, <2>4, <2>5, TrimLabel
<1>3. CASE ~(Len(d) > room)
  <2>1. HeadOf(id, room) = d
    BY <1>3 DEF HeadOf, d
  <2>2. QED
    BY <1>1, <1>3, <2>1
<1>4. QED
  BY <1>2, <1>3

\* The parts of a name, position by position.
LEMMA ComposedParts ==
  ASSUME NEW d, NEW g, NEW suffix, IsSeq(d), IsSeq(g), IsSeq(suffix)
  PROVE  LET c == Composed(d, g, suffix)
         IN  /\ IsSeq(c) /\ Len(c) = Len(d) + 1 + Len(g) + Len(suffix)
             /\ \A i \in 1..Len(d) : c[i] = d[i]
             /\ c[Len(d) + 1] = Dash
             /\ \A i \in 1..Len(g) : c[Len(d) + 1 + i] = g[i]
             /\ \A i \in 1..Len(suffix) : c[Len(d) + 1 + Len(g) + i] = suffix[i]
<1>0. PICK m : m = <<Dash>> /\ IsSeq(m) /\ Len(m) = 1 /\ m[1] = Dash
  <2>1. <<Dash>> \in Seq({Dash})
    OBVIOUS
  <2>2. IsSeq(<<Dash>>) /\ Len(<<Dash>>) = 1 /\ <<Dash>>[1] = Dash
    BY <2>1, SeqOfRange DEF IsSeq
  <2>3. QED
    BY <2>2
<1> DEFINE dm == d \o m
           dmg == dm \o g
           c == dmg \o suffix
<1>1. Len(d) \in Nat /\ Len(g) \in Nat /\ Len(suffix) \in Nat
  BY SeqFacts
<1>2. /\ IsSeq(dm) /\ Len(dm) = Len(d) + 1 /\ dm[Len(d) + 1] = Dash
      /\ \A i \in 1..Len(d) : dm[i] = d[i]
  <2>1. /\ IsSeq(dm) /\ Len(dm) = Len(d) + Len(m)
        /\ \A i \in 1..Len(d) : dm[i] = d[i]
        /\ \A i \in 1..Len(m) : dm[Len(d) + i] = m[i]
    <3>1. IsSeq(m)
      BY <1>0
    <3>2. QED
      BY <3>1, Concat
  <2> HIDE DEF dm
  <2>2. QED
    BY <1>0, <1>1, <2>1
<1> HIDE DEF dm
<1>3. /\ IsSeq(dmg) /\ Len(dmg) = Len(d) + 1 + Len(g)
      /\ \A i \in 1..(Len(d) + 1) : dmg[i] = dm[i]
      /\ \A i \in 1..Len(g) : dmg[Len(d) + 1 + i] = g[i]
  <2>1. /\ IsSeq(dmg) /\ Len(dmg) = Len(dm) + Len(g)
        /\ \A i \in 1..Len(dm) : dmg[i] = dm[i]
        /\ \A i \in 1..Len(g) : dmg[Len(dm) + i] = g[i]
    <3>1. IsSeq(dm)
      BY <1>2
    <3>2. QED
      BY <3>1, Concat
  <2> HIDE DEF dmg
  <2>2. QED
    BY <1>1, <1>2, <2>1
<1> HIDE DEF dmg
<1>4. /\ IsSeq(c) /\ Len(c) = Len(d) + 1 + Len(g) + Len(suffix)
      /\ \A i \in 1..(Len(d) + 1 + Len(g)) : c[i] = dmg[i]
      /\ \A i \in 1..Len(suffix) : c[Len(d) + 1 + Len(g) + i] = suffix[i]
  <2>1. /\ IsSeq(c) /\ Len(c) = Len(dmg) + Len(suffix)
        /\ \A i \in 1..Len(dmg) : c[i] = dmg[i]
        /\ \A i \in 1..Len(suffix) : c[Len(dmg) + i] = suffix[i]
    <3>1. IsSeq(dmg)
      BY <1>3
    <3>2. QED
      BY <3>1, Concat
  <2> HIDE DEF c
  <2>2. QED
    BY <1>1, <1>3, <2>1
<1> HIDE DEF c
<1>5. /\ \A i \in 1..Len(d) : c[i] = d[i]
      /\ c[Len(d) + 1] = Dash
      /\ \A i \in 1..Len(g) : c[Len(d) + 1 + i] = g[i]
  BY <1>1, <1>2, <1>3, <1>4
<1>6. Composed(d, g, suffix) = c
  BY <1>0 DEF Composed, c, dmg, dm
<1>7. QED
  BY <1>4, <1>5, <1>6

\* An execution id and a suffix with room for the head of a job id.
Fits(g, suffix, reserve) ==
  /\ Label(g) /\ IsSeq(suffix) /\ reserve \in Nat /\ Len(suffix) <= reserve
  /\ Len(g) + reserve + 2 <= maxK8sNameLength
Room(g, reserve) == maxK8sNameLength - reserve - Len(g) - 1

\* Only the job id is ever cut: the execution id and the suffix stay whole.
LEMMA NameShape ==
  ASSUME NEW id, IsSeq(id), NEW g, NEW suffix, NEW reserve, Fits(g, suffix, reserve)
  PROVE  buildK8sNameWithReserve(id, g, suffix, reserve) = Composed(HeadOf(id, Room(g, reserve)), g, suffix)
<1>1. /\ maxK8sNameLength \in Nat /\ reserve \in Nat /\ Len(g) \in Nat /\ Len(suffix) \in Nat
      /\ Len(suffix) <= reserve /\ Len(g) + reserve + 2 <= maxK8sNameLength
  BY NamesAssumption, SeqFacts DEF Fits, Label, Clean
<1> DEFINE room == Room(g, reserve)
           d == HeadOf(id, room)
           base == d \o <<Dash>> \o g
<1>2. room \in Nat /\ room >= 1 /\ AtLeast1(maxK8sNameLength - reserve - Len(g) - 1) = room
  BY <1>1 DEF Room, AtLeast1
<1>3. Label(d) /\ Len(d) <= room /\ Len(d) \in Nat
  BY <1>2, HeadLabel, SeqFacts DEF Label, Clean
<1>4. sanitizeDNS1123Label(g) = g
  BY SanitizedSame DEF Fits
<1>5. /\ Len(base) = Len(d) + 1 + Len(g)
      /\ Len(base \o suffix) = Len(d) + 1 + Len(g) + Len(suffix)
  <2>1. IsSeq(d) /\ IsSeq(g) /\ IsSeq(suffix) /\ IsSeq(<<Dash>>) /\ Len(<<Dash>>) = 1
    <3>1. <<Dash>> \in Seq({Dash})
      OBVIOUS
    <3>2. QED
      BY <1>3, <3>1, SeqOfRange DEF Fits, Label, Clean, IsSeq
  <2> HIDE DEF d
  <2>2. IsSeq(d \o <<Dash>>) /\ Len(d \o <<Dash>>) = Len(d) + 1
    BY <2>1, Concat
  <2>3. IsSeq(base) /\ Len(base) = Len(d) + 1 + Len(g)
    BY <2>1, <2>2, Concat
  <2>4. QED
    BY <2>1, <2>3, Concat
<1>6. /\ AtLeast1(maxK8sNameLength - reserve) = maxK8sNameLength - reserve
      /\ Len(base) <= maxK8sNameLength - reserve
      /\ Len(base \o suffix) <= maxK8sNameLength
  BY <1>1, <1>2, <1>3, <1>5 DEF AtLeast1, Room
<1>7. ~(reserve < Len(suffix)) /\ ~(Len(base) > maxK8sNameLength - reserve)
  BY <1>1, <1>3, <1>5, <1>6
<1>8. d = IF Len(sanitizeDNS1123Label(id)) > room
          THEN OrX(Trim(Cut(sanitizeDNS1123Label(id), room))) ELSE sanitizeDNS1123Label(id)
  BY DEF HeadOf
<1>9. buildK8sNameWithReserve(id, g, suffix, reserve) = base \o suffix
  <2> HIDE DEF d, room
  <2>1. QED
    BY <1>2, <1>4, <1>6, <1>7, <1>8 DEF buildK8sNameWithReserve
<1>10. QED
  BY <1>9 DEF Composed

Ending(suffix) ==
  /\ IsSeq(suffix) /\ \A i \in DOMAIN suffix : suffix[i] # Bad
  /\ Len(suffix) > 0 => suffix[Len(suffix)] # Dash

\* Such a name is one the API server takes.
LEMMA NameLabel ==
  ASSUME NEW id, IsSeq(id), NEW g, NEW suffix, NEW reserve, Fits(g, suffix, reserve), Ending(suffix)
  PROVE  IsDNSLabel(buildK8sNameWithReserve(id, g, suffix, reserve))
<1> DEFINE d == HeadOf(id, Room(g, reserve))
           c == Composed(d, g, suffix)
<1>1. /\ maxK8sNameLength \in Nat /\ reserve \in Nat /\ Len(g) \in Nat /\ Len(suffix) \in Nat
      /\ Len(suffix) <= reserve /\ Len(g) + reserve + 2 <= maxK8sNameLength
  BY NamesAssumption, SeqFacts DEF Fits, Label, Clean
<1>2. Room(g, reserve) \in Nat /\ Room(g, reserve) >= 1
  BY <1>1 DEF Room
<1>3. Label(d) /\ Len(d) <= Room(g, reserve) /\ Len(d) \in Nat
  BY <1>2, HeadLabel, SeqFacts DEF Label, Clean
<1> HIDE DEF d
<1>4. /\ DOMAIN d = 1..Len(d) /\ DOMAIN g = 1..Len(g) /\ DOMAIN suffix = 1..Len(suffix)
      /\ IsSeq(d) /\ IsSeq(g) /\ IsSeq(suffix) /\ Len(g) > 0 /\ Len(d) > 0
  BY <1>3, SeqFacts DEF Fits, Label, Clean
<1>5. /\ IsSeq(c) /\ Len(c) = Len(d) + 1 + Len(g) + Len(suffix)
      /\ \A i \in 1..Len(d) : c[i] = d[i]
      /\ c[Len(d) + 1] = Dash
      /\ \A i \in 1..Len(g) : c[Len(d) + 1 + i] = g[i]
      /\ \A i \in 1..Len(suffix) : c[Len(d) + 1 + Len(g) + i] = suffix[i]
  BY <1>4, ComposedParts
<1> HIDE DEF c
<1>6. Len(c) \in 1..maxK8sNameLength /\ DOMAIN c = 1..Len(c)
  BY <1>1, <1>3, <1>4, <1>5, SeqFacts DEF Room
<1>7. c[1] # Dash
  BY <1>3, <1>4, <1>5 DEF Label
<1>8. c[Len(c)] # Dash
  <2>1. CASE Len(suffix) = 0
    <3>1. c[Len(d) + 1 + Len(g)] = g[Len(g)]
      BY <1>1, <1>4, <1>5
    <3>2. QED
      BY <1>1, <1>3, <1>5, <2>1, <3>1 DEF Fits, Label
  <2>2. CASE Len(suffix) > 0
    <3>1. c[Len(d) + 1 + Len(g) + Len(suffix)] = suffix[Len(suffix)]
      BY <1>1, <1>5, <2>2
    <3>2. QED
      BY <1>5, <2>2, <3>1 DEF Ending
  <2>3. QED
    BY <1>1, <2>1, <2>2
<1>9. ASSUME NEW i \in 1..Len(c) PROVE c[i] # Bad
  <2>1. CASE i <= Len(d)
    BY <1>3, <1>4, <1>5, <2>1 DEF Label, Clean
  <2>2. CASE i = Len(d) + 1
    BY <1>5, <2>2 DEF Dash, Bad
  <2>3. CASE i > Len(d) + 1 /\ i <= Len(d) + 1 + Len(g)
    <3>1. i - Len(d) - 1 \in 1..Len(g) /\ i = Len(d) + 1 + (i - Len(d) - 1)
      BY <1>1, <1>3, <2>3
    <3>2. c[i] = g[i - Len(d) - 1]
      BY <1>5, <3>1
    <3>3. QED
      BY <1>4, <3>1, <3>2 DEF Fits, Label, Clean
  <2>4. CASE i > Len(d) + 1 + Len(g)
    <3>1. /\ i - Len(d) - 1 - Len(g) \in 1..Len(suffix)
          /\ i = Len(d) + 1 + Len(g) + (i - Len(d) - 1 - Len(g))
      BY <1>1, <1>3, <1>5, <2>4
    <3>2. c[i] = suffix[i - Len(d) - 1 - Len(g)]
      BY <1>5, <3>1
    <3>3. QED
      BY <1>4, <3>1, <3>2 DEF Ending
  <2>5. QED
    BY <1>1, <1>3, <2>1, <2>2, <2>3, <2>4
<1>10. IsDNSLabel(c)
  BY <1>6, <1>7, <1>8, <1>9 DEF IsDNSLabel, IsNotDash
<1>11. QED
  BY <1>10, NameShape DEF c, d

\* Names of one kind differ when the execution ids do.
LEMMA NamesDiffer ==
  ASSUME NEW id, NEW jd, IsSeq(id), IsSeq(jd), NEW g, NEW h, NEW suffix, NEW reserve,
         Fits(g, suffix, reserve), Fits(h, suffix, reserve), Len(g) = Len(h),
         buildK8sNameWithReserve(id, g, suffix, reserve) = buildK8sNameWithReserve(jd, h, suffix, reserve)
  PROVE  g = h
<1> DEFINE d == HeadOf(id, Room(g, reserve))
           e == HeadOf(jd, Room(h, reserve))
<1>1. /\ maxK8sNameLength \in Nat /\ reserve \in Nat /\ Len(g) \in Nat /\ Len(suffix) \in Nat
      /\ Len(suffix) <= reserve /\ Len(g) + reserve + 2 <= maxK8sNameLength
  BY NamesAssumption, SeqFacts DEF Fits, Label, Clean
<1>2. Room(g, reserve) \in Nat /\ Room(g, reserve) >= 1 /\ Room(h, reserve) \in Nat /\ Room(h, reserve) >= 1
  BY <1>1 DEF Room
<1>3. IsSeq(d) /\ IsSeq(e) /\ IsSeq(g) /\ IsSeq(h) /\ IsSeq(suffix)
  BY <1>2, HeadLabel DEF Label, Clean, Fits
<1>4. Composed(d, g, suffix) = Composed(e, h, suffix)
  BY NameShape
<1> HIDE DEF d, e
<1>5. Len(d) \in Nat /\ Len(e) \in Nat
  BY <1>3, SeqFacts
<1>6. Len(d) = Len(e)
  <2>1. Len(d) + 1 + Len(g) + Len(suffix) = Len(e) + 1 + Len(h) + Len(suffix)
    <3>1. Len(Composed(d, g, suffix)) = Len(d) + 1 + Len(g) + Len(suffix)
      BY <1>3, ComposedParts
    <3>2. Len(Composed(e, h, suffix)) = Len(e) + 1 + Len(h) + Len(suffix)
      BY <1>3, ComposedParts
    <3>3. QED
      BY <1>4, <3>1, <3>2
  <2>2. QED
    BY <1>1, <1>5, <2>1
<1>7. \A i \in 1..Len(g) : g[i] = h[i]
  <2> DEFINE c == Composed(d, g, suffix)
  <2>1. \A i \in 1..Len(g) : c[Len(d) + 1 + i] = g[i]
    BY <1>3, ComposedParts
  <2>2. \A i \in 1..Len(h) : c[Len(e) + 1 + i] = h[i]
    BY <1>3, <1>4, ComposedParts
  <2>3. QED
    BY <1>6, <2>1, <2>2
<1>8. g = [i \in 1..Len(g) |-> g[i]] /\ h = [i \in 1..Len(h) |-> h[i]]
  BY <1>3 DEF IsSeq
<1>9. QED
  BY <1>7, <1>8

NameSuffixes == {specSuffix, modelRefSuffix, netpolSuffix}

LEMMA StringSeq ==
  ASSUME NEW s, s \in Seq(STRING) PROVE IsSeq(s)
  BY SeqOfRange DEF IsSeq

LEMMA SuffixEnding ==
  ASSUME NEW s \in NameSuffixes PROVE Ending(s) /\ Len(s) \in Nat
<1>1. s \in Seq(STRING) /\ s[Len(s)] # Dash /\ \A i \in DOMAIN s : s[i] # Bad
  BY NamesAssumption DEF NameSuffixes
<1>2. QED
  BY <1>1, StringSeq DEF Ending

LEMMA EmptyEnding == IsSeq(<<>>) /\ Len(<<>>) = 0 /\ Ending(<<>>)
<1>1. Len(<<>>) = 0 /\ DOMAIN <<>> = {} /\ ~(0 > 0)
  OBVIOUS
<1>2. IsSeq(<<>>)
  BY ShortRange
<1>3. QED
  BY <1>1, <1>2 DEF Ending

\* An execution id fits every suffix, and none with a suffix's room kept free.
LEMMA GuidFits ==
  ASSUME NEW g \in GUIDs, NEW s \in NameSuffixes
  PROVE  Fits(g, s, Len(s)) /\ Fits(g, <<>>, Len(s))
<1>1. g \in Seq(STRING) /\ IsDNSLabel(g) /\ Len(g) + Len(s) + 2 <= maxK8sNameLength
  BY IdsAssumption DEF NameSuffixes
<1>2. Label(g)
  BY <1>1, StringSeq DEF IsDNSLabel, Label, Clean, IsNotDash
<1>3. IsSeq(s) /\ Len(s) \in Nat
  BY SuffixEnding DEF Ending
<1>4. QED
  BY <1>1, <1>2, <1>3, EmptyEnding DEF Fits

\* The four names of one execution.
NameOf(id, g, i) ==
  CASE i = 1 -> buildK8sNameWithReserve(id, g, <<>>, Len(specSuffix))
    [] i = 2 -> buildK8sNameWithReserve(id, g, specSuffix, Len(specSuffix))
    [] i = 3 -> buildK8sNameWithReserve(id, g, modelRefSuffix, Len(modelRefSuffix))
    [] i = 4 -> buildK8sNameWithReserve(App, g, netpolSuffix, Len(netpolSuffix))

LEMMA ObjectNames ==
  ASSUME NEW id, NEW g
  PROVE  /\ DOMAIN objectNames(id, g) = 1..4
         /\ \A i \in 1..4 : objectNames(id, g)[i] = NameOf(id, g, i)
<1>1. DOMAIN objectNames(id, g) = 1..4
  BY DEF objectNames
<1>2. /\ objectNames(id, g)[1] = jobName(id, g) /\ objectNames(id, g)[2] = configMapName(id, g)
      /\ objectNames(id, g)[3] = buildK8sName(id, g, modelRefSuffix) /\ objectNames(id, g)[4] = netpolName(g)
  BY DEF objectNames
<1>3. /\ NameOf(id, g, 1) = jobName(id, g) /\ NameOf(id, g, 2) = configMapName(id, g)
      /\ NameOf(id, g, 3) = buildK8sName(id, g, modelRefSuffix) /\ NameOf(id, g, 4) = netpolName(g)
  BY DEF NameOf, jobName, configMapName, buildK8sName, netpolName
<1>4. \A i \in 1..4 : i = 1 \/ i = 2 \/ i = 3 \/ i = 4
  OBVIOUS
<1>5. QED
  BY <1>1, <1>2, <1>3, <1>4

\* The Job and its ConfigMap share one base, every name is one the API server
\* takes, and executions with different ids share none (NamesAgree), for every
\* job id of any length and any characters: the cuts of buildK8sNameWithReserve
\* only ever take from the job id.
THEOREM ObjectsNamesAgree == Spec => []NamesAgree
<1>0. /\ IsSeq(App) /\ specSuffix \in NameSuffixes /\ modelRefSuffix \in NameSuffixes /\ netpolSuffix \in NameSuffixes
  <2>1. App \in Seq({"e", "v"})
    BY DEF App
  <2>2. QED
    BY <2>1, SeqOfRange DEF IsSeq, NameSuffixes
<1>1. ASSUME NEW id \in JobIDs, NEW g \in GUIDs
      PROVE  /\ NameOf(id, g, 2) = NameOf(id, g, 1) \o specSuffix
             /\ \A i \in 1..4 : IsDNSLabel(NameOf(id, g, i))
  <2>1. IsSeq(id)
    BY IdsAssumption, StringSeq
  <2>2. NameOf(id, g, 2) = NameOf(id, g, 1) \o specSuffix
    <3> DEFINE d == HeadOf(id, Room(g, Len(specSuffix)))
    <3>1. NameOf(id, g, 1) = Composed(d, g, <<>>) /\ NameOf(id, g, 2) = Composed(d, g, specSuffix)
      BY <1>0, <2>1, GuidFits, NameShape DEF NameOf
    <3>2. Composed(d, g, <<>>) = d \o <<Dash>> \o g
      <4>1. IsSeq(d) /\ IsSeq(g)
        <5>1. Fits(g, specSuffix, Len(specSuffix))
          BY <1>0, GuidFits
        <5>2. /\ Len(g) \in Nat /\ Len(specSuffix) \in Nat /\ maxK8sNameLength \in Nat /\ IsSeq(g)
              /\ Len(g) + Len(specSuffix) + 2 <= maxK8sNameLength
          BY <5>1, SeqFacts, NamesAssumption DEF Fits, Label, Clean
        <5>3. Room(g, Len(specSuffix)) \in Nat /\ Room(g, Len(specSuffix)) >= 1
          BY <5>2 DEF Room
        <5>4. QED
          BY <2>1, <5>2, <5>3, HeadLabel DEF Label, Clean
      <4> HIDE DEF d
      <4>2. IsSeq(d \o <<Dash>> \o g)
        BY <4>1, ShortRange, Concat
      <4>3. QED
        BY <4>2 DEF Composed, IsSeq
    <3>3. QED
      BY <3>1, <3>2 DEF Composed
  <2>3. /\ IsDNSLabel(NameOf(id, g, 1)) /\ IsDNSLabel(NameOf(id, g, 2))
        /\ IsDNSLabel(NameOf(id, g, 3)) /\ IsDNSLabel(NameOf(id, g, 4))
    BY <1>0, <2>1, GuidFits, SuffixEnding, EmptyEnding, NameLabel DEF NameOf
  <2>4. \A i \in 1..4 : i = 1 \/ i = 2 \/ i = 3 \/ i = 4
    OBVIOUS
  <2>5. QED
    BY <2>2, <2>3, <2>4
<1>2. ASSUME NEW id \in JobIDs, NEW jd \in JobIDs, NEW g \in GUIDs, NEW h \in GUIDs, g # h,
             NEW i \in 1..4
      PROVE  NameOf(id, g, i) # NameOf(jd, h, i)
  <2>1. IsSeq(id) /\ IsSeq(jd) /\ Len(g) = Len(h)
    BY IdsAssumption, StringSeq
  <2>2. i = 1 \/ i = 2 \/ i = 3 \/ i = 4
    OBVIOUS
  <2>3. CASE i = 1
    BY <1>0, <1>2, <2>1, <2>3, GuidFits, NamesDiffer DEF NameOf
  <2>4. CASE i = 2
    BY <1>0, <1>2, <2>1, <2>4, GuidFits, NamesDiffer DEF NameOf
  <2>5. CASE i = 3
    BY <1>0, <1>2, <2>1, <2>5, GuidFits, NamesDiffer DEF NameOf
  <2>6. CASE i = 4
    BY <1>0, <1>2, <2>1, <2>6, GuidFits, NamesDiffer DEF NameOf
  <2>7. QED
    BY <2>2, <2>3, <2>4, <2>5, <2>6
<1>3. PodInv => NamesAgree
  <2> SUFFICES ASSUME PodInv, pod # NoConfig PROVE NamesAgree
    BY DEF NamesAgree, Built
  <2>1. /\ pod = buildJob(cfg, req) /\ req.id \in JobIDs /\ req.guid \in GUIDs
    BY IdsAssumption DEF PodInv
  <2>2. pod.names = objectNames(req.id, req.guid)
    BY <2>1 DEF buildJob
  <2>3. DOMAIN pod.names = 1..4 /\ \A i \in 1..4 : pod.names[i] = NameOf(req.id, req.guid, i)
    BY <2>2, ObjectNames
  <2>4. /\ pod.names[2] = pod.names[1] \o specSuffix
        /\ \A i \in DOMAIN pod.names : IsDNSLabel(pod.names[i])
    <3>1. /\ NameOf(req.id, req.guid, 2) = NameOf(req.id, req.guid, 1) \o specSuffix
          /\ \A i \in 1..4 : IsDNSLabel(NameOf(req.id, req.guid, i))
      BY <1>1, <2>1
    <3>2. 1 \in 1..4 /\ 2 \in 1..4
      OBVIOUS
    <3>3. pod.names[1] = NameOf(req.id, req.guid, 1) /\ pod.names[2] = NameOf(req.id, req.guid, 2)
      BY <2>3, <3>2
    <3>4. pod.names[2] = pod.names[1] \o specSuffix
      BY <3>1, <3>3
    <3>5. ASSUME NEW i \in DOMAIN pod.names PROVE IsDNSLabel(pod.names[i])
      BY <2>3, <3>1, <3>5
    <3>6. QED
      BY <3>4, <3>5
  <2>5. ASSUME NEW x \in AllNames, x.guid # req.guid, NEW i \in DOMAIN pod.names
        PROVE  pod.names[i] # x.names[i]
    <3>1. PICK id \in JobIDs, g \in GUIDs : x = [guid |-> g, names |-> objectNames(id, g)]
      BY <2>5 DEF AllNames
    <3>2. x.guid = g /\ i \in 1..4 /\ x.names[i] = NameOf(id, g, i)
      BY <2>3, <2>5, <3>1, ObjectNames
    <3>3. QED
      BY <1>2, <2>1, <2>3, <2>5, <3>2
  <2>6. QED
    BY <2>4, <2>5 DEF NamesAgree
<1>4. QED
  BY <1>3, PodInvariant, PTL
=============================================================================
