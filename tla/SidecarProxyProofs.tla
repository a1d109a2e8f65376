------------------------- MODULE SidecarProxyProofs -------------------------
(* Proofs about the sidecar, for every number of requests, paths, Secrets,     *)
(* settings and tokens, and for every time to live and time a request is held. *)
EXTENDS SidecarProxy, TLAPS

SA     == Range(SaTokens)
MLflow == Range(MLflowTokens)
OCI    == Range(OciTokens)
Routes == {"eval-hub", "mlflow", "oci", "model"}

\* The tokens that the cache of a target may hold.
SlotTokens(s) == IF s = "mlflow" THEN MLflow
                 ELSE IF s = "oci" THEN OCI
                 ELSE IF s = "eval-hub" THEN SA \cup {StaticToken} ELSE SA

-----------------------------------------------------------------------------
(* Start and Shutdown                                                          *)

\* Whoever may listen has stored its server; once Shutdown has looked for it the
\* server is closed, or Start will find the context cancelled.
LifecycleOK ==
  /\ main = [pc |-> main.pc, cancelled |-> main.cancelled, stored |-> main.stored, shut |-> main.shut]
  /\ start \in {"setup", "store", "listen", "serving", "closed", "failed"}
  /\ start \in {"listen", "serving"} => main.stored
  /\ start \in {"store", "listen", "serving", "closed"} => NewProxies
  /\ main.pc \notin {"wait", "exited"} => main.cancelled
  /\ main.pc \in {"drain", "otel", "exited"} =>
       /\ start # "serving"
       /\ start = "listen" => main.shut
       /\ start \in {"setup", "store"} => main.cancelled
  /\ settings \in Settings

LEMMA LifecycleInit == Init => LifecycleOK
  BY DEF Init, LifecycleOK

\* Every step keeps it; most do not touch Start and main.
LEMMA LifecycleStep == LifecycleOK /\ [Next]_vars => LifecycleOK'
<1> SUFFICES ASSUME LifecycleOK, [Next]_vars PROVE LifecycleOK'
  OBVIOUS
<1> USE DEF LifecycleOK, NewProxies
<1>1. ASSUME UNCHANGED <<settings, start, main>> PROVE LifecycleOK'
  BY <1>1
<1>2. CASE setupRoutes
  BY <1>2 DEF setupRoutes, Lifecycle
<1>3. CASE startUpFailed
  BY <1>3 DEF startUpFailed, Lifecycle
<1>4. CASE StoreServer
  BY <1>4 DEF StoreServer, Lifecycle
<1>5. CASE ListenAndServe
  BY <1>5 DEF ListenAndServe, Lifecycle
<1>6. CASE Shutdown
  BY <1>6 DEF Shutdown, Lifecycle
<1>7. CASE Drained
  BY <1>7 DEF Drained, Lifecycle
<1>8. CASE sweep \/ RemoveJob \/ Tick \/ \E f \in TokenFiles : Rotate(f)
  BY <1>1, <1>8 DEF sweep, RemoveJob, Tick, Rotate
<1>9. ASSUME NEW r \in Reqs, HandleProxyCall(r) \/ LocalModelCall(r) PROVE LifecycleOK'
  BY <1>1, <1>9 DEF HandleProxyCall, LocalModelCall
<1>10. ASSUME NEW r \in Reqs, NEW next, Step(r, next) PROVE LifecycleOK'
  BY <1>1, <1>10 DEF Step
<1>11. ASSUME NEW r \in Reqs,
              CacheLookup(r) \/ ReadToken(r) \/ StoreToken(r) \/ initiateChallenge(r)
              \/ createNewToken(r) \/ SetToken(r) \/ GetToken(r) \/ ModifyResponse(r)
       PROVE  LifecycleOK'
  BY <1>10, <1>11 DEF CacheLookup, ReadToken, StoreToken, initiateChallenge, createNewToken,
                      SetToken, GetToken, ModifyResponse
<1>12. CASE UNCHANGED vars
  BY <1>1, <1>12 DEF vars
<1>13. QED
  BY <1>2, <1>3, <1>4, <1>5, <1>6, <1>7, <1>8, <1>9, <1>11, <1>12 DEF Next

LEMMA LifecycleInvariant == Spec => []LifecycleOK
  BY LifecycleInit, LifecycleStep, PTL DEF Spec

\* After Shutdown nothing listens, whenever the signal came: before setup, between
\* the storing of the server and its start, or while it served.
THEOREM SidecarNoListener == Spec => []NoListenerAfterShutdown
<1>1. LifecycleOK => NoListenerAfterShutdown
  BY DEF LifecycleOK, NoListenerAfterShutdown
<1>2. QED
  BY <1>1, LifecycleInvariant, PTL

\* The server's rules for a path agree with the sidecar's once the sidecar has its
\* proxies, for every path and repository: a registry without credentials, the
\* one setting they read differently, keeps the sidecar from starting.
LEMMA RulesAgree ==
  ASSUME NEW p, NEW s, ~s.local, s.oci \in {"off", "ok"}
  PROVE  resolveSidecarURLTarget(p, s) = parseProxyCall(p, s)
<1>1. ociRouteMatch(p) <=> ociPathMatchesRepository(p)
  BY DEF ociRouteMatch, ociPathMatchesRepository
<1>2. CASE IsEvalHubPath(p)
  BY <1>2 DEF resolveSidecarURLTarget, sidecarURLTargets, parseProxyCall
<1>3. CASE ~IsEvalHubPath(p) /\ isMLflowProxyPath(p)
  BY <1>3 DEF resolveSidecarURLTarget, sidecarURLTargets, parseProxyCall
<1>4. CASE ~IsEvalHubPath(p) /\ ~isMLflowProxyPath(p)
  BY <1>1, <1>4 DEF resolveSidecarURLTarget, sidecarURLTargets, parseProxyCall
<1>5. QED
  BY <1>2, <1>3, <1>4

\* An error message names the target the request was sent to, or none.
THEOREM SidecarMessageNamesTarget == Spec => []MessageNamesTarget
<1>1. LifecycleOK => MessageNamesTarget
  BY RulesAgree, SettingsAssumption DEF LifecycleOK, NewProxies, MessageNamesTarget
<1>2. QED
  BY <1>1, LifecycleInvariant, PTL

-----------------------------------------------------------------------------
(* Tokens and the requests that carry them                                     *)

\* A credential and a target it may be sent to.
Home(t, c) ==
  /\ c \in MLflow => t = "mlflow"
  /\ c \in OCI => t = "oci"
  /\ c \in SA => t \in {"eval-hub"} \cup Hosts
  /\ c = StaticToken => t = "eval-hub"
  /\ c \in SecretTokens => \E k \in DOMAIN secret : secret[k] = c /\ t = resolveUpstreamURL(k, secret)
  /\ c # "ref"

FilesOK ==
  /\ file \in [TokenFiles -> Nat] /\ replaced \in [TokenFiles -> Seq(Nat)] /\ issued \in Seq(Nat)
  /\ \A f \in TokenFiles : /\ file[f] <= Len(Versions(f))
                           /\ Len(replaced[f]) = IF file[f] = 0 THEN 0 ELSE file[f] - 1
  /\ Len(issued) <= Len(OciTokens)
  /\ secret \in Secrets

CachesOK ==
  /\ cache = [s \in Slots |-> cache[s]]
  /\ \A s \in Slots : cache[s] # None => cache[s].token \in SlotTokens(s) /\ cache[s].expires \in Nat
  /\ producer \in OCI \cup {None}

\* Each request has come from its route to the cache of its target, and carries a
\* token of that target.
Stages == {"routed", "read", "store", "challenge", "token", "set", "get"}
RequestOK(x) ==
  /\ x = [pc |-> x.pc, target |-> x.target, slot |-> x.slot, auth |-> x.auth,
          token |-> x.token, start |-> x.start]
  /\ x.pc \in {"idle", "send"} \cup Stages
  /\ x.pc \in Stages => x.target \in Routes /\ x.slot = getTokenPointer(x.target)
  /\ x.pc = "read" => x.target # "oci"
  /\ x.pc \in {"challenge", "token", "set", "get"} => x.target = "oci"
  /\ x.pc = "store" => x.token \in SlotTokens(x.slot) \cup {None}
  /\ x.pc = "set" => x.token \in OCI
  /\ x.pc = "send" => Home(x.target, x.token)
RequestsOK == req = [r \in Reqs |-> req[r]] /\ \A r \in Reqs : RequestOK(req[r])

HomeInv == clock \in Nat /\ FilesOK /\ CachesOK /\ RequestsOK

\* The values that are no token of an issuer.
Others == Tokens \cup Hosts \cup {None, Empty, "explicit"}

LEMMA IssuersApart ==
  /\ SA \cap MLflow = {} /\ SA \cap OCI = {} /\ MLflow \cap OCI = {}
  /\ StaticToken \notin SA \cup MLflow \cup OCI
  /\ \A c \in Others : c \notin SA \cup MLflow \cup OCI \cup {StaticToken} /\ c # "ref"
  /\ "ref" \notin SA \cup MLflow \cup OCI \cup {StaticToken}
  /\ {None, Empty, "explicit"} \cap (Tokens \cup Hosts) = {}
<1>1. /\ Issuers[1] = SA /\ Issuers[2] = MLflow /\ Issuers[3] = OCI
      /\ Issuers[4] = {StaticToken} /\ Issuers[5] = Tokens \cup Hosts
      /\ Issuers[6] = {None, Empty, "explicit", "ref"}
  BY DEF Issuers, SA, MLflow, OCI
<1>2. /\ Issuers[1] \cap Issuers[2] = {} /\ Issuers[1] \cap Issuers[3] = {} /\ Issuers[1] \cap Issuers[4] = {}
      /\ Issuers[1] \cap Issuers[5] = {} /\ Issuers[1] \cap Issuers[6] = {} /\ Issuers[2] \cap Issuers[3] = {}
      /\ Issuers[2] \cap Issuers[4] = {} /\ Issuers[2] \cap Issuers[5] = {} /\ Issuers[2] \cap Issuers[6] = {}
      /\ Issuers[3] \cap Issuers[4] = {} /\ Issuers[3] \cap Issuers[5] = {} /\ Issuers[3] \cap Issuers[6] = {}
      /\ Issuers[4] \cap Issuers[5] = {} /\ Issuers[4] \cap Issuers[6] = {} /\ Issuers[5] \cap Issuers[6] = {}
  <2> HIDE DEF Issuers
  <2>1. QED
    BY TokensAssumption
<1> HIDE DEF Issuers, SA, MLflow, OCI
<1>3. SA \cap MLflow = {} /\ SA \cap OCI = {} /\ MLflow \cap OCI = {}
  BY <1>1, <1>2
<1>4. StaticToken \notin SA \cup MLflow \cup OCI
  BY <1>1, <1>2
<1>5. {None, Empty, "explicit", "ref"} \cap (SA \cup MLflow \cup OCI \cup {StaticToken} \cup Tokens \cup Hosts) = {}
  BY <1>1, <1>2
<1>6. (Tokens \cup Hosts) \cap (SA \cup MLflow \cup OCI \cup {StaticToken}) = {}
  BY <1>1, <1>2
<1>7. Empty # "ref" /\ "explicit" # "ref" /\ None # "ref"
  BY TokensAssumption DEF Empty
<1>8. QED
  BY <1>3, <1>4, <1>5, <1>6, <1>7 DEF Others

\* Versions of a token: which values they are, and that no two are the same.
LEMMA VersionsOK ==
  /\ \A f \in TokenFiles :
       /\ Len(Versions(f)) \in Nat \ {0}
       /\ \A v \in 1..Len(Versions(f)) : Versions(f)[v] \in IF f = "sa" THEN SA ELSE MLflow
       /\ \A v, w \in 1..Len(Versions(f)) : Versions(f)[v] = Versions(f)[w] => v = w
  /\ Len(OciTokens) \in Nat
  /\ \A v \in 1..Len(OciTokens) : OciTokens[v] \in OCI
  /\ \A v, w \in 1..Len(OciTokens) : OciTokens[v] = OciTokens[w] => v = w
<1>1. ASSUME NEW s \in {SaTokens, MLflowTokens, OciTokens}
      PROVE  /\ Len(s) \in Nat /\ (s # <<>> => Len(s) > 0)
             /\ \A v \in 1..Len(s) : s[v] \in Range(s)
             /\ \A v, w \in 1..Len(s) : s[v] = s[w] => v = w
  <2>1. s \in Seq(Range(s)) /\ IsInjective(s)
    BY TokensAssumption
  <2>2. DOMAIN s = 1..Len(s) /\ Len(s) \in Nat
    BY <2>1
  <2>3. QED
    BY <2>1, <2>2 DEF Range, IsInjective
<1>2. QED
  BY <1>1, TokensAssumption DEF Versions, TokenFiles, SA, MLflow, OCI

LEMMA HomeInit == Init => HomeInv
<1> SUFFICES ASSUME Init PROVE HomeInv
  OBVIOUS
<1>1. FilesOK
  BY VersionsOK DEF Init, FilesOK
<1>2. CachesOK
  BY DEF Init, CachesOK
<1>3. RequestsOK
  BY DEF Init, RequestsOK, RequestOK, Idle, Stages
<1>4. QED
  BY <1>1, <1>2, <1>3 DEF HomeInv, Init

\* A credential for a model is one of its own key, or the pod's token.
LEMMA CredentialHome ==
  ASSUME FilesOK, NEW a, NEW t \in SA \cup {None}, ModelCredential(a, t).ok
  PROVE  LET c == ModelCredential(a, t)
         IN  Home(c.host, c.token) /\ c.token \in {t} \cup Others
<1> DEFINE c == ModelCredential(a, t)
<1>1. IsSecret(secret)
  BY SettingsAssumption DEF FilesOK
<1>2. \A k : resolveUpstreamURL(k, secret) \in Hosts
  BY SettingsAssumption DEF resolveUpstreamURL
<1>3. \A x : x \in SecretTokens <=> \E k \in DOMAIN secret : secret[k] = x /\ x # Empty
  BY DEF SecretTokens
<1>4. \A x \in SecretTokens : x \in Tokens \cup Hosts
  BY <1>1, <1>3 DEF IsSecret
<1>5. ASSUME NEW h \in Hosts PROVE Home(h, t) /\ Home(h, "explicit") /\ Home(h, Empty)
  <2>1. \A x \in {None, "explicit", Empty} : Home(h, x)
    BY <1>4, IssuersApart DEF Home, Others
  <2>2. t \in SA => Home(h, t)
    BY <1>4, <1>5, IssuersApart DEF Home, Others
  <2>3. QED
    BY <2>1, <2>2
<1>6. CASE a.kind = "ref"
  <2> DEFINE s == IF t = None THEN Empty ELSE t
  <2>1. c = resolveModelCredential(a.key, secret, s)
    BY <1>6 DEF ModelCredential
  <2>2. /\ a.key \in DOMAIN secret
        /\ c.host = resolveUpstreamURL(a.key, secret) /\ c.token # Empty
        /\ c.token = IF a.key.class = "sa" /\ secret[a.key] = Empty THEN s ELSE secret[a.key]
    BY <2>1 DEF resolveModelCredential, Unresolved
  <2>3. CASE c.token = secret[a.key]
    <3>1. c.token \in SecretTokens /\ c.token \in Tokens \cup Hosts
      BY <1>3, <1>4, <2>2, <2>3
    <3>2. Home(c.host, c.token)
      BY <2>2, <2>3, <3>1, IssuersApart DEF Home, Others
    <3>3. QED
      BY <3>1, <3>2 DEF Others
  <2>4. CASE c.token = s
    <3>1. t # None /\ c.token = t
      BY <2>2, <2>4
    <3>2. QED
      BY <1>2, <1>5, <2>2, <3>1
  <2>5. QED
    BY <2>2, <2>3, <2>4
<1>7. CASE a.kind \in {"explicit", "empty"}
  <2>1. c.host = DefaultHost /\ c.token \in {"explicit", Empty}
    BY <1>7 DEF ModelCredential, Empty
  <2>2. QED
    BY <2>1, <1>5, SettingsAssumption DEF Others
<1>8. CASE a.kind \notin {"ref", "explicit", "empty"}
  <2>1. c.host = DefaultHost /\ c.token = t
    BY <1>8 DEF ModelCredential
  <2>2. QED
    BY <2>1, <1>5, SettingsAssumption
<1>9. QED
  BY <1>6, <1>7, <1>8

\* A request at another stage, with another token.
LEMMA HoldingOK ==
  ASSUME NEW r \in Reqs, RequestOK(req[r])
  PROVE  \A pc, t :
           Holding(r, pc, t) = [pc |-> pc, target |-> req[r].target, slot |-> req[r].slot,
                                auth |-> req[r].auth, token |-> t, start |-> req[r].start]
<1> SUFFICES ASSUME NEW pc, NEW t
             PROVE  Holding(r, pc, t) = [pc |-> pc, target |-> req[r].target, slot |-> req[r].slot,
                                         auth |-> req[r].auth, token |-> t, start |-> req[r].start]
  OBVIOUS
<1>1. PICK x : x = req[r]
  OBVIOUS
<1>2. x = [pc |-> x.pc, target |-> x.target, slot |-> x.slot, auth |-> x.auth,
           token |-> x.token, start |-> x.start]
  BY <1>1 DEF RequestOK
<1>3. PICK y : y = [x EXCEPT !.pc = pc]
  OBVIOUS
<1>4. y = [pc |-> pc, target |-> x.target, slot |-> x.slot, auth |-> x.auth,
           token |-> x.token, start |-> x.start]
  BY <1>2, <1>3
<1>5. [y EXCEPT !.token = t] = [pc |-> pc, target |-> x.target, slot |-> x.slot, auth |-> x.auth,
                                token |-> t, start |-> x.start]
  BY <1>4
<1>6. Holding(r, pc, t) = [y EXCEPT !.token = t]
  BY <1>1, <1>3 DEF Holding
<1>7. QED
  BY <1>1, <1>5, <1>6

\* A token of the target's own cache may be sent to the target.
LEMMA ResolvedHome ==
  ASSUME FilesOK, NEW r \in Reqs, RequestOK(req[r]), req[r].pc \in Stages,
         NEW t \in SlotTokens(req[r].slot) \cup {None}
  PROVE  /\ RequestOK(Resolved(r, t))
         /\ \/ Resolved(r, t) = Idle
            \/ /\ Resolved(r, t).pc = "send" /\ Resolved(r, t).start = req[r].start
               /\ Resolved(r, t).token \in {t} \cup Others
<1> DEFINE x == req[r]
<1>1. x.target \in Routes /\ x.slot = getTokenPointer(x.target)
  BY DEF RequestOK
<1>2. x = [pc |-> x.pc, target |-> x.target, slot |-> x.slot, auth |-> x.auth,
           token |-> x.token, start |-> x.start]
  BY DEF RequestOK
<1>3. CASE x.target # "model"
  <2>1. Resolved(r, t) = [pc |-> "send", target |-> x.target, slot |-> x.slot, auth |-> x.auth,
                          token |-> t, start |-> x.start]
    BY <1>3, HoldingOK DEF Resolved
  <2>2. \A y \in SecretTokens : y \in Tokens \cup Hosts
    BY SettingsAssumption DEF FilesOK, SecretTokens, IsSecret
  <2>3. CASE t = None
    <3>1. Home(x.target, t)
      BY <2>2, <2>3, IssuersApart DEF Home, Others
    <3>2. QED
      BY <2>1, <3>1 DEF RequestOK, Stages
  <2>4. CASE t # None
    <3>1. \/ x.target = "eval-hub" /\ t \in SA \cup {StaticToken}
          \/ x.target = "mlflow" /\ t \in MLflow
          \/ x.target = "oci" /\ t \in OCI
      BY <1>1, <1>3, <2>4 DEF Routes, getTokenPointer, SlotTokens
    <3>2. t \notin SecretTokens /\ t # "ref"
      BY <2>2, <3>1, IssuersApart DEF Others
    <3>3. Home(x.target, t)
      BY <3>1, <3>2, IssuersApart DEF Home
    <3>4. QED
      BY <2>1, <3>3 DEF RequestOK, Stages
  <2>5. QED
    BY <2>3, <2>4
<1>4. CASE x.target = "model"
  <2> DEFINE c == ModelCredential(x.auth, t)
  <2>1. t \in SA \cup {None}
    BY <1>1, <1>4 DEF getTokenPointer, SlotTokens
  <2>2. CASE c.ok
    <3>1. Resolved(r, t) = [pc |-> "send", target |-> c.host, slot |-> x.slot, auth |-> x.auth,
                            token |-> c.token, start |-> x.start]
      BY <1>2, <1>4, <2>2 DEF Resolved
    <3>2. Home(c.host, c.token) /\ c.token \in {t} \cup Others
      BY <2>1, <2>2, CredentialHome
    <3> HIDE DEF c
    <3>3. QED
      BY <3>1, <3>2 DEF RequestOK, Stages
  <2>3. CASE ~c.ok
    <3>1. Resolved(r, t) = Idle
      BY <1>4, <2>3 DEF Resolved
    <3>2. QED
      BY <3>1 DEF RequestOK, Idle, Stages
  <2>4. QED
    BY <2>2, <2>3
<1>5. QED
  BY <1>3, <1>4

\* Only a rotation changes the files, and only the registry issues tokens.
LEMMA FilesStep == clock \in Nat /\ FilesOK /\ [Next]_vars => FilesOK'
<1> SUFFICES ASSUME clock \in Nat, FilesOK, [Next]_vars PROVE FilesOK'
  OBVIOUS
<1> USE DEF FilesOK
<1>1. ASSUME UNCHANGED <<secret, file, replaced, issued>> PROVE FilesOK'
  BY <1>1
<1>2. ASSUME UNCHANGED <<secret, file, replaced>>, issued' = Append(issued, clock), Len(issued) < Len(OciTokens)
      PROVE  FilesOK'
  BY <1>2, VersionsOK
<1>3. CASE setupRoutes \/ startUpFailed \/ StoreServer \/ ListenAndServe \/ Shutdown \/ Drained
  BY <1>1, <1>3 DEF setupRoutes, startUpFailed, StoreServer, ListenAndServe, Shutdown, Drained,
                    Lifecycle, tokens
<1>4. CASE sweep \/ RemoveJob \/ Tick
  BY <1>1, <1>4 DEF sweep, RemoveJob, Tick, tokens
<1>5. ASSUME NEW f \in TokenFiles, Rotate(f) PROVE FilesOK'
  BY <1>5, VersionsOK DEF Rotate
<1>6. ASSUME NEW r \in Reqs, HandleProxyCall(r) \/ LocalModelCall(r) PROVE FilesOK'
  BY <1>1, <1>6 DEF HandleProxyCall, LocalModelCall, tokens
<1>7. ASSUME NEW r \in Reqs,
             CacheLookup(r) \/ ReadToken(r) \/ StoreToken(r) \/ initiateChallenge(r)
             \/ SetToken(r) \/ GetToken(r)
      PROVE  FilesOK'
  BY <1>1, <1>7 DEF CacheLookup, ReadToken, StoreToken, initiateChallenge, SetToken, GetToken, Step
<1>8. ASSUME NEW r \in Reqs, createNewToken(r) \/ ModifyResponse(r) PROVE FilesOK'
  BY <1>1, <1>2, <1>8 DEF createNewToken, ModifyResponse, Step
<1>9. CASE UNCHANGED vars
  BY <1>1, <1>9 DEF vars, tokens
<1>10. QED
  BY <1>3, <1>4, <1>5, <1>6, <1>7, <1>8, <1>9 DEF Next


\* The caches get tokens of their own target only.
LEMMA CachesStep == HomeInv /\ [Next]_vars => CachesOK'
<1> SUFFICES ASSUME HomeInv, [Next]_vars PROVE CachesOK'
  OBVIOUS
<1> USE DEF CachesOK
<1>0. clock \in Nat /\ FilesOK /\ CachesOK /\ RequestsOK /\ \A r \in Reqs : RequestOK(req[r])
  BY DEF HomeInv, RequestsOK
<1>1. ASSUME UNCHANGED <<cache, producer>> PROVE CachesOK'
  BY <1>0, <1>1
<1>2. ASSUME NEW s \in Slots, NEW t \in SlotTokens(s), cache' = [cache EXCEPT ![s] = Entry(t)],
             producer' \in OCI \cup {None}
      PROVE  CachesOK'
  <2>1. Entry(t).token = t /\ Entry(t).expires \in Nat
    BY <1>0, TimeAssumption DEF Entry
  <2>2. \A z \in Slots : cache'[z] = IF z = s THEN Entry(t) ELSE cache[z]
    BY <1>0, <1>2
  <2>3. cache' = [z \in Slots |-> cache'[z]]
    BY <1>0, <1>2
  <2> HIDE DEF SlotTokens
  <2>4. QED
    BY <1>0, <1>2, <2>1, <2>2, <2>3
<1>3. CASE setupRoutes \/ startUpFailed \/ StoreServer \/ ListenAndServe \/ Shutdown \/ Drained
  BY <1>1, <1>3 DEF setupRoutes, startUpFailed, StoreServer, ListenAndServe, Shutdown, Drained,
                    Lifecycle, tokens
<1>4. CASE sweep \/ RemoveJob
  BY <1>1, <1>4 DEF sweep, RemoveJob, tokens
<1>5. CASE Tick
  BY <1>0, <1>5 DEF Tick
<1>6. ASSUME NEW f \in TokenFiles, Rotate(f) PROVE CachesOK'
  BY <1>1, <1>6 DEF Rotate
<1>7. ASSUME NEW r \in Reqs,
             HandleProxyCall(r) \/ LocalModelCall(r) \/ CacheLookup(r) \/ ReadToken(r)
             \/ initiateChallenge(r) \/ createNewToken(r) \/ GetToken(r)
      PROVE  CachesOK'
  BY <1>1, <1>7 DEF HandleProxyCall, LocalModelCall, tokens, CacheLookup, CachedAfterHit, ReadToken,
                    initiateChallenge, createNewToken, GetToken
<1>8. ASSUME NEW r \in Reqs, StoreToken(r) PROVE CachesOK'
  <2>1. /\ req[r].slot \in Slots
        /\ req[r].token \in SlotTokens(req[r].slot) \cup {None}
    BY <1>0, <1>8 DEF StoreToken, RequestOK, Stages, Routes, getTokenPointer, Slots
  <2>2. CASE req[r].token = None
    BY <1>1, <1>8, <2>2 DEF StoreToken
  <2>3. CASE req[r].token # None
    <3>1. cache' = [cache EXCEPT ![req[r].slot] = Entry(req[r].token)] /\ producer' = producer
      BY <1>8, <2>3 DEF StoreToken
    <3>2. req[r].token \in SlotTokens(req[r].slot)
      BY <2>1, <2>3
    <3>3. producer' \in OCI \cup {None}
      BY <1>0, <3>1
    <3>4. QED
      BY <1>2, <2>1, <3>1, <3>2, <3>3
  <2>4. QED
    BY <2>2, <2>3
<1>9. ASSUME NEW r \in Reqs, SetToken(r) PROVE CachesOK'
  BY <1>0, <1>9 DEF SetToken, RequestOK
<1>10. ASSUME NEW r \in Reqs, ModifyResponse(r) PROVE CachesOK'
  <2>1. CASE UNCHANGED <<issued, cache, producer>>
    BY <1>1, <2>1
  <2>2. CASE /\ Len(issued) < Len(OciTokens)
             /\ producer' = OciTokens[Len(issued) + 1]
             /\ cache' = [cache EXCEPT !["oci"] = Entry(OciTokens[Len(issued) + 1])]
    <3>1. OciTokens[Len(issued) + 1] \in OCI
      BY <1>0, <2>2, VersionsOK DEF FilesOK
    <3>2. "oci" \in Slots /\ SlotTokens("oci") = OCI
      BY DEF Slots, SlotTokens
    <3>3. QED
      BY <1>2, <2>2, <3>1, <3>2
  <2>3. QED
    BY <1>10, <2>1, <2>2 DEF ModifyResponse
<1>11. CASE UNCHANGED vars
  BY <1>1, <1>11 DEF vars, tokens
<1>12. QED
  BY <1>3, <1>4, <1>5, <1>6, <1>7, <1>8, <1>9, <1>10, <1>11 DEF Next

\* What the registry issues next is a token of the registry.
LEMMA NextToken ==
  ASSUME FilesOK, Len(issued) < Len(OciTokens)
  PROVE  Len(issued) + 1 \in 1..Len(OciTokens) /\ OciTokens[Len(issued) + 1] \in OCI
<1>1. Len(issued) \in Nat /\ Len(OciTokens) \in Nat
  BY VersionsOK DEF FilesOK
<1>2. QED
  BY <1>1, VersionsOK

\* One request moves on to x.
LEMMA RequestMoves ==
  ASSUME RequestsOK, secret' = secret, NEW r \in Reqs, NEW x, RequestOK(x),
         req' = [req EXCEPT ![r] = x]
  PROVE  RequestsOK'
<1>1. \A z \in Reqs : req'[z] = IF z = r THEN x ELSE req[z]
  BY DEF RequestsOK
<1>2. req' = [z \in Reqs |-> req'[z]]
  BY DEF RequestsOK
<1>3. ASSUME NEW z \in Reqs PROVE RequestOK(req[z])'
  <2>1. RequestOK(req'[z])
    BY <1>1 DEF RequestsOK
  <2>2. QED
    BY <2>1 DEF RequestOK, Home, SecretTokens
<1>4. QED
  BY <1>2, <1>3 DEF RequestsOK

LEMMA IdleOK == RequestOK(Idle)
  BY DEF RequestOK, Idle, Stages

\* The sidecar sends a request to one of its four routes or nowhere.
LEMMA RoutesOK == \A p, s : parseProxyCall(p, s) \in Routes \cup {NoTarget}
  BY DEF parseProxyCall, Routes

\* What each request carries after a step is again of its target.
LEMMA RequestsStep == HomeInv /\ [Next]_vars => RequestsOK'
<1> SUFFICES ASSUME HomeInv, [Next]_vars PROVE RequestsOK'
  OBVIOUS
<1>0. clock \in Nat /\ FilesOK /\ CachesOK /\ RequestsOK /\ \A r \in Reqs : RequestOK(req[r])
  BY DEF HomeInv, RequestsOK
<1>1. ASSUME UNCHANGED <<req, secret>> PROVE RequestsOK'
  BY <1>0, <1>1 DEF RequestsOK, RequestOK, Home, SecretTokens
<1>2. ASSUME NEW r \in Reqs, NEW x, RequestOK(x), Step(r, x) PROVE RequestsOK'
  BY <1>0, <1>2, RequestMoves DEF Step
<1>3. CASE setupRoutes \/ startUpFailed \/ StoreServer \/ ListenAndServe \/ Shutdown
  BY <1>1, <1>3 DEF setupRoutes, startUpFailed, StoreServer, ListenAndServe, Shutdown, Lifecycle
<1>4. CASE Drained
  BY <1>4, IdleOK DEF Drained, RequestsOK, RequestOK, Idle, Stages
<1>5. CASE sweep \/ RemoveJob \/ Tick \/ \E f \in TokenFiles : Rotate(f)
  BY <1>1, <1>5 DEF sweep, RemoveJob, Tick, Rotate
<1>6. ASSUME NEW r \in Reqs, HandleProxyCall(r) PROVE RequestsOK'
  <2>1. PICK t \in {parseProxyCall(p, settings) : p \in Paths} \ {NoTarget} :
          \E a \in IF t = "model" THEN Auths ELSE {NoAuth} :
            req' = [req EXCEPT ![r] = Accepted("routed", t, getTokenPointer(t), a)]
    BY <1>6 DEF HandleProxyCall
  <2>2. PICK a : req' = [req EXCEPT ![r] = Accepted("routed", t, getTokenPointer(t), a)]
    BY <2>1
  <2>3. t \in Routes
    BY <2>1, RoutesOK
  <2>4. RequestOK(Accepted("routed", t, getTokenPointer(t), a))
    BY <2>3 DEF RequestOK, Accepted, Stages
  <2>5. QED
    BY <1>0, <1>6, <2>2, <2>4, RequestMoves DEF HandleProxyCall
<1>7. ASSUME NEW r \in Reqs, LocalModelCall(r) PROVE RequestsOK'
  <2>1. PICK j \in Jobs : req' = [req EXCEPT ![r] = Accepted("send", j, None, NoAuth)]
    BY <1>7 DEF LocalModelCall
  <2>2. Home(j, None)
    <3>1. \A y \in SecretTokens : y \in Tokens \cup Hosts
      BY <1>0, SettingsAssumption DEF FilesOK, SecretTokens, IsSecret
    <3>2. QED
      BY <3>1, IssuersApart DEF Home, Others
  <2>3. RequestOK(Accepted("send", j, None, NoAuth))
    BY <2>2 DEF RequestOK, Accepted, Stages
  <2>4. QED
    BY <1>0, <1>7, <2>1, <2>3, RequestMoves DEF LocalModelCall
<1>8. ASSUME NEW r \in Reqs, req[r].pc \in Stages, NEW t \in SlotTokens(req[r].slot) \cup {None},
             Step(r, Resolved(r, t))
      PROVE  RequestsOK'
  BY <1>0, <1>2, <1>8, ResolvedHome
<1>9. ASSUME NEW r \in Reqs, req[r].pc \in Stages, NEW pc, NEW t,
             \/ pc = "store" /\ t \in SlotTokens(req[r].slot) \cup {None}
             \/ pc = "get" /\ req[r].target = "oci"
             \/ pc = "set" /\ req[r].target = "oci" /\ t \in OCI,
             Step(r, Holding(r, pc, t))
      PROVE  RequestsOK'
  <2>1. req[r].target \in Routes /\ req[r].slot = getTokenPointer(req[r].target)
    BY <1>0, <1>9 DEF RequestOK
  <2>2. Holding(r, pc, t) = [pc |-> pc, target |-> req[r].target, slot |-> req[r].slot,
                             auth |-> req[r].auth, token |-> t, start |-> req[r].start]
    BY <1>0, HoldingOK
  <2>3. RequestOK(Holding(r, pc, t))
    BY <1>9, <2>1, <2>2 DEF RequestOK, Stages
  <2>4. QED
    BY <1>2, <1>9, <2>3
<1>10. ASSUME NEW r \in Reqs, req[r].pc \in Stages, NEW pc,
              \/ pc = "read" /\ req[r].target # "oci"
              \/ pc \in {"challenge", "token", "get"} /\ req[r].target = "oci",
              Step(r, [req[r] EXCEPT !.pc = pc])
       PROVE  RequestsOK'
  <2>1. PICK x : x = req[r]
    OBVIOUS
  <2>2. RequestOK(x) /\ x.pc \in Stages
    BY <1>0, <1>10, <2>1
  <2>3. [x EXCEPT !.pc = pc] = [pc |-> pc, target |-> x.target, slot |-> x.slot, auth |-> x.auth,
                                token |-> x.token, start |-> x.start]
    BY <2>2 DEF RequestOK
  <2>4. RequestOK([x EXCEPT !.pc = pc])
    BY <1>10, <2>1, <2>2, <2>3 DEF RequestOK, Stages
  <2>5. Step(r, [x EXCEPT !.pc = pc])
    BY <1>10, <2>1
  <2>6. QED
    BY <1>2, <2>4, <2>5
<1>11. ASSUME NEW r \in Reqs, CacheLookup(r) PROVE RequestsOK'
  <2>1. req[r].pc \in Stages /\ req[r].slot \in Slots
    BY <1>0, <1>11 DEF CacheLookup, RequestOK, Stages, Routes, getTokenPointer, Slots
  <2>2. CASE Step(r, Resolved(r, None))
    BY <1>8, <2>1, <2>2
  <2>3. CASE Fresh(req[r].slot) /\ Step(r, Resolved(r, cache[req[r].slot].token))
    BY <1>0, <1>8, <2>1, <2>3 DEF Fresh, CachesOK
  <2>4. CASE Step(r, [req[r] EXCEPT !.pc = IF req[r].target = "oci" THEN "challenge" ELSE "read"])
    <3>1. PICK pc : pc = IF req[r].target = "oci" THEN "challenge" ELSE "read"
      OBVIOUS
    <3>2. Step(r, [req[r] EXCEPT !.pc = pc])
      BY <2>4, <3>1
    <3>3. QED
      BY <1>10, <2>1, <3>1, <3>2
  <2>5. QED
    BY <1>11, <2>2, <2>3, <2>4 DEF CacheLookup
<1>12. ASSUME NEW r \in Reqs, ReadToken(r) PROVE RequestsOK'
  <2> DEFINE f == IF req[r].target = "mlflow" THEN "mlflow" ELSE "sa"
             static == IF req[r].target = "eval-hub" /\ settings.static THEN StaticToken ELSE None
             t == IF TokenOf(f) # None THEN TokenOf(f) ELSE static
  <2>1. /\ req[r].pc \in Stages /\ req[r].target \in Routes /\ req[r].target # "oci"
        /\ req[r].slot = getTokenPointer(req[r].target)
    BY <1>0, <1>12 DEF ReadToken, RequestOK, Stages
  <2>2. f \in TokenFiles /\ TokenOf(f) \in {None} \cup IF f = "sa" THEN SA ELSE MLflow
    BY <1>0, VersionsOK DEF FilesOK, TokenOf, TokenFiles
  <2>3. t \in SlotTokens(req[r].slot) \cup {None}
    BY <2>1, <2>2 DEF SlotTokens, getTokenPointer, Routes
  <2>4. Step(r, Holding(r, "store", t))
    BY <1>12 DEF ReadToken
  <2> HIDE DEF t
  <2>5. QED
    BY <1>9, <2>1, <2>3, <2>4
<1>13. ASSUME NEW r \in Reqs, StoreToken(r) PROVE RequestsOK'
  <2>1. req[r].pc \in Stages /\ req[r].token \in SlotTokens(req[r].slot) \cup {None}
    BY <1>0, <1>13 DEF StoreToken, RequestOK, Stages
  <2>2. QED
    BY <1>8, <1>13, <2>1 DEF StoreToken
<1>14. ASSUME NEW r \in Reqs, initiateChallenge(r) PROVE RequestsOK'
  <2>1. req[r].pc \in Stages /\ req[r].target = "oci"
    BY <1>0, <1>14 DEF initiateChallenge, RequestOK, Stages
  <2>2. QED
    BY <1>8, <1>14, <1>10, <2>1 DEF initiateChallenge
<1>15. ASSUME NEW r \in Reqs, createNewToken(r) PROVE RequestsOK'
  <2>1. req[r].pc \in Stages /\ req[r].target = "oci"
    BY <1>0, <1>15 DEF createNewToken, RequestOK, Stages
  <2>2. CASE /\ Len(issued) < Len(OciTokens)
             /\ Step(r, Holding(r, "set", OciTokens[Len(issued) + 1]))
    <3>1. OciTokens[Len(issued) + 1] \in OCI
      BY <1>0, <2>2, NextToken
    <3>2. QED
      BY <1>9, <2>1, <2>2, <3>1
  <2>3. QED
    BY <1>8, <1>15, <1>10, <2>1, <2>2 DEF createNewToken
<1>16. ASSUME NEW r \in Reqs, SetToken(r) PROVE RequestsOK'
  <2>1. req[r].pc \in Stages /\ req[r].target = "oci"
    BY <1>0, <1>16 DEF SetToken, RequestOK, Stages
  <2>2. QED
    BY <1>9, <1>16, <2>1 DEF SetToken
<1>17. ASSUME NEW r \in Reqs, GetToken(r) PROVE RequestsOK'
  <2>1. req[r].pc \in Stages /\ req[r].slot = "oci"
    BY <1>0, <1>17 DEF GetToken, RequestOK, Stages, getTokenPointer
  <2>2. producer \in SlotTokens(req[r].slot) \cup {None}
    BY <1>0, <2>1 DEF CachesOK, SlotTokens
  <2>3. QED
    BY <1>9, <1>17, <2>1, <2>2 DEF GetToken
<1>18. ASSUME NEW r \in Reqs, ModifyResponse(r) PROVE RequestsOK'
  BY <1>2, <1>18, IdleOK DEF ModifyResponse
<1>19. CASE UNCHANGED vars
  BY <1>1, <1>19 DEF vars
<1>20. QED
  BY <1>3, <1>4, <1>5, <1>6, <1>7, <1>11, <1>12, <1>13, <1>14, <1>15, <1>16, <1>17, <1>18, <1>19 DEF Next

\* The clock counts up, in Tick only.
LEMMA ClockStep == [Next]_vars => UNCHANGED clock \/ Tick
<1> SUFFICES ASSUME [Next]_vars PROVE UNCHANGED clock \/ Tick
  OBVIOUS
<1>1. CASE setupRoutes \/ startUpFailed \/ StoreServer \/ ListenAndServe \/ Shutdown \/ Drained
  BY <1>1 DEF setupRoutes, startUpFailed, StoreServer, ListenAndServe, Shutdown, Drained, Lifecycle
<1>2. CASE sweep \/ RemoveJob \/ \E f \in TokenFiles : Rotate(f)
  BY <1>2 DEF sweep, RemoveJob, Rotate
<1>3. ASSUME NEW r \in Reqs,
             \/ HandleProxyCall(r) \/ LocalModelCall(r) \/ CacheLookup(r) \/ ReadToken(r)
             \/ StoreToken(r) \/ initiateChallenge(r) \/ createNewToken(r) \/ SetToken(r)
             \/ GetToken(r) \/ ModifyResponse(r)
      PROVE  UNCHANGED clock
  BY <1>3 DEF HandleProxyCall, LocalModelCall, CacheLookup, ReadToken, StoreToken, initiateChallenge,
              createNewToken, SetToken, GetToken, ModifyResponse, Step
<1>4. QED
  BY <1>1, <1>2, <1>3 DEF Next, vars

LEMMA HomeStep == HomeInv /\ [Next]_vars => HomeInv'
<1> SUFFICES ASSUME HomeInv, [Next]_vars PROVE HomeInv'
  OBVIOUS
<1>1. clock' \in Nat
  BY ClockStep DEF HomeInv, Tick
<1>2. QED
  BY <1>1, FilesStep, CachesStep, RequestsStep DEF HomeInv

LEMMA HomeInvariant == Spec => []HomeInv
  BY HomeInit, HomeStep, PTL DEF Spec

\* The credentials of the sidecar go where they belong, whatever adapters send and
\* however requests share the caches.
THEOREM SidecarCredentialStaysHome == Spec => []CredentialStaysHome
<1>1. HomeInv => CredentialStaysHome
  BY DEF HomeInv, RequestsOK, RequestOK, Home, CredentialStaysHome, SA, MLflow, OCI
<1>2. QED
  BY <1>1, HomeInvariant, PTL

-----------------------------------------------------------------------------
(* The age of a token                                                          *)

\* Where c is an old version of a file, it was replaced at tau or later; where
\* it is a token of the registry, it was issued at tau or later.
ReplacedSince(rep, c, tau) ==
  \A f \in TokenFiles : \A v \in 1..Len(rep[f]) : c = Versions(f)[v] => rep[f][v] >= tau
IssuedSince(iss, c, tau) == \A v \in 1..Len(iss) : c = OciTokens[v] => iss[v] >= tau

TimesOK ==
  /\ clock \in Nat
  /\ \A r \in Reqs : req[r].pc # "idle" =>
       req[r].start \in Nat /\ req[r].start <= clock /\ clock <= req[r].start + MaxHold

\* A cached token was read or issued by a request that was held when it stored it.
CacheAge ==
  \A s \in Slots : cache[s] # None =>
    LET c == cache[s].token  stored == cache[s].expires - TTL
    IN  /\ stored <= clock
        /\ ReplacedSince(replaced, c, stored - MaxHold)
        /\ ~stale => IssuedSince(issued, c, stored - 2 * MaxHold)

\* A token that a request has read was current when the request was there; one
\* that it gets from the registry's token producer may be another request's.
AgeOK(x, rep, iss, prod, kept) ==
  /\ x.pc = "store" => ReplacedSince(rep, x.token, x.start)
  /\ x.pc = "store" /\ ~kept => IssuedSince(iss, x.token, x.start - MaxHold)
  /\ x.pc = "set" => IssuedSince(iss, x.token, x.start)
  /\ x.pc = "get" /\ ~kept => IssuedSince(iss, prod, x.start - MaxHold)
  /\ x.pc = "send" => ReplacedSince(rep, x.token, x.start - TTL - MaxHold + 1)
  /\ x.pc = "send" /\ ~kept => IssuedSince(iss, x.token, x.start - TTL - 2 * MaxHold + 1)
RequestAge == \A r \in Reqs : AgeOK(req[r], replaced, issued, producer, stale)

AgeInv == HomeInv /\ TimesOK /\ CacheAge /\ RequestAge

LEMMA AgeInit == Init => AgeInv
<1> SUFFICES ASSUME Init PROVE AgeInv
  OBVIOUS
<1>1. HomeInv
  BY HomeInit
<1>2. TimesOK /\ CacheAge /\ RequestAge
  BY DEF Init, TimesOK, CacheAge, RequestAge, AgeOK, Idle
<1>3. QED
  BY <1>1, <1>2 DEF AgeInv

\* The histories of a value that is no version of a file, or no token of the
\* registry, say nothing; neither does the history of the version that is current.
LEMMA NoHistory ==
  ASSUME FilesOK
  PROVE  \A c, tau : /\ c \notin SA \cup MLflow => ReplacedSince(replaced, c, tau)
                     /\ c \notin OCI => IssuedSince(issued, c, tau)
                     /\ \A f \in TokenFiles : c = TokenOf(f) => ReplacedSince(replaced, c, tau)
<1> SUFFICES ASSUME NEW c, NEW tau
             PROVE  /\ c \notin SA \cup MLflow => ReplacedSince(replaced, c, tau)
                    /\ c \notin OCI => IssuedSince(issued, c, tau)
                    /\ \A f \in TokenFiles : c = TokenOf(f) => ReplacedSince(replaced, c, tau)
  OBVIOUS
<1>1. ASSUME NEW f \in TokenFiles, NEW v \in 1..Len(replaced[f])
      PROVE  v \in 1..Len(Versions(f)) /\ v < file[f] /\ file[f] \in 1..Len(Versions(f))
  <2>1. /\ Len(replaced[f]) \in Nat /\ file[f] \in Nat /\ Len(Versions(f)) \in Nat
        /\ file[f] <= Len(Versions(f)) /\ Len(replaced[f]) = IF file[f] = 0 THEN 0 ELSE file[f] - 1
    BY VersionsOK DEF FilesOK
  <2>2. QED
    BY <2>1
<1>2. ASSUME NEW v \in 1..Len(issued) PROVE v \in 1..Len(OciTokens)
  BY VersionsOK DEF FilesOK
<1>3. c \notin SA \cup MLflow => ReplacedSince(replaced, c, tau)
  BY <1>1, VersionsOK DEF ReplacedSince
<1>4. c \notin OCI => IssuedSince(issued, c, tau)
  BY <1>2, VersionsOK DEF IssuedSince
<1>5. ASSUME NEW f \in TokenFiles, c = TokenOf(f) PROVE ReplacedSince(replaced, c, tau)
  <2>1. CASE file[f] = 0
    BY <1>3, <1>5, <2>1, IssuersApart DEF TokenOf, Others
  <2>2. CASE file[f] # 0
    <3>1. c = Versions(f)[file[f]] /\ file[f] \in 1..Len(Versions(f))
      BY <1>5, <2>2, VersionsOK DEF TokenOf, FilesOK
    <3>2. ASSUME NEW g \in TokenFiles, NEW v \in 1..Len(replaced[g]), c = Versions(g)[v]
          PROVE  FALSE
      <4> HIDE DEF Versions
      <4>1. v \in 1..Len(Versions(g)) /\ v < file[g]
        BY <1>1
      <4>2. Versions(f)[file[f]] = Versions(g)[v]
        BY <3>1, <3>2
      <4>3. CASE g = f
        <5>1. v = file[f]
          BY <3>1, <4>1, <4>2, <4>3, VersionsOK
        <5>2. file[f] \in Nat /\ v \in Nat
          BY <3>2 DEF FilesOK
        <5>3. QED
          BY <4>1, <4>3, <5>1, <5>2
      <4>4. CASE g # f
        <5>1. Versions(g)[v] \in IF g = "sa" THEN SA ELSE MLflow
          BY <4>1, VersionsOK
        <5>2. Versions(f)[file[f]] \in IF f = "sa" THEN SA ELSE MLflow
          BY <3>1, VersionsOK
        <5>3. QED
          BY <4>2, <4>4, <5>1, <5>2, IssuersApart DEF TokenFiles
      <4>5. QED
        BY <4>3, <4>4
    <3>3. QED
      BY <3>2 DEF ReplacedSince
  <2>3. QED
    BY <2>1, <2>2
<1>6. QED
  BY <1>3, <1>4, <1>5

\* What holds since tau holds since any time before.
LEMMA Earlier ==
  ASSUME NEW rep \in [TokenFiles -> Seq(Nat)], NEW iss \in Seq(Nat),
         NEW c, NEW tau \in Int, NEW sigma \in Int, sigma <= tau
  PROVE  /\ ReplacedSince(rep, c, tau) => ReplacedSince(rep, c, sigma)
         /\ IssuedSince(iss, c, tau) => IssuedSince(iss, c, sigma)
<1>1. \A f \in TokenFiles : \A v \in 1..Len(rep[f]) : rep[f][v] \in Nat
  OBVIOUS
<1>2. \A v \in 1..Len(iss) : iss[v] \in Nat
  OBVIOUS
<1>3. QED
  BY <1>1, <1>2 DEF ReplacedSince, IssuedSince

Issue == issued' = Append(issued, clock) /\ Len(issued) < Len(OciTokens)

\* Histories only grow, by what happens now; a refresh that kept its token is not
\* forgotten.
LEMMA HistoryMoves ==
  ASSUME [Next]_vars
  PROVE  /\ \/ UNCHANGED replaced
            \/ \E f \in TokenFiles : replaced' = [replaced EXCEPT ![f] = Append(@, clock)]
         /\ UNCHANGED issued \/ Issue
         /\ stale => stale'
<1> DEFINE P == /\ \/ UNCHANGED replaced
                   \/ \E f \in TokenFiles : replaced' = [replaced EXCEPT ![f] = Append(@, clock)]
                /\ UNCHANGED issued \/ Issue
                /\ stale => stale'
<1>1. CASE setupRoutes \/ startUpFailed \/ StoreServer \/ ListenAndServe \/ Shutdown \/ Drained
  BY <1>1 DEF setupRoutes, startUpFailed, StoreServer, ListenAndServe, Shutdown, Drained, Lifecycle, tokens
<1>2. CASE sweep \/ RemoveJob \/ Tick \/ \E f \in TokenFiles : Rotate(f)
  BY <1>2 DEF sweep, RemoveJob, Tick, Rotate, tokens
<1>3. ASSUME NEW r \in Reqs,
             \/ HandleProxyCall(r) \/ LocalModelCall(r) \/ CacheLookup(r) \/ ReadToken(r)
             \/ StoreToken(r) \/ initiateChallenge(r) \/ SetToken(r) \/ GetToken(r)
      PROVE  P
  BY <1>3 DEF HandleProxyCall, LocalModelCall, CacheLookup, ReadToken, StoreToken, initiateChallenge,
              SetToken, GetToken, Step, tokens
<1>4. ASSUME NEW r \in Reqs, createNewToken(r) \/ ModifyResponse(r) PROVE P
  BY <1>4 DEF createNewToken, ModifyResponse, Step, Issue
<1>5. QED
  BY <1>1, <1>2, <1>3, <1>4 DEF Next, vars, tokens

LEMMA HistoryGrows ==
  ASSUME HomeInv, [Next]_vars, NEW c, NEW tau \in Int, tau <= clock
  PROVE  /\ ReplacedSince(replaced, c, tau) => ReplacedSince(replaced', c, tau)
         /\ IssuedSince(issued, c, tau) => IssuedSince(issued', c, tau)
<1>0. FilesOK /\ clock \in Nat
  BY DEF HomeInv
<1>1. ASSUME NEW s \in Seq(Nat), NEW v \in 1..Len(Append(s, clock)), v \notin 1..Len(s)
      PROVE  Append(s, clock)[v] >= tau
  BY <1>0, <1>1
<1>2. ASSUME NEW s \in Seq(Nat), NEW v \in 1..Len(s) PROVE Append(s, clock)[v] = s[v]
  BY <1>2
<1>3. ASSUME NEW f \in TokenFiles, replaced' = [replaced EXCEPT ![f] = Append(@, clock)],
             ReplacedSince(replaced, c, tau)
      PROVE  ReplacedSince(replaced', c, tau)
  <2>1. ASSUME NEW g \in TokenFiles, NEW v \in 1..Len(replaced'[g]), c = Versions(g)[v]
        PROVE  replaced'[g][v] >= tau
    <3>1. CASE g # f
      BY <1>0, <1>3, <2>1, <3>1 DEF FilesOK, ReplacedSince
    <3>2. CASE g = f
      <4>1. replaced'[g] = Append(replaced[f], clock) /\ replaced[f] \in Seq(Nat)
        BY <1>0, <1>3, <3>2 DEF FilesOK
      <4>2. v \in 1..Len(replaced[f]) => replaced[f][v] >= tau
        BY <1>3, <2>1, <3>2 DEF ReplacedSince
      <4>3. QED
        BY <1>1, <1>2, <2>1, <4>1, <4>2
    <3>3. QED
      BY <3>1, <3>2
  <2>2. QED
    BY <2>1 DEF ReplacedSince
<1>4. ASSUME Issue, IssuedSince(issued, c, tau) PROVE IssuedSince(issued', c, tau)
  <2>1. issued \in Seq(Nat) /\ issued' = Append(issued, clock)
    BY <1>0, <1>4 DEF FilesOK, Issue
  <2>2. QED
    BY <1>1, <1>2, <1>4, <2>1 DEF IssuedSince
<1>5. QED
  BY <1>3, <1>4, HistoryMoves

\* A token that is issued now was not issued before.
LEMMA IssuedNow ==
  ASSUME HomeInv, Issue
  PROVE  IssuedSince(issued', OciTokens[Len(issued) + 1], clock)
<1>1. /\ issued \in Seq(Nat) /\ clock \in Nat /\ Len(issued) \in Nat /\ Len(OciTokens) \in Nat
      /\ issued' = Append(issued, clock) /\ Len(issued) < Len(OciTokens)
  BY VersionsOK DEF HomeInv, FilesOK, Issue
<1>2. ASSUME NEW v \in 1..Len(issued'), OciTokens[Len(issued) + 1] = OciTokens[v]
      PROVE  issued'[v] >= clock
  <2>1. Len(issued') = Len(issued) + 1
    BY <1>1
  <2>2. v \in 1..Len(OciTokens) /\ Len(issued) + 1 \in 1..Len(OciTokens)
    BY <1>1, <2>1
  <2>3. v = Len(issued) + 1
    BY <1>2, <2>2, VersionsOK
  <2>4. QED
    BY <1>1, <2>3
<1>3. QED
  BY <1>2 DEF IssuedSince

\* What a step makes of request z: it stays, ends, is accepted, or advances.
Advances(z, x) ==
  \/ x.pc \in {"read", "challenge", "token"}
  \/ x.pc = "store" /\ (x.token \in {StaticToken, None} \/ \E f \in TokenFiles : x.token = TokenOf(f))
  \/ x.pc = "store" /\ req[z].pc = "get" /\ x.token = producer
  \/ x.pc = "set" /\ Issue /\ x.token = OciTokens[Len(issued) + 1]
  \/ x.pc = "get" /\ stale'
  \/ x.pc = "get" /\ req[z].pc = "set" /\ producer' = req[z].token
  \/ x.pc = "send" /\ x.token \in Others
  \/ x.pc = "send" /\ req[z].slot \in Slots /\ Fresh(req[z].slot) /\ x.token = cache[req[z].slot].token
  \/ x.pc = "send" /\ req[z].pc = "store" /\ x.token = req[z].token
Moved(z, x) ==
  \/ x = req[z]
  \/ x.pc = "idle"
  \/ UNCHANGED clock /\ x.start = clock /\ (x.pc = "routed" \/ (x.pc = "send" /\ x.token = None))
  \/ UNCHANGED clock /\ req[z].pc \in Stages /\ x.start = req[z].start /\ Advances(z, x)

LEMMA RequestMoved ==
  ASSUME HomeInv, [Next]_vars, NEW z \in Reqs
  PROVE  Moved(z, req'[z])
<1>0. /\ FilesOK /\ CachesOK /\ RequestsOK /\ req = [r \in Reqs |-> req[r]]
      /\ \A r \in Reqs : RequestOK(req[r])
  BY DEF HomeInv, RequestsOK
<1>1. ASSUME UNCHANGED req PROVE Moved(z, req'[z])
  BY <1>1 DEF Moved
<1>2. ASSUME NEW r \in Reqs, NEW x, req' = [req EXCEPT ![r] = x], Moved(r, x)
      PROVE  Moved(z, req'[z])
  <2>1. req'[z] = IF z = r THEN x ELSE req[z]
    BY <1>0, <1>2
  <2>2. CASE z = r
    BY <1>2, <2>1, <2>2
  <2>3. CASE z # r
    BY <2>1, <2>3 DEF Moved
  <2>4. QED
    BY <2>2, <2>3
<1>3. CASE setupRoutes \/ startUpFailed \/ StoreServer \/ ListenAndServe \/ Shutdown
  BY <1>1, <1>3 DEF setupRoutes, startUpFailed, StoreServer, ListenAndServe, Shutdown
<1>4. CASE Drained
  BY <1>4 DEF Drained, Moved, Idle
<1>5. CASE sweep \/ RemoveJob \/ Tick \/ \E f \in TokenFiles : Rotate(f)
  BY <1>1, <1>5 DEF sweep, RemoveJob, Tick, Rotate
<1>6. ASSUME NEW r \in Reqs, HandleProxyCall(r) PROVE Moved(z, req'[z])
  <2>1. PICK t, a : req' = [req EXCEPT ![r] = Accepted("routed", t, getTokenPointer(t), a)]
    BY <1>6 DEF HandleProxyCall
  <2>2. Moved(r, Accepted("routed", t, getTokenPointer(t), a))
    BY <1>6 DEF HandleProxyCall, Moved, Accepted
  <2>3. QED
    BY <1>2, <2>1, <2>2
<1>7. ASSUME NEW r \in Reqs, LocalModelCall(r) PROVE Moved(z, req'[z])
  <2>1. PICK j : req' = [req EXCEPT ![r] = Accepted("send", j, None, NoAuth)]
    BY <1>7 DEF LocalModelCall
  <2>2. Moved(r, Accepted("send", j, None, NoAuth))
    BY <1>7 DEF LocalModelCall, Moved, Accepted
  <2>3. QED
    BY <1>2, <2>1, <2>2
<1>8. ASSUME NEW r \in Reqs, NEW x, Step(r, x), req[r].pc \in Stages, x.start = req[r].start, Advances(r, x)
      PROVE  Moved(z, req'[z])
  <2>1. Moved(r, x)
    BY <1>8 DEF Moved, Step
  <2>2. QED
    BY <1>2, <1>8, <2>1 DEF Step
<1>9. ASSUME NEW r \in Reqs, req[r].pc \in Stages, NEW t \in SlotTokens(req[r].slot) \cup {None},
             Step(r, Resolved(r, t)),
             \/ t = None
             \/ req[r].slot \in Slots /\ Fresh(req[r].slot) /\ t = cache[req[r].slot].token
             \/ req[r].pc = "store" /\ t = req[r].token
      PROVE  Moved(z, req'[z])
  <2>1. CASE Resolved(r, t) = Idle
    <3>1. Moved(r, Idle)
      BY DEF Moved, Idle
    <3>2. QED
      BY <1>2, <1>9, <2>1, <3>1 DEF Step
  <2>2. CASE /\ Resolved(r, t).pc = "send" /\ Resolved(r, t).start = req[r].start
             /\ Resolved(r, t).token \in {t} \cup Others
    <3>1. None \in Others
      BY DEF Others
    <3>2. Advances(r, Resolved(r, t))
      BY <1>9, <2>2, <3>1 DEF Advances
    <3>3. QED
      BY <1>8, <1>9, <2>2, <3>2
  <2>3. QED
    BY <1>0, <1>9, <2>1, <2>2, ResolvedHome
<1>10. ASSUME NEW r \in Reqs, req[r].pc \in Stages, NEW pc, NEW t, Step(r, Holding(r, pc, t)),
              \A x : x.pc = pc /\ x.token = t => Advances(r, x)
       PROVE  Moved(z, req'[z])
  <2>1. Holding(r, pc, t).pc = pc /\ Holding(r, pc, t).token = t /\ Holding(r, pc, t).start = req[r].start
    BY <1>0, HoldingOK
  <2>2. QED
    BY <1>8, <1>10, <2>1
<1>11. ASSUME NEW r \in Reqs, req[r].pc \in Stages, NEW pc, Step(r, [req[r] EXCEPT !.pc = pc]),
              \A x : x.pc = pc => Advances(r, x)
       PROVE  Moved(z, req'[z])
  <2>1. PICK x : x = [req[r] EXCEPT !.pc = pc]
    OBVIOUS
  <2>2. x.pc = pc /\ x.start = req[r].start
    <3>1. PICK y : y = req[r]
      OBVIOUS
    <3>2. y = [pc |-> y.pc, target |-> y.target, slot |-> y.slot, auth |-> y.auth,
               token |-> y.token, start |-> y.start]
      BY <1>0, <3>1 DEF RequestOK
    <3>3. x = [pc |-> pc, target |-> y.target, slot |-> y.slot, auth |-> y.auth,
               token |-> y.token, start |-> y.start]
      BY <2>1, <3>1, <3>2
    <3>4. QED
      BY <3>1, <3>3
  <2>3. QED
    BY <1>8, <1>11, <2>1, <2>2
<1>12. ASSUME NEW r \in Reqs, CacheLookup(r) PROVE Moved(z, req'[z])
  <2>1. req[r].pc \in Stages /\ req[r].slot \in Slots
    BY <1>0, <1>12 DEF CacheLookup, RequestOK, Stages, Routes, getTokenPointer, Slots
  <2>2. CASE Step(r, Resolved(r, None))
    BY <1>9, <2>1, <2>2
  <2>3. CASE Fresh(req[r].slot) /\ Step(r, Resolved(r, cache[req[r].slot].token))
    <3>1. cache[req[r].slot].token \in SlotTokens(req[r].slot)
      BY <1>0, <2>1, <2>3 DEF Fresh, CachesOK
    <3>2. QED
      BY <1>9, <2>1, <2>3, <3>1
  <2>4. CASE Step(r, [req[r] EXCEPT !.pc = IF req[r].target = "oci" THEN "challenge" ELSE "read"])
    <3>1. PICK pc \in {"challenge", "read"} : pc = IF req[r].target = "oci" THEN "challenge" ELSE "read"
      OBVIOUS
    <3>2. Step(r, [req[r] EXCEPT !.pc = pc])
      BY <2>4, <3>1
    <3>3. \A x : x.pc = pc => Advances(r, x)
      BY <3>1 DEF Advances
    <3>4. QED
      BY <1>11, <2>1, <3>2, <3>3
  <2>5. QED
    BY <1>12, <2>2, <2>3, <2>4 DEF CacheLookup
<1>13. ASSUME NEW r \in Reqs, ReadToken(r) PROVE Moved(z, req'[z])
  <2> DEFINE f == IF req[r].target = "mlflow" THEN "mlflow" ELSE "sa"
             static == IF req[r].target = "eval-hub" /\ settings.static THEN StaticToken ELSE None
             t == IF TokenOf(f) # None THEN TokenOf(f) ELSE static
  <2>1. req[r].pc \in Stages
    BY <1>13 DEF ReadToken, Stages
  <2>2. \A x : x.pc = "store" /\ x.token = t => Advances(r, x)
    BY DEF Advances, TokenFiles
  <2>3. Step(r, Holding(r, "store", t))
    BY <1>13 DEF ReadToken
  <2> HIDE DEF t
  <2>4. QED
    BY <1>10, <2>1, <2>2, <2>3
<1>14. ASSUME NEW r \in Reqs, StoreToken(r) PROVE Moved(z, req'[z])
  <2>1. req[r].pc = "store" /\ req[r].pc \in Stages /\ req[r].token \in SlotTokens(req[r].slot) \cup {None}
    BY <1>0, <1>14 DEF StoreToken, RequestOK, Stages
  <2>2. QED
    BY <1>9, <1>14, <2>1 DEF StoreToken
<1>15. ASSUME NEW r \in Reqs, initiateChallenge(r) PROVE Moved(z, req'[z])
  <2>1. req[r].pc \in Stages
    BY <1>15 DEF initiateChallenge, Stages
  <2>2. CASE Step(r, [req[r] EXCEPT !.pc = "token"])
    <3>1. \A x : x.pc = "token" => Advances(r, x)
      BY DEF Advances
    <3>2. QED
      BY <1>11, <2>1, <2>2, <3>1
  <2>3. CASE Step(r, Resolved(r, None))
    BY <1>9, <2>1, <2>3
  <2>4. CASE Step(r, [req[r] EXCEPT !.pc = "get"]) /\ stale'
    <3>1. \A x : x.pc = "get" => Advances(r, x)
      BY <2>4 DEF Advances
    <3>2. QED
      BY <1>11, <2>1, <2>4, <3>1
  <2>5. QED
    BY <1>15, <2>2, <2>3, <2>4 DEF initiateChallenge
<1>16. ASSUME NEW r \in Reqs, createNewToken(r) PROVE Moved(z, req'[z])
  <2>1. req[r].pc \in Stages
    BY <1>16 DEF createNewToken, Stages
  <2>2. CASE Issue /\ Step(r, Holding(r, "set", OciTokens[Len(issued) + 1]))
    <3>1. \A x : x.pc = "set" /\ x.token = OciTokens[Len(issued) + 1] => Advances(r, x)
      BY <2>2 DEF Advances
    <3>2. QED
      BY <1>10, <2>1, <2>2, <3>1
  <2>3. CASE Step(r, Resolved(r, None))
    BY <1>9, <2>1, <2>3
  <2>4. CASE Step(r, [req[r] EXCEPT !.pc = "get"]) /\ stale'
    <3>1. \A x : x.pc = "get" => Advances(r, x)
      BY <2>4 DEF Advances
    <3>2. QED
      BY <1>11, <2>1, <2>4, <3>1
  <2>5. QED
    BY <1>16, <2>2, <2>3, <2>4 DEF createNewToken, Issue
<1>17. ASSUME NEW r \in Reqs, SetToken(r) PROVE Moved(z, req'[z])
  <2>1. req[r].pc \in Stages
    BY <1>17 DEF SetToken, Stages
  <2>2. \A x : x.pc = "get" /\ x.token = None => Advances(r, x)
    BY <1>17 DEF Advances, SetToken
  <2>3. QED
    BY <1>10, <1>17, <2>1, <2>2 DEF SetToken
<1>18. ASSUME NEW r \in Reqs, GetToken(r) PROVE Moved(z, req'[z])
  <2>1. req[r].pc \in Stages
    BY <1>18 DEF GetToken, Stages
  <2>2. \A x : x.pc = "store" /\ x.token = producer => Advances(r, x)
    BY <1>18 DEF Advances, GetToken
  <2>3. QED
    BY <1>10, <1>18, <2>1, <2>2 DEF GetToken
<1>19. ASSUME NEW r \in Reqs, ModifyResponse(r) PROVE Moved(z, req'[z])
  <2>1. Moved(r, Idle)
    BY DEF Moved, Idle
  <2>2. QED
    BY <1>2, <1>19, <2>1 DEF ModifyResponse, Step
<1>20. CASE UNCHANGED vars
  BY <1>1, <1>20 DEF vars
<1>21. QED
  BY <1>3, <1>4, <1>5, <1>6, <1>7, <1>12, <1>13, <1>14, <1>15, <1>16, <1>17, <1>18, <1>19, <1>20 DEF Next

\* What a step makes of a cache and of the registry's token.
TokensMoved ==
  /\ \A s \in Slots :
       \/ cache'[s] = cache[s]
       \/ cache'[s] = None
       \/ \E r \in Reqs : req[r].pc = "store" /\ cache'[s] = Entry(req[r].token)
       \/ Issue /\ cache'[s] = Entry(OciTokens[Len(issued) + 1])
  /\ \/ producer' = producer
     \/ \E r \in Reqs : req[r].pc = "set" /\ producer' = req[r].token
     \/ Issue /\ producer' = OciTokens[Len(issued) + 1]

LEMMA CachesMoved ==
  ASSUME HomeInv, [Next]_vars
  PROVE  TokensMoved
<1>0. CachesOK
  BY DEF HomeInv
<1>1. ASSUME UNCHANGED <<cache, producer>> PROVE TokensMoved
  BY <1>1 DEF TokensMoved
<1>2. ASSUME NEW q, NEW e, cache' = [cache EXCEPT ![q] = e]
      PROVE  \A s \in Slots : cache'[s] = IF s = q THEN e ELSE cache[s]
  BY <1>0, <1>2 DEF CachesOK
<1>3. CASE setupRoutes \/ startUpFailed \/ StoreServer \/ ListenAndServe \/ Shutdown \/ Drained
  BY <1>1, <1>3 DEF setupRoutes, startUpFailed, StoreServer, ListenAndServe, Shutdown, Drained,
                    Lifecycle, tokens
<1>4. CASE sweep \/ RemoveJob
  BY <1>1, <1>4 DEF sweep, RemoveJob, tokens
<1>5. CASE Tick
  BY <1>5 DEF Tick, TokensMoved
<1>6. ASSUME NEW f \in TokenFiles, Rotate(f) PROVE TokensMoved
  BY <1>1, <1>6 DEF Rotate
<1>7. ASSUME NEW r \in Reqs,
             HandleProxyCall(r) \/ LocalModelCall(r) \/ CacheLookup(r) \/ ReadToken(r)
             \/ initiateChallenge(r) \/ createNewToken(r) \/ GetToken(r)
      PROVE  TokensMoved
  BY <1>1, <1>7 DEF HandleProxyCall, LocalModelCall, tokens, CacheLookup, CachedAfterHit, ReadToken,
                    initiateChallenge, createNewToken, GetToken
<1>8. ASSUME NEW r \in Reqs, StoreToken(r) PROVE TokensMoved
  <2>1. CASE req[r].token = None
    BY <1>1, <1>8, <2>1 DEF StoreToken
  <2>2. CASE req[r].token # None
    <3>1. /\ cache' = [cache EXCEPT ![req[r].slot] = Entry(req[r].token)] /\ producer' = producer
          /\ req[r].pc = "store"
      BY <1>8, <2>2 DEF StoreToken
    <3>2. QED
      BY <1>2, <3>1 DEF TokensMoved
  <2>3. QED
    BY <2>1, <2>2
<1>9. ASSUME NEW r \in Reqs, SetToken(r) PROVE TokensMoved
  BY <1>9 DEF SetToken, TokensMoved
<1>10. ASSUME NEW r \in Reqs, ModifyResponse(r) PROVE TokensMoved
  <2>1. CASE UNCHANGED <<issued, cache, producer>>
    BY <1>1, <2>1
  <2>2. CASE /\ Issue /\ producer' = OciTokens[Len(issued) + 1]
             /\ cache' = [cache EXCEPT !["oci"] = Entry(OciTokens[Len(issued) + 1])]
    BY <1>2, <2>2 DEF TokensMoved
  <2>3. QED
    BY <1>10, <2>1, <2>2 DEF ModifyResponse, Issue
<1>11. CASE UNCHANGED vars
  BY <1>1, <1>11 DEF vars, tokens
<1>12. QED
  BY <1>3, <1>4, <1>5, <1>6, <1>7, <1>8, <1>9, <1>10, <1>11 DEF Next

\* A request is held for MaxHold at most.
LEMMA TimesStep == AgeInv /\ [Next]_vars => TimesOK' /\ clock <= clock'
<1> SUFFICES ASSUME AgeInv, [Next]_vars PROVE TimesOK' /\ clock <= clock'
  OBVIOUS
<1>0. HomeInv /\ TimesOK /\ clock \in Nat /\ MaxHold \in Nat
  BY TimeAssumption DEF AgeInv, HomeInv
<1>1. CASE Tick
  <2>1. clock' = clock + 1 /\ req' = req
    BY <1>1 DEF Tick
  <2>2. \A r \in Reqs : req[r].pc # "idle" => clock - req[r].start < MaxHold
    BY <1>1 DEF Tick, InFlight, Idle
  <2>3. QED
    BY <1>0, <2>1, <2>2 DEF TimesOK
<1>2. CASE UNCHANGED clock
  <2>1. ASSUME NEW r \in Reqs, req'[r].pc # "idle"
        PROVE  req'[r].start \in Nat /\ req'[r].start <= clock /\ clock <= req'[r].start + MaxHold
    <3>1. Moved(r, req'[r])
      BY <1>0, RequestMoved
    <3>2. QED
      BY <1>0, <2>1, <3>1 DEF Moved, TimesOK, Stages
  <2>2. QED
    BY <1>0, <1>2, <2>1 DEF TimesOK
<1>3. QED
  BY <1>1, <1>2, ClockStep

\* What a step leaves to prove: histories before it say enough about the time
\* after it.
LEMMA StillSince ==
  ASSUME AgeInv, [Next]_vars, NEW c, NEW tau \in Int, NEW sigma \in Int, sigma <= tau, sigma <= clock
  PROVE  /\ ReplacedSince(replaced, c, tau) => ReplacedSince(replaced', c, sigma)
         /\ IssuedSince(issued, c, tau) => IssuedSince(issued', c, sigma)
<1>1. HomeInv /\ replaced \in [TokenFiles -> Seq(Nat)] /\ issued \in Seq(Nat)
  BY DEF AgeInv, HomeInv, FilesOK
<1>2. /\ ReplacedSince(replaced, c, tau) => ReplacedSince(replaced, c, sigma)
      /\ IssuedSince(issued, c, tau) => IssuedSince(issued, c, sigma)
  BY <1>1, Earlier
<1>3. QED
  BY <1>1, <1>2, HistoryGrows

LEMMA IssuedLately ==
  ASSUME AgeInv, [Next]_vars, Issue, NEW sigma \in Int, sigma <= clock
  PROVE  IssuedSince(issued', OciTokens[Len(issued) + 1], sigma)
<1>1. HomeInv /\ clock \in Nat /\ clock \in Int
  BY DEF AgeInv, HomeInv
<1>2. replaced' \in [TokenFiles -> Seq(Nat)] /\ issued' \in Seq(Nat)
  <2>1. FilesOK'
    BY <1>1, FilesStep DEF HomeInv
  <2>2. QED
    BY <2>1 DEF FilesOK
<1>3. IssuedSince(issued', OciTokens[Len(issued) + 1], clock)
  BY <1>1, IssuedNow
<1>4. QED
  BY <1>1, <1>2, <1>3, Earlier

\* Tokens are cached by requests that are held, and by answers of the registry.
LEMMA CacheAgeStep == AgeInv /\ [Next]_vars => CacheAge'
<1> SUFFICES ASSUME AgeInv, [Next]_vars, NEW s \in Slots, cache'[s] # None
             PROVE  /\ cache'[s].expires - TTL <= clock'
                    /\ ReplacedSince(replaced', cache'[s].token, cache'[s].expires - TTL - MaxHold)
                    /\ ~stale' => IssuedSince(issued', cache'[s].token, cache'[s].expires - TTL - 2 * MaxHold)
  BY DEF CacheAge
<1>0. /\ HomeInv /\ TimesOK /\ CacheAge /\ RequestAge /\ FilesOK /\ CachesOK
      /\ clock \in Nat /\ clock' \in Nat /\ clock <= clock' /\ MaxHold \in Nat /\ TTL \in Nat
      /\ stale => stale'
  BY TimesStep, HistoryMoves, TimeAssumption DEF AgeInv, HomeInv, TimesOK
<1>1. CASE cache'[s] = cache[s]
  <2>1. PICK c, e : c = cache[s].token /\ e = cache[s].expires
    OBVIOUS
  <2>2. /\ e \in Nat /\ e - TTL <= clock
        /\ ReplacedSince(replaced, c, e - TTL - MaxHold)
        /\ ~stale => IssuedSince(issued, c, e - TTL - 2 * MaxHold)
    BY <1>0, <1>1, <2>1 DEF CacheAge, CachesOK
  <2>3. /\ e - TTL - MaxHold \in Int /\ e - TTL - 2 * MaxHold \in Int
        /\ e - TTL - MaxHold <= clock /\ e - TTL - 2 * MaxHold <= clock /\ e - TTL <= clock'
    BY <1>0, <2>2
  <2>4. /\ ReplacedSince(replaced', c, e - TTL - MaxHold)
        /\ ~stale => IssuedSince(issued', c, e - TTL - 2 * MaxHold)
    BY <1>0, <2>2, <2>3, HistoryGrows
  <2>5. QED
    BY <1>0, <1>1, <2>1, <2>3, <2>4
<1>2. ASSUME NEW c, cache'[s] = Entry(c), ReplacedSince(replaced', c, clock - MaxHold),
             ~stale' => IssuedSince(issued', c, clock - 2 * MaxHold)
      PROVE  /\ cache'[s].expires - TTL <= clock'
             /\ ReplacedSince(replaced', cache'[s].token, cache'[s].expires - TTL - MaxHold)
             /\ ~stale' => IssuedSince(issued', cache'[s].token, cache'[s].expires - TTL - 2 * MaxHold)
  <2>1. cache'[s].token = c /\ cache'[s].expires = clock + TTL
    BY <1>2 DEF Entry
  <2>2. /\ cache'[s].expires - TTL = clock
        /\ cache'[s].expires - TTL - MaxHold = clock - MaxHold
        /\ cache'[s].expires - TTL - 2 * MaxHold = clock - 2 * MaxHold
    BY <1>0, <2>1
  <2>3. QED
    BY <1>0, <1>2, <2>1, <2>2
<1>3. ASSUME NEW r \in Reqs, req[r].pc = "store", cache'[s] = Entry(req[r].token)
      PROVE  /\ cache'[s].expires - TTL <= clock'
             /\ ReplacedSince(replaced', cache'[s].token, cache'[s].expires - TTL - MaxHold)
             /\ ~stale' => IssuedSince(issued', cache'[s].token, cache'[s].expires - TTL - 2 * MaxHold)
  <2>1. PICK c, t : c = req[r].token /\ t = req[r].start
    OBVIOUS
  <2>2. /\ t \in Nat /\ t <= clock /\ clock <= t + MaxHold
        /\ ReplacedSince(replaced, c, t)
        /\ ~stale => IssuedSince(issued, c, t - MaxHold)
    BY <1>0, <1>3, <2>1 DEF TimesOK, RequestAge, AgeOK
  <2>3. /\ t \in Int /\ t - MaxHold \in Int /\ clock - MaxHold \in Int /\ clock - 2 * MaxHold \in Int
        /\ clock - MaxHold <= t /\ clock - 2 * MaxHold <= t - MaxHold
        /\ clock - MaxHold <= clock /\ clock - 2 * MaxHold <= clock
    BY <1>0, <2>2
  <2>4. ReplacedSince(replaced', c, clock - MaxHold)
    BY <2>2, <2>3, StillSince
  <2>5. ~stale' => IssuedSince(issued', c, clock - 2 * MaxHold)
    BY <1>0, <2>2, <2>3, StillSince
  <2>6. QED
    BY <1>2, <1>3, <2>1, <2>4, <2>5
<1>4. ASSUME Issue, cache'[s] = Entry(OciTokens[Len(issued) + 1])
      PROVE  /\ cache'[s].expires - TTL <= clock'
             /\ ReplacedSince(replaced', cache'[s].token, cache'[s].expires - TTL - MaxHold)
             /\ ~stale' => IssuedSince(issued', cache'[s].token, cache'[s].expires - TTL - 2 * MaxHold)
  <2>1. PICK c : c = OciTokens[Len(issued) + 1]
    OBVIOUS
  <2>2. c \notin SA \cup MLflow
    BY <1>0, <1>4, <2>1, NextToken, IssuersApart DEF Issue
  <2>3. /\ clock - MaxHold \in Int /\ clock - 2 * MaxHold \in Int
        /\ clock - MaxHold <= clock /\ clock - 2 * MaxHold <= clock
    BY <1>0
  <2>4. ReplacedSince(replaced', c, clock - MaxHold)
    BY <1>0, <2>2, <2>3, NoHistory, HistoryGrows
  <2>5. IssuedSince(issued', c, clock - 2 * MaxHold)
    BY <1>4, <2>1, <2>3, IssuedLately
  <2>6. QED
    BY <1>2, <1>4, <2>1, <2>4, <2>5
<1>5. TokensMoved
  BY <1>0, CachesMoved
<1>6. QED
  BY <1>1, <1>3, <1>4, <1>5 DEF TokensMoved

\* Whoever stores a token in the producer has it from the registry since he began,
\* and has not been held for longer than MaxHold.
LEMMA ProducerAge ==
  ASSUME AgeInv, [Next]_vars, ~stale', NEW sigma \in Int, sigma <= clock - MaxHold,
         IssuedSince(issued, producer, sigma)
  PROVE  IssuedSince(issued', producer', sigma)
<1>0. /\ HomeInv /\ TimesOK /\ RequestAge /\ clock \in Nat /\ MaxHold \in Nat /\ sigma <= clock
  BY TimeAssumption DEF AgeInv, HomeInv, TimesOK
<1>1. CASE producer' = producer
  <2>1. PICK c : c = producer
    OBVIOUS
  <2>2. IssuedSince(issued', c, sigma)
    BY <1>0, <2>1, HistoryGrows
  <2>3. QED
    BY <1>1, <2>1, <2>2
<1>2. ASSUME NEW r \in Reqs, req[r].pc = "set", producer' = req[r].token
      PROVE  IssuedSince(issued', producer', sigma)
  <2>1. PICK c, t : c = req[r].token /\ t = req[r].start
    OBVIOUS
  <2>2. t \in Nat /\ clock <= t + MaxHold /\ IssuedSince(issued, c, t)
    BY <1>0, <1>2, <2>1 DEF TimesOK, RequestAge, AgeOK
  <2>3. t \in Int /\ sigma <= t
    BY <1>0, <2>2
  <2>4. IssuedSince(issued', c, sigma)
    BY <1>0, <2>2, <2>3, StillSince
  <2>5. QED
    BY <1>2, <2>1, <2>4
<1>3. CASE Issue /\ producer' = OciTokens[Len(issued) + 1]
  <2>1. IssuedSince(issued', OciTokens[Len(issued) + 1], sigma)
    BY <1>0, <1>3, IssuedLately
  <2>2. QED
    BY <1>3, <2>1
<1>4. QED
  BY <1>0, <1>1, <1>2, <1>3, CachesMoved DEF TokensMoved

\* The token of a request is as old after the step as the invariant allows.
LEMMA RequestAgeStep == AgeInv /\ [Next]_vars => RequestAge'
<1> SUFFICES ASSUME AgeInv, [Next]_vars, NEW r \in Reqs
             PROVE  AgeOK(req'[r], replaced', issued', producer', stale')
  BY DEF RequestAge
<1>0. /\ HomeInv /\ TimesOK /\ CacheAge /\ RequestAge /\ FilesOK /\ CachesOK
      /\ clock \in Nat /\ MaxHold \in Nat /\ TTL \in Nat /\ TTL > 0 /\ (stale => stale')
  BY HistoryMoves, TimeAssumption DEF AgeInv, HomeInv, TimesOK
<1>1. PICK old : old = req[r]
  OBVIOUS
<1>2. PICK x : x = req'[r]
  OBVIOUS
<1>3. /\ old.pc # "idle" => old.start \in Nat /\ old.start <= clock /\ clock <= old.start + MaxHold
      /\ AgeOK(old, replaced, issued, producer, stale)
  BY <1>0, <1>1 DEF TimesOK, RequestAge
<1>4. ASSUME NEW t \in Nat, t <= clock
      PROVE  /\ t \in Int /\ t - MaxHold \in Int /\ t - TTL - MaxHold + 1 \in Int
             /\ t - TTL - 2 * MaxHold + 1 \in Int
             /\ t - MaxHold <= t /\ t - MaxHold <= clock - MaxHold /\ t - MaxHold <= clock
             /\ t - TTL - MaxHold + 1 <= t /\ t - TTL - MaxHold + 1 <= clock
             /\ t - TTL - 2 * MaxHold + 1 <= t - MaxHold /\ t - TTL - 2 * MaxHold + 1 <= clock
  BY <1>0, <1>4
\* Where the request stays as it is.
<1>5. CASE x = old
  <2>1. CASE old.pc = "idle"
    BY <1>2, <1>5, <2>1 DEF AgeOK
  <2>2. CASE old.pc # "idle"
    <3>1. PICK t \in Nat, c \in {old.token} : t = old.start /\ t <= clock
      BY <1>3, <2>2
    <3>2. old.pc = "store" => ReplacedSince(replaced', c, t)
      BY <1>0, <1>3, <1>4, <3>1, HistoryGrows DEF AgeOK
    <3>3. old.pc = "store" /\ ~stale' => IssuedSince(issued', c, t - MaxHold)
      BY <1>0, <1>3, <1>4, <3>1, HistoryGrows DEF AgeOK
    <3>4. old.pc = "set" => IssuedSince(issued', c, t)
      BY <1>0, <1>3, <1>4, <3>1, HistoryGrows DEF AgeOK
    <3>5. old.pc = "get" /\ ~stale' => IssuedSince(issued', producer', t - MaxHold)
      BY <1>0, <1>3, <1>4, <3>1, ProducerAge DEF AgeOK
    <3>6. old.pc = "send" => ReplacedSince(replaced', c, t - TTL - MaxHold + 1)
      BY <1>0, <1>3, <1>4, <3>1, HistoryGrows DEF AgeOK
    <3>7. old.pc = "send" /\ ~stale' => IssuedSince(issued', c, t - TTL - 2 * MaxHold + 1)
      BY <1>0, <1>3, <1>4, <3>1, HistoryGrows DEF AgeOK
    <3>8. QED
      BY <1>2, <1>5, <3>1, <3>2, <3>3, <3>4, <3>5, <3>6, <3>7 DEF AgeOK
  <2>3. QED
    BY <2>1, <2>2
\* Where it is sent with a token that has no history.
<1>6. ASSUME NEW t \in Nat, t <= clock, x.start = t, x.pc = "send", x.token \in Others
      PROVE  AgeOK(x, replaced', issued', producer', stale')
  <2>1. x.token \notin SA \cup MLflow \cup OCI
    BY <1>6, IssuersApart
  <2>2. /\ ReplacedSince(replaced, x.token, t - TTL - MaxHold + 1)
        /\ IssuedSince(issued, x.token, t - TTL - 2 * MaxHold + 1)
    BY <1>0, <2>1, NoHistory
  <2>3. /\ ReplacedSince(replaced', x.token, t - TTL - MaxHold + 1)
        /\ IssuedSince(issued', x.token, t - TTL - 2 * MaxHold + 1)
    BY <1>0, <1>4, <1>6, <2>2, HistoryGrows
  <2>4. QED
    BY <1>6, <2>3 DEF AgeOK
\* Where it moves on.
<1>7. ASSUME old.pc \in Stages, x.start = old.start, Advances(r, x)
      PROVE  AgeOK(x, replaced', issued', producer', stale')
  <2>1. PICK t \in Nat : t = old.start /\ t = x.start /\ t <= clock /\ clock <= t + MaxHold
    BY <1>3, <1>7 DEF Stages
  <2>2. CASE x.pc \in {"read", "challenge", "token"}
    BY <2>2 DEF AgeOK
  <2>3. CASE x.pc = "store" /\ (x.token \in {StaticToken, None} \/ \E f \in TokenFiles : x.token = TokenOf(f))
    <3>1. x.token \notin OCI /\ ReplacedSince(replaced, x.token, t)
      <4>1. CASE x.token \in {StaticToken, None}
        BY <1>0, <4>1, NoHistory, IssuersApart DEF Others
      <4>2. ASSUME NEW f \in TokenFiles, x.token = TokenOf(f)
            PROVE  x.token \notin OCI /\ ReplacedSince(replaced, x.token, t)
        <5>1. x.token \in SA \cup MLflow \cup {None}
          BY <1>0, <4>2, VersionsOK DEF TokenOf, FilesOK, TokenFiles
        <5>2. QED
          BY <1>0, <4>2, <5>1, NoHistory, IssuersApart DEF Others
      <4>3. QED
        BY <2>3, <4>1, <4>2
    <3>2. IssuedSince(issued, x.token, t - MaxHold)
      BY <1>0, <3>1, NoHistory
    <3>3. ReplacedSince(replaced', x.token, t) /\ IssuedSince(issued', x.token, t - MaxHold)
      BY <1>0, <1>4, <2>1, <3>1, <3>2, HistoryGrows
    <3>4. QED
      BY <2>1, <2>3, <3>3 DEF AgeOK
  <2>4. CASE x.pc = "store" /\ old.pc = "get" /\ x.token = producer
    <3>1. x.token \notin SA \cup MLflow
      BY <1>0, <2>4, IssuersApart DEF CachesOK, Others
    <3>2. ReplacedSince(replaced, x.token, t) /\ (~stale => IssuedSince(issued, x.token, t - MaxHold))
      BY <1>0, <1>3, <2>1, <2>4, <3>1, NoHistory DEF AgeOK
    <3>3. ReplacedSince(replaced', x.token, t) /\ (~stale' => IssuedSince(issued', x.token, t - MaxHold))
      BY <1>0, <1>4, <2>1, <3>2, HistoryGrows
    <3>4. QED
      BY <2>1, <2>4, <3>3 DEF AgeOK
  <2>5. CASE x.pc = "set" /\ Issue /\ x.token = OciTokens[Len(issued) + 1]
    <3>1. IssuedSince(issued', OciTokens[Len(issued) + 1], t)
      BY <1>4, <2>1, <2>5, IssuedLately
    <3>2. QED
      BY <2>1, <2>5, <3>1 DEF AgeOK
  <2>6. CASE x.pc = "get" /\ stale'
    BY <2>6 DEF AgeOK
  <2>7. CASE x.pc = "get" /\ old.pc = "set" /\ producer' = old.token
    <3>1. IssuedSince(issued, old.token, t)
      BY <1>3, <2>1, <2>7 DEF AgeOK
    <3>2. IssuedSince(issued', old.token, t - MaxHold)
      BY <1>4, <2>1, <3>1, StillSince
    <3>3. QED
      BY <2>1, <2>7, <3>2 DEF AgeOK
  <2>8. CASE x.pc = "send" /\ x.token \in Others
    BY <1>6, <2>1, <2>8
  <2>9. CASE /\ x.pc = "send" /\ old.slot \in Slots /\ Fresh(old.slot)
             /\ x.token = cache[old.slot].token
    <3>1. PICK e \in Nat : e = cache[old.slot].expires /\ clock < e
      BY <1>0, <2>9 DEF Fresh, CachesOK
    <3>2. /\ ReplacedSince(replaced, x.token, e - TTL - MaxHold)
          /\ ~stale => IssuedSince(issued, x.token, e - TTL - 2 * MaxHold)
      BY <1>0, <2>9, <3>1 DEF Fresh, CacheAge
    <3>3. /\ e - TTL - MaxHold \in Int /\ e - TTL - 2 * MaxHold \in Int
          /\ t - TTL - MaxHold + 1 <= e - TTL - MaxHold
          /\ t - TTL - 2 * MaxHold + 1 <= e - TTL - 2 * MaxHold
      BY <1>0, <2>1, <3>1
    <3>4. /\ ReplacedSince(replaced', x.token, t - TTL - MaxHold + 1)
          /\ ~stale' => IssuedSince(issued', x.token, t - TTL - 2 * MaxHold + 1)
      BY <1>0, <1>4, <2>1, <3>2, <3>3, StillSince
    <3>5. QED
      BY <2>1, <2>9, <3>4 DEF AgeOK
  <2>10. CASE x.pc = "send" /\ old.pc = "store" /\ x.token = old.token
    <3>1. /\ ReplacedSince(replaced, x.token, t)
          /\ ~stale => IssuedSince(issued, x.token, t - MaxHold)
      BY <1>3, <2>1, <2>10 DEF AgeOK
    <3>2. /\ ReplacedSince(replaced', x.token, t - TTL - MaxHold + 1)
          /\ ~stale' => IssuedSince(issued', x.token, t - TTL - 2 * MaxHold + 1)
      BY <1>0, <1>4, <2>1, <3>1, StillSince
    <3>3. QED
      BY <2>1, <2>10, <3>2 DEF AgeOK
  <2>11. QED
    BY <1>1, <1>7, <2>2, <2>3, <2>4, <2>5, <2>6, <2>7, <2>8, <2>9, <2>10 DEF Advances
<1>8. Moved(r, x)
  BY <1>0, <1>2, RequestMoved
<1>9. CASE x.pc = "idle"
  BY <1>2, <1>9 DEF AgeOK
<1>10. CASE x.start = clock /\ x.pc = "routed"
  BY <1>2, <1>10 DEF AgeOK
<1>11. CASE x.start = clock /\ x.pc = "send" /\ x.token = None
  BY <1>0, <1>2, <1>6, <1>11 DEF Others
<1>12. QED
  BY <1>1, <1>2, <1>5, <1>7, <1>8, <1>9, <1>10, <1>11 DEF Moved

LEMMA AgeInvariant == Spec => []AgeInv
<1>1. AgeInv /\ [Next]_vars => AgeInv'
  <2> SUFFICES ASSUME AgeInv, [Next]_vars PROVE AgeInv'
    OBVIOUS
  <2>1. HomeInv'
    BY HomeStep DEF AgeInv
  <2>2. QED
    BY <2>1, TimesStep, CacheAgeStep, RequestAgeStep DEF AgeInv
<1>2. QED
  BY <1>1, AgeInit, PTL DEF Spec

\* Forwarded tokens are of bounded age, for every time to live, every time a request
\* may be held and all interleavings of lookups, refreshes and stores.
THEOREM SidecarTokenAgeBounded == Spec => []TokenAgeBounded
<1>1. AgeInv => TokenAgeBounded
  <2> SUFFICES ASSUME AgeInv, NEW r \in Reqs, req[r].pc = "send"
               PROVE  LET c == req[r].token
                      IN  /\ \A f \in TokenFiles : \A v \in 1..Len(replaced[f]) :
                               c = Versions(f)[v] => req[r].start - replaced[f][v] < TTL + MaxHold
                          /\ ~stale => \A v \in 1..Len(issued) :
                               c = OciTokens[v] => req[r].start - issued[v] < TTL + 2 * MaxHold
    BY DEF TokenAgeBounded
  <2>1. /\ AgeOK(req[r], replaced, issued, producer, stale) /\ req[r].start \in Nat
        /\ TTL \in Nat /\ MaxHold \in Nat
    BY TimeAssumption DEF AgeInv, TimesOK, RequestAge
  <2>2. ASSUME NEW f \in TokenFiles, NEW v \in 1..Len(replaced[f]), req[r].token = Versions(f)[v]
        PROVE  req[r].start - replaced[f][v] < TTL + MaxHold
    <3>1. replaced[f][v] \in Nat
      BY <2>2 DEF AgeInv, HomeInv, FilesOK
    <3>2. replaced[f][v] >= req[r].start - TTL - MaxHold + 1
      BY <2>1, <2>2 DEF AgeOK, ReplacedSince
    <3>3. QED
      BY <2>1, <3>1, <3>2
  <2>3. ASSUME ~stale, NEW v \in 1..Len(issued), req[r].token = OciTokens[v]
        PROVE  req[r].start - issued[v] < TTL + 2 * MaxHold
    <3>1. issued[v] \in Nat
      BY <2>3 DEF AgeInv, HomeInv, FilesOK
    <3>2. issued[v] >= req[r].start - TTL - 2 * MaxHold + 1
      BY <2>1, <2>3 DEF AgeOK, IssuedSince
    <3>3. QED
      BY <2>1, <3>1, <3>2
  <2>4. QED
    BY <2>2, <2>3
<1>2. QED
  BY <1>1, AgeInvariant, PTL
=============================================================================
