---------------------------- MODULE SidecarProxy ----------------------------
(* The sidecar of a benchmark's pod (or of a local installation): it takes the *)
(* adapter's requests, puts in the credential of the target and forwards them. *)
(* Requests run concurrently and share four cached tokens and the OCI token    *)
(* producer, all of them atomic pointers that are read, refreshed and stored   *)
(* in separate steps.  Token files are rotated and the registry issues new     *)
(* tokens meanwhile.  The clock ticks while requests are in flight; no request *)
(* is held for more than MaxHold ticks (the HTTP clients have timeouts).       *)
(*                                                                             *)
(* Mutants: OneSlot of getTokenPointer, SlidingExpiry of CachedAfterHit,       *)
(* StartAnyway of StoreServer.                                                 *)
EXTENDS ModelRefs, SidecarRouting, FiniteSets

CONSTANTS Reqs,           \* requests in flight
          Paths, Auths,   \* paths and Authorization headers of adapters
          Settings,       \* configurations of sidecars
          Secrets,        \* model Secrets
          SaTokens, MLflowTokens, OciTokens,  \* sequences: token versions in the order of issue
          StaticToken,    \* sidecar.eval_hub.token
          Jobs,           \* local mode: jobs with a sidecar-job-info.json
          None, TTL,
          MaxHold, MaxClock  \* bounds: ticks a request is held; ticks in all

ASSUME TimeAssumption == TTL \in Nat \ {0} /\ MaxHold \in Nat /\ MaxClock \in Nat

ASSUME SettingsAssumption ==
  /\ \A s \in Settings : s.oci \in {"off", "ok", "noauth"}
  /\ \A s \in Secrets : IsSecret(s)
  /\ DefaultHost \in Hosts

(* Every issuer makes tokens of its own and never the same one twice.          *)
Issuers == <<Range(SaTokens), Range(MLflowTokens), Range(OciTokens), {StaticToken},
             Tokens \cup Hosts, {None, Empty, "explicit", "ref"}>>
ASSUME TokensAssumption ==
  /\ SaTokens # <<>> /\ MLflowTokens # <<>>
  /\ \A s \in {SaTokens, MLflowTokens, OciTokens} : s \in Seq(Range(s)) /\ IsInjective(s)
  /\ \A i, j \in 1..6 : i # j => Issuers[i] \cap Issuers[j] = {}
  /\ None # "ref"

VARIABLES
  settings, secret,  \* configuration; the model Secret as loaded at start
  clock,
  file,      \* the version in each token file; 0 is a missing or empty file
  replaced,  \* when each version of a file was replaced (history)
  issued,    \* when each OCI token was issued (history)
  stale,     \* a refresh kept the token it had (history)
  cache,     \* the atomic pointers of auth.go: None or a token and its expiry
  producer,  \* OCITokenProducer.token
  req,       \* the requests
  info, jobs,\* local mode: job-info files on disk; the JobInfoCache
  start,     \* the goroutine that runs Start
  main       \* the main goroutine

tokens == <<file, replaced, issued, stale, cache, producer>>
vars == <<settings, secret, clock, tokens, req, info, jobs, start, main>>

Slots == {"eval-hub", "mlflow", "oci", "model-sa"}
TokenFiles == {"sa", "mlflow"}
Versions(f) == IF f = "sa" THEN SaTokens ELSE MLflowTokens
TokenOf(f) == IF file[f] = 0 THEN None ELSE Versions(f)[file[f]]
SecretTokens == {secret[k] : k \in DOMAIN secret} \ {Empty}
AllTokens == Range(SaTokens) \cup Range(MLflowTokens) \cup Range(OciTokens) \cup {StaticToken} \cup Tokens

NoAuth == [kind |-> "none"]
Idle == [pc |-> "idle", target |-> NoTarget, slot |-> None, auth |-> NoAuth, token |-> None, start |-> 0]
Accepted(pc, target, slot, auth) == [pc |-> pc, target |-> target, slot |-> slot, auth |-> auth,
                                     token |-> None, start |-> clock]
Holding(r, pc, token) == [req[r] EXCEPT !.pc = pc, !.token = token]
Serving(r) == start = "serving" /\ req[r] = Idle
InFlight == {r \in Reqs : req[r] # Idle}

Init ==
  /\ settings \in Settings /\ secret \in Secrets
  /\ clock = 0
  /\ file \in [TokenFiles -> {0, 1}] /\ (settings.mlflow = (file["mlflow"] = 1))
  /\ replaced = [f \in TokenFiles |-> <<>>] /\ issued = <<>> /\ stale = FALSE
  /\ cache = [s \in Slots |-> None] /\ producer = None
  /\ req = [r \in Reqs |-> Idle]
  /\ info = (IF settings.local THEN Jobs ELSE {}) /\ jobs = [j \in Jobs |-> None]
  /\ start = "setup" /\ main = [pc |-> "wait", cancelled |-> FALSE, stored |-> FALSE, shut |-> FALSE]
------------------------------------------------------------------------------
(* Start and Shutdown.                                                         *)

Lifecycle == UNCHANGED <<settings, secret, clock, tokens, info, jobs>>

(* The OCI proxy needs credentials for the registry of the job.                *)
NewProxies == settings.local \/ settings.oci # "noauth"

(* Handlers and proxies are made; a registry without credentials, a missing    *)
(* base URL or a bad certificate end the process.                              *)
setupRoutes ==
  /\ start = "setup"
  /\ NewProxies /\ start' = "store"
  /\ UNCHANGED <<req, main>> /\ Lifecycle
startUpFailed ==
  /\ start = "setup" /\ main.pc # "exited"
  /\ start' = "failed" /\ main' = [main EXCEPT !.pc = "exited"]
  /\ UNCHANGED req /\ Lifecycle

StartAnyway ==
  /\ start = "store"
  /\ main' = [main EXCEPT !.stored = TRUE] /\ start' = "listen"
  /\ UNCHANGED req /\ Lifecycle
StoreServer ==
  /\ start = "store"
  /\ main' = [main EXCEPT !.stored = TRUE]
  /\ start' = IF main.cancelled THEN "closed" ELSE "listen"
  /\ UNCHANGED req /\ Lifecycle

ListenAndServe ==
  /\ start = "listen"
  /\ start' = IF main.shut THEN "closed" ELSE "serving"
  /\ UNCHANGED <<req, main>> /\ Lifecycle

(* Shutdown cancels the context and then looks for the server Start may have   *)
(* stored by now; closing it ends the listener, or keeps it from starting.     *)
Shutdown ==
  /\ \/ main.pc = "wait" /\ main' = [main EXCEPT !.pc = "read", !.cancelled = TRUE] /\ UNCHANGED start
     \/ /\ main.pc = "read"
        /\ main' = [main EXCEPT !.pc = IF main.stored THEN "drain" ELSE "otel", !.shut = main.stored]
        /\ start' = IF main.stored /\ start = "serving" THEN "closed" ELSE start
  /\ UNCHANGED req /\ Lifecycle

(* The requests in flight end or are cut off after 30 seconds (what they still *)
(* send is what they send without a shutdown: one step stands for the rest of  *)
(* them); then the telemetry is flushed and the process ends.                  *)
Drained ==
  /\ main.pc \in {"drain", "otel"}
  /\ main' = [main EXCEPT !.pc = IF main.pc = "drain" THEN "otel" ELSE "exited"]
  /\ req' = [r \in Reqs |-> Idle]
  /\ UNCHANGED start /\ Lifecycle
------------------------------------------------------------------------------
(* Requests.                                                                   *)

OneSlot(target) == IF target \in {"eval-hub", "mlflow"} THEN "eval-hub"
                   ELSE IF target = "model" THEN "model-sa" ELSE target
getTokenPointer(target) == IF target = "model" THEN "model-sa" ELSE target

Fresh(s) == cache[s] # None /\ clock < cache[s].expires
Entry(t) == [token |-> t, expires |-> clock + TTL]

(* A cached token keeps the expiry it was stored with.                         *)
SlidingExpiry(s) == [cache EXCEPT ![s] = Entry(cache[s].token)]
CachedAfterHit(s) == cache

(* The pod's own token is needed for a placeholder and for an empty *_sa_token. *)
NeedsSA(auth) == \/ auth.kind \in {"none", "placeholder"}
                 \/ /\ auth.kind = "ref" /\ auth.key.class = "sa"
                    /\ auth.key \in DOMAIN secret /\ secret[auth.key] = Empty

(* The model proxy: target and credential, or no forwarding at all.            *)
ModelCredential(auth, sa) ==
  CASE auth.kind = "ref" -> resolveModelCredential(auth.key, secret, IF sa = None THEN Empty ELSE sa)
    [] auth.kind \in {"explicit", "empty"} -> [ok |-> TRUE, host |-> DefaultHost, token |-> auth.kind]
    [] OTHER -> [ok |-> TRUE, host |-> DefaultHost, token |-> sa]

(* The request once its token t is known: model requests get their credential  *)
(* and host, or 400 and no more; the others go to their one target, with the   *)
(* adapter's header when there is no token.                                    *)
Resolved(r, t) ==
  IF req[r].target # "model" THEN Holding(r, "send", t)
  ELSE LET c == ModelCredential(req[r].auth, t)
       IN  IF c.ok THEN [req[r] EXCEPT !.pc = "send", !.token = c.token, !.target = c.host]
                   ELSE Idle

(* A path without a target is answered with 400 at once.                       *)
HandleProxyCall(r) ==
  /\ Serving(r) /\ ~settings.local
  /\ \E t \in {parseProxyCall(p, settings) : p \in Paths} \ {NoTarget} :
       \E a \in IF t = "model" THEN Auths ELSE {NoAuth} :
         req' = [req EXCEPT ![r] = Accepted("routed", t, getTokenPointer(t), a)]
  /\ UNCHANGED <<settings, secret, clock, tokens, info, jobs, start, main>>

Step(r, next) == /\ main.pc \in {"wait", "read"}
                 /\ req' = [req EXCEPT ![r] = next]
                 /\ UNCHANGED <<settings, secret, clock, file, replaced, info, jobs, start, main>>

(* The cache, unless the model request needs no token of the pod.              *)
CacheLookup(r) ==
  /\ req[r].pc = "routed"
  /\ LET s == req[r].slot
     IN  \/ req[r].target = "model" /\ ~NeedsSA(req[r].auth)
            /\ Step(r, Resolved(r, None)) /\ UNCHANGED cache
         \/ (req[r].target # "model" \/ NeedsSA(req[r].auth))
            /\ IF Fresh(s)
                 THEN cache' = CachedAfterHit(s) /\ Step(r, Resolved(r, cache[s].token))
                 ELSE UNCHANGED cache /\ Step(r, [req[r] EXCEPT !.pc = IF req[r].target = "oci"
                                                                      THEN "challenge" ELSE "read"])
  /\ UNCHANGED <<issued, stale, producer>>

(* A readable, non-empty file wins over the configured token.                  *)
ReadToken(r) ==
  /\ req[r].pc = "read"
  /\ LET t == TokenOf(IF req[r].target = "mlflow" THEN "mlflow" ELSE "sa")
         static == IF req[r].target = "eval-hub" /\ settings.static THEN StaticToken ELSE None
     IN  Step(r, Holding(r, "store", IF t # None THEN t ELSE static))
  /\ UNCHANGED <<issued, stale, cache, producer>>

StoreToken(r) ==
  /\ req[r].pc = "store"
  /\ cache' = IF req[r].token = None THEN cache
              ELSE [cache EXCEPT ![req[r].slot] = Entry(req[r].token)]
  /\ Step(r, Resolved(r, req[r].token))
  /\ UNCHANGED <<issued, stale, producer>>

(* GET /v2: an error gives up without a token; anything but 401 keeps the      *)
(* token the producer has.                                                     *)
initiateChallenge(r) ==
  /\ req[r].pc = "challenge"
  /\ \/ Step(r, [req[r] EXCEPT !.pc = "token"]) /\ UNCHANGED stale
     \/ Step(r, Resolved(r, None)) /\ UNCHANGED stale
     \/ Step(r, [req[r] EXCEPT !.pc = "get"]) /\ stale' = TRUE
  /\ UNCHANGED <<issued, cache, producer>>

(* The token service: a token, an answer without one, or an error.             *)
createNewToken(r) ==
  /\ req[r].pc = "token"
  /\ \/ /\ Len(issued) < Len(OciTokens)
        /\ issued' = Append(issued, clock)
        /\ Step(r, Holding(r, "set", OciTokens[Len(issued) + 1]))
        /\ UNCHANGED <<stale, producer>>
     \/ Step(r, [req[r] EXCEPT !.pc = "get"]) /\ stale' = TRUE /\ UNCHANGED <<issued, producer>>
     \/ Step(r, Resolved(r, None)) /\ UNCHANGED <<issued, stale, producer>>
  /\ UNCHANGED cache
SetToken(r) ==
  /\ req[r].pc = "set"
  /\ producer' = req[r].token
  /\ Step(r, Holding(r, "get", None))
  /\ UNCHANGED <<issued, stale, cache>>

(* GetToken may return what another request has stored meanwhile.              *)
GetToken(r) ==
  /\ req[r].pc = "get"
  /\ Step(r, Holding(r, "store", producer))
  /\ UNCHANGED <<issued, stale, cache, producer>>

(* The target answers, or the answer is 502; a registry may hand out its next  *)
(* token with the answer.                                                      *)
ModifyResponse(r) ==
  /\ req[r].pc = "send"
  /\ Step(r, Idle)
  /\ \/ UNCHANGED <<issued, cache, producer>>
     \/ /\ req[r].target = "oci" /\ Len(issued) < Len(OciTokens)
        /\ LET t == OciTokens[Len(issued) + 1]
           IN  producer' = t /\ cache' = [cache EXCEPT !["oci"] = Entry(t)]
        /\ issued' = Append(issued, clock)
  /\ UNCHANGED stale
------------------------------------------------------------------------------
(* Local mode: /model/<job>/... goes to the model of that job.  A cached entry *)
(* is served whatever its age until the sweep removes it; an unknown job is    *)
(* answered with 404.                                                          *)

JobInfo(j) == IF jobs[j] = None THEN clock + TTL ELSE jobs[j]

LocalModelCall(r) ==
  /\ Serving(r) /\ settings.local
  /\ \E j \in Jobs :
       /\ jobs[j] # None \/ j \in info
       /\ req' = [req EXCEPT ![r] = Accepted("send", j, None, NoAuth)]
       /\ jobs' = [jobs EXCEPT ![j] = JobInfo(j)]
  /\ UNCHANGED <<settings, secret, clock, tokens, info, start, main>>

sweep ==
  /\ settings.local /\ ~main.cancelled
  /\ \E j \in Jobs : jobs[j] # None /\ clock > jobs[j]
  /\ jobs' = [j \in Jobs |-> IF jobs[j] # None /\ clock > jobs[j] THEN None ELSE jobs[j]]
  /\ UNCHANGED <<settings, secret, clock, tokens, req, info, start, main>>

RemoveJob ==
  /\ \E j \in info : info' = info \ {j}
  /\ UNCHANGED <<settings, secret, clock, tokens, req, jobs, start, main>>
------------------------------------------------------------------------------
Rotate(f) ==
  /\ file[f] \in 1..(Len(Versions(f)) - 1) /\ ~settings.local /\ main.pc = "wait"
  /\ file' = [file EXCEPT ![f] = @ + 1]
  /\ replaced' = [replaced EXCEPT ![f] = Append(@, clock)]
  /\ UNCHANGED <<settings, secret, clock, issued, stale, cache, producer, req, info, jobs, start, main>>

(* An expired entry is never used again and is dropped at once; the seconds of *)
(* a shutdown are not counted.                                                 *)
Tick ==
  /\ clock < MaxClock /\ \A r \in InFlight : clock - req[r].start < MaxHold
  /\ main.pc = "wait"
  /\ clock' = clock + 1
  /\ cache' = [s \in Slots |-> IF cache[s] # None /\ cache[s].expires <= clock' THEN None ELSE cache[s]]
  /\ UNCHANGED <<settings, secret, file, replaced, issued, stale, producer, req, info, jobs, start, main>>

Next ==
  \/ /\ main.pc # "exited"
     /\ \/ setupRoutes \/ startUpFailed \/ StoreServer \/ ListenAndServe \/ Shutdown \/ Drained
        \/ sweep \/ RemoveJob \/ Tick \/ \E f \in TokenFiles : Rotate(f)
        \/ \E r \in Reqs : \/ HandleProxyCall(r) \/ CacheLookup(r) \/ ReadToken(r) \/ StoreToken(r)
                           \/ initiateChallenge(r) \/ createNewToken(r) \/ SetToken(r) \/ GetToken(r)
                           \/ ModifyResponse(r) \/ LocalModelCall(r)

Spec == Init /\ [][Next]_vars
------------------------------------------------------------------------------
(* Types; a cached token is stored for the time it is fresh and no longer.     *)
TypeOK ==
  /\ clock \in 0..MaxClock /\ file \in [TokenFiles -> Nat] /\ stale \in BOOLEAN
  /\ producer \in AllTokens \cup {None} /\ info \subseteq Jobs
  /\ start \in {"setup", "store", "listen", "serving", "closed", "failed"}
  /\ main.pc \in {"wait", "read", "drain", "otel", "exited"}
  /\ \A s \in Slots : cache[s] # None => cache[s].token \in AllTokens /\ cache[s].expires \in 1..(MaxClock + TTL)
  /\ \A r \in Reqs : /\ req[r].pc \in {"idle", "routed", "read", "store", "challenge", "token", "set", "get", "send"}
                     /\ req[r].start \in 0..clock

(* A credential the sidecar holds reaches the target it is for and no other,   *)
(* whatever path and header an adapter sends and whichever requests share the  *)
(* caches: the pod's token goes to the hub, to the model and to a host the     *)
(* Secret names, the MLflow token to MLflow, a registry token to the registry, *)
(* a key of the Secret to the host of that key.  No ref reaches a model.       *)
CredentialStaysHome ==
  \A r \in Reqs : req[r].pc = "send" =>
    LET t == req[r].target  c == req[r].token
    IN  /\ c \in Range(MLflowTokens) => t = "mlflow"
        /\ c \in Range(OciTokens) => t = "oci"
        /\ c \in Range(SaTokens) => t \in {"eval-hub"} \cup Hosts
        /\ c = StaticToken => t = "eval-hub"
        /\ c \in SecretTokens => \E k \in DOMAIN secret : secret[k] = c /\ t = resolveUpstreamURL(k, secret)
        /\ t \in Hosts => c # "ref"

(* How old a forwarded token can be, for all interleavings of lookups,         *)
(* refreshes and stores: a token of a file was replaced, and a registry token  *)
(* issued, less than TTL plus the time requests are held before the request    *)
(* began, unless a registry answered a refresh without a challenge.            *)
TokenAgeBounded ==
  \A r \in Reqs : req[r].pc = "send" =>
    LET c == req[r].token
    IN  /\ \A f \in TokenFiles : \A v \in 1..Len(replaced[f]) :
             c = Versions(f)[v] => req[r].start - replaced[f][v] < TTL + MaxHold
        /\ ~stale => \A v \in 1..Len(issued) :
             c = OciTokens[v] => req[r].start - issued[v] < TTL + 2 * MaxHold

(* The host the server puts into an error message in place of the sidecar's    *)
(* address is the target the sidecar has sent the request to (refs that name a *)
(* host of their own aside), for every path; or the message names none.        *)
MessageNamesTarget ==
  ~settings.local /\ start = "listen" =>
    \A p \in Paths : resolveSidecarURLTarget(p, settings) = parseProxyCall(p, settings)

(* Once Shutdown has returned nothing listens, even if the signal came before  *)
(* Start had stored its server.                                                *)
NoListenerAfterShutdown ==
  main.pc \in {"otel", "exited"} => start # "serving"
=============================================================================
