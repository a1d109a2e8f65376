------------------------------ MODULE ModelRefs ------------------------------
(* The contract between the Kubernetes runtime and the sidecar about model     *)
(* credentials.  The runtime reads the user's Secret and gives the adapter a   *)
(* Secret of synthetic values only (secret_builder.go); the adapter sends one  *)
(* of them as a bearer token, and the sidecar resolves it against the real     *)
(* Secret (proxy/model_proxy.go).  Both sides classify keys by suffix: a key   *)
(* is a record of its prefix and its class.  OnlyApiKeys is a mutant of         *)
(* isCredentialKey.                                                            *)
EXTENDS Naturals

CONSTANTS KeyPrefixes,\* what precedes the suffix of a credential key
          Tokens,     \* credentials a Secret may hold
          Hosts,      \* model hosts
          DefaultHost \* the host of model.url

Empty == "empty"
NoKey == "nokey"

(* "api-key", "*_api-key", "*_sa_token", "*_url", "hf-token", "ca_cert", rest. *)
Keys == [class : {"single", "hf-token", "ca_cert", "other"}, prefix : {NoKey}]
          \cup [class : {"api", "sa", "url"}, prefix : KeyPrefixes]

(* A Secret maps the keys it has to values; the value may be empty.            *)
IsSecret(s) == /\ DOMAIN s \subseteq Keys
               /\ \A k \in DOMAIN s : s[k] \in Tokens \cup Hosts \cup {Empty}

(* secret_builder.go: keys that activate the injection.                        *)
isModelCredentialKey(k) == k.class \in {"single", "api", "sa", "url"}

(* The Secret made for the adapter: a ref for a credential, the sidecar's      *)
(* address for a URL, nothing for any other key.                               *)
internalModelRef(s) ==
  [k \in {q \in DOMAIN s : isModelCredentialKey(q)} |->
     IF k.class = "url" THEN [kind |-> "sidecar-url"]
                        ELSE [kind |-> "ref", key |-> k]]

(* model_proxy.go: keys that may be resolved.                                  *)
OnlyApiKeys(k) == k.class \in {"single", "api"}
isCredentialKey(k) == k.class \in {"single", "api", "sa"}

resolveUpstreamURL(k, cache) ==
  LET u == [class |-> "url", prefix |-> k.prefix]
  IN  IF k.class \in {"api", "sa"} /\ u \in DOMAIN cache /\ cache[u] \in Hosts
        THEN cache[u] ELSE DefaultHost

Unresolved == [ok |-> FALSE]

(* What a ref for key k becomes; saToken is the pod's token or Empty.          *)
resolveModelCredential(k, cache, saToken) ==
  IF ~isCredentialKey(k) \/ k \notin DOMAIN cache THEN Unresolved
  ELSE LET v == IF k.class = "sa" /\ cache[k] = Empty THEN saToken ELSE cache[k]
       IN  IF v = Empty THEN Unresolved
           ELSE [ok |-> TRUE, token |-> v, host |-> resolveUpstreamURL(k, cache)]
=============================================================================
