--------------------------- MODULE SidecarRouting ---------------------------
(* Where the sidecar sends a request, and where the server believes it went.   *)
(* The sidecar routes by path (handlers.go parseProxyCall); an adapter that     *)
(* fails reports the sidecar's address in its error message, and the server     *)
(* replaces it by the real target, resolved from the path with rules and        *)
(* settings of its own (api/sidecar_url_rewrite.go).  A path is a sequence of   *)
(* segments; a trailing slash is an empty last segment.                         *)
(*                                                                             *)
(* Mutants: AnywhereInPath of ociPathMatchesRepository.                        *)
EXTENDS SequencesExt

CONSTANTS Repository,  \* the segments of exports.oci.coordinates.oci_repository
          NoTarget

Under(path, prefix) == IsPrefix(prefix, path)

IsEvalHubPath(path) == LET p == <<"api", "v1", "evaluations">>
                       IN  Under(path, p) /\ Len(path) > Len(p)

isMLflowProxyPath(path) ==
  \E p \in {<<"api", "2.0", "mlflow">>, <<"api", "3.0", "mlflow">>, <<"api", "2.0", "mlflow-artifacts">>} :
    Under(path, p)

splitPathSegments(path) == SelectSeq(path, LAMBDA s : s # "")

(* The repository at the start of the path or right after a "v2".              *)
ociRouteMatch(path) ==
  LET parts == splitPathSegments(path)
  IN  \E i \in 1..Len(parts) : /\ Under(SubSeq(parts, i, Len(parts)), Repository)
                               /\ i = 1 \/ parts[i - 1] = "v2"

(* settings: [local, mlflow, model : BOOLEAN, oci : {"off", "ok", "noauth"}].  *)
parseProxyCall(path, settings) ==
  CASE IsEvalHubPath(path)     -> "eval-hub"
    [] ~IsEvalHubPath(path) /\ isMLflowProxyPath(path) ->
         IF settings.mlflow /\ ~settings.local THEN "mlflow" ELSE NoTarget
    [] OTHER -> IF settings.oci = "ok" /\ ~settings.local /\ ociRouteMatch(path) THEN "oci"
                ELSE IF settings.local \/ settings.model THEN "model" ELSE NoTarget

(* The server: its own rules, and the OCI coordinates of the job.  It takes the *)
(* settings from its own configuration, out of which job_config.go makes those  *)
(* of the pod; both are one record here, so a configuration that was changed    *)
(* while the pod runs is left out.                                              *)
AnywhereInPath(path) ==
  LET parts == splitPathSegments(path)
  IN  \E i \in 1..Len(parts) : Under(SubSeq(parts, i, Len(parts)), Repository)
ociPathMatchesRepository(path) ==
  LET parts == splitPathSegments(path)
  IN  \E i \in 1..Len(parts) : /\ Under(SubSeq(parts, i, Len(parts)), Repository)
                               /\ i = 1 \/ parts[i - 1] = "v2"

sidecarURLTargets(settings) ==
  {"eval-hub"} \cup (IF settings.mlflow THEN {"mlflow"} ELSE {})
               \cup (IF settings.model THEN {"model"} ELSE {})
               \cup (IF settings.oci # "off" THEN {"oci"} ELSE {})

(* No known target: the host is removed from the message, the path stays.      *)
resolveSidecarURLTarget(path, settings) ==
  LET known == sidecarURLTargets(settings)
      t == IF IsEvalHubPath(path) THEN "eval-hub"
           ELSE IF isMLflowProxyPath(path) THEN "mlflow"
           ELSE IF "oci" \in known /\ ociPathMatchesRepository(path) THEN "oci" ELSE "model"
  IN  IF t \in known THEN t ELSE NoTarget
=============================================================================
