---------------------------- MODULE MLflowClient ----------------------------
(* The MLflow client of eval-hub (internal/eval_hub/mlflow, pkg/mlflowclient).  *)
(* Requests of a tenant carry its workspace, but only to a server that has      *)
(* workspaces.  WorkspaceSupport finds that out with a probe that concurrent    *)
(* callers share: the first starts it, the others wait for the same answer, and *)
(* a failed probe leaves the question open for the next caller.  The probe runs *)
(* in a goroutine of its own and outlives a caller whose request is given up.   *)
(*                                                                              *)
(* A caller is prepared in steps: "resolve" (asks for the capability),          *)
(* "waiting" (for the probe), "ensure", "create" and "confirm" (EnsureWorkspace *)
(* and its race with other creators), then "ready" or "failed".                 *)
(*                                                                              *)
(* FailureMeansDisabled is a mutant of runProbe.                                *)
EXTENDS Naturals

CONSTANTS Callers,        \* requests that talk to MLflow
          MaxFaults       \* bound on failed calls

VARIABLES server,     \* the tracking server: "workspaces", or "plain" (none, or too old to say)
          support,    \* WorkspaceSupport: "unknown", "enabled" or "disabled"
          inflight,   \* a probe call is registered
          probe,      \* its goroutine: "none", "asking", "answered" or "failed"
          asked,      \* probes now on the wire
          workspace,  \* the tenant's workspace exists on the server
          client,     \* the client copy each caller prepares
          faults

mlflowVars == <<server, support, inflight, probe, asked, workspace, client, faults>>

\* ProbeWorkspacesEnabled: a server that has no server-info has no workspaces.
ProbeWorkspacesEnabled == IF server = "workspaces" THEN "enabled" ELSE "disabled"

\* NewMLFlowClient probes once at startup; a failure is only logged.  The tenant
\* is new: nobody has made its workspace yet.
MLflowInit ==
  /\ server \in {"workspaces", "plain"}
  /\ support \in {"unknown", ProbeWorkspacesEnabled}
  /\ inflight = FALSE /\ probe = "none" /\ asked = 0
  /\ workspace = FALSE
  /\ client = [p \in Callers |-> "idle"]
  /\ faults = 0

Resolved == support # "unknown"

\* Apply: the header is sent when the capability is known to be there.
Header == support = "enabled"

Fault == faults < MaxFaults /\ faults' = faults + 1

Step(p, phase) == client' = [client EXCEPT ![p] = phase]

-----------------------------------------------------------------------------
(* WorkspaceSupport                                                            *)

ResolveCached(p) ==
  /\ client[p] = "resolve" /\ Resolved
  /\ Step(p, "ensure")
  /\ UNCHANGED <<server, support, inflight, probe, asked, workspace, faults>>

\* Resolve, under its mutex: join the call in flight, or register one and start
\* the goroutine that makes it.
ProbeInFlight == inflight

Resolve(p) ==
  /\ client[p] = "resolve" /\ ~Resolved
  /\ Step(p, "waiting")
  /\ IF ProbeInFlight
     THEN UNCHANGED <<inflight, probe, asked>>
     ELSE inflight' = TRUE /\ probe' = "asking" /\ asked' = asked + 1
  /\ UNCHANGED <<server, support, workspace, faults>>

\* waitForProbeCall returns early when the caller's own request is given up.
GiveUp(p) ==
  /\ client[p] = "waiting"
  /\ Fault
  /\ Step(p, "failed")
  /\ UNCHANGED <<server, support, inflight, probe, asked, workspace>>

\* runProbe: what an answer and a failure leave in the capability.
FailureMeansDisabled(ok) == IF ok THEN ProbeWorkspacesEnabled ELSE "disabled"
runProbe(ok)             == IF ok THEN ProbeWorkspacesEnabled ELSE support

ProbeAnswers ==
  /\ probe = "asking"
  /\ \/ support' = runProbe(TRUE) /\ probe' = "answered" /\ UNCHANGED faults
     \/ Fault /\ support' = runProbe(FALSE) /\ probe' = "failed"
  /\ asked' = asked - 1
  /\ UNCHANGED <<server, inflight, workspace, client>>

\* The goroutine publishes its error, unregisters the call and wakes the waiters.
ProbeDone ==
  /\ probe \in {"answered", "failed"}
  /\ inflight' = FALSE /\ probe' = "none"
  /\ client' = [p \in Callers |->
                  IF client[p] # "waiting" THEN client[p]
                  ELSE IF probe = "answered" THEN "ensure" ELSE "failed"]
  /\ UNCHANGED <<server, support, asked, workspace, faults>>

-----------------------------------------------------------------------------
(* EnsureWorkspace: read first, create when missing, and read again when       *)
(* another creator was faster.                                                 *)

GetWorkspace(p) ==
  /\ client[p] = "ensure"
  /\ \/ /\ Step(p, IF ~Header \/ workspace THEN "ready" ELSE "create")
        /\ UNCHANGED faults
     \/ /\ Header /\ Fault /\ Step(p, "failed")
  /\ UNCHANGED <<server, support, inflight, probe, asked, workspace>>

CreateWorkspace(p) ==
  /\ client[p] = "create"
  /\ \/ /\ Step(p, IF workspace THEN "confirm" ELSE "ready")
        /\ workspace' = TRUE
        /\ UNCHANGED faults
     \/ Fault /\ Step(p, "failed") /\ UNCHANGED workspace
  /\ UNCHANGED <<server, support, inflight, probe, asked>>

ConfirmWorkspace(p) ==
  /\ client[p] = "confirm"
  /\ \/ Step(p, "ready") /\ UNCHANGED faults
     \/ Fault /\ Step(p, "failed")
  /\ UNCHANGED <<server, support, inflight, probe, asked, workspace>>

MLflowStep(p) ==
  \/ ResolveCached(p) \/ Resolve(p)
  \/ GetWorkspace(p) \/ CreateWorkspace(p) \/ ConfirmWorkspace(p)

-----------------------------------------------------------------------------
\* However many requests find the capability unknown at once, one server-info
\* request is on the wire at a time, and the call the waiters hold is the one
\* whose goroutine is running (Resolve's mutex and inflight pointer).
OneProbeAtATime == /\ asked <= 1
                   /\ inflight <=> probe # "none"
                   /\ (\E p \in Callers : client[p] = "waiting") => inflight
=============================================================================
