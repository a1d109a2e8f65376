----------------------------- MODULE JobHandlers -----------------------------
(* The requests that make and move evaluation jobs (internal/eval_hub/handlers):  *)
(* create, status event, cancel and hard delete.  Each is a sequence of calls to  *)
(* the store (the atomic operations of JobStore), to MLflow (MLflowClient), to    *)
(* the runtime and to the metrics, and other requests run between any two of      *)
(* them.  A status event ends with what follows a finished job: the gauges, the   *)
(* evaluation card for MLflow and for the OCI registry.                           *)
(*                                                                                *)
(* MLflow is configured, every job is of one tenant, and the runtime's own work   *)
(* is in K8sRuntime and LocalRuntime: here it only reports events.  Every call    *)
(* may fail, MaxFaults times in a behaviour, a read of the row included; a failed *)
(* call of the store has changed nothing.  A worker of Updates or Cancels handles *)
(* one request: their numbers bound the requests.                                 *)
(*                                                                                *)
(* Mutants: OwnEventOnly of CardJob, FinishedFromRunning of JustFinished.         *)
EXTENDS JobStore, MLflowClient, Integers

CONSTANTS
  Updates,       \* status events in progress: from pods, from the runtime
  Cancels,       \* cancel and delete requests in progress
  Submissions,   \* what clients may post for each job id: see SubmissionsAssumption
  Deliveries,    \* the job events each worker of Updates may be given
  Withdrawals,   \* the cancel (hard: delete) requests each worker of Cancels may be given
  Catalog        \* benchmarks that some provider has

\* config: the job configuration; experiment: it names an MLflow experiment; url:
\* the model has one; recorded, shas: slots whose test data is pre-recorded, and
\* slots for which the client sent a resolved_sha.
ASSUME SubmissionsAssumption ==
  /\ \A j \in Jobs :
       Submissions[j] \subseteq [config : Requests, experiment : BOOLEAN, url : BOOLEAN,
                                recorded : SUBSET Slots, shas : SUBSET Slots]
  /\ \A u \in Updates : Deliveries[u] \subseteq [job : Jobs, event : Events]
  /\ \A c \in Cancels : Withdrawals[c] \subseteq [job : Jobs, hard : BOOLEAN]
  /\ Callers = Jobs \cup Updates

VARIABLES
  create,      \* the create request of each job: its step and what was posted
  update,      \* the status event each worker handles
  cancel,      \* the cancel or delete request each worker handles
  experiment,  \* the workspace that holds the job's experiment, or "none"
  launched,    \* jobs the runtime has accepted
  exports,     \* export attempts of each job
  abandoned,   \* history: finished jobs whose export a failed read of the row ended
  active       \* the active-jobs gauge; the queue-depth gauge moves with it and is left out

handlerVars == <<create, update, cancel, experiment, launched, exports, abandoned, active>>
vars == <<storeVars, mlflowVars, handlerVars>>

NoEvent  == [slot |-> CHOOSE s \in Slots : TRUE, status |-> "pending", tested |-> FALSE]
NoCall   == [pc |-> "idle", job |-> NoJob, event |-> NoEvent, prev |-> "none",
             card |-> EmptyRow.status]
NoCancel == [pc |-> "idle", job |-> NoJob, hard |-> FALSE, prev |-> "none"]
Answered == [NoCall EXCEPT !.pc = "done"]
Gone     == [NoCancel EXCEPT !.pc = "done"]

Init ==
  /\ StoreInit /\ MLflowInit
  /\ create = [j \in Jobs |-> [pc |-> "idle", sub |-> CHOOSE s \in Submissions[j] : TRUE]]
  /\ update = [u \in Updates |-> NoCall]
  /\ cancel = [c \in Cancels |-> NoCancel]
  /\ experiment = [j \in Jobs |-> "none"]
  /\ launched = {}
  /\ exports = [j \in Jobs |-> {}]
  /\ abandoned = {}
  /\ active = 0

-----------------------------------------------------------------------------
(* Creating a job                                                              *)

\* prepareEvaluationJob, validateBenchmarkReferences, validatePreparedEvaluation.
ValidateReadOnlyResolvedSHA(s) == s.shas = {}
ValidateBenchmarkReferences(s) ==
  /\ JobBenchmarks(s.config) # {}
  /\ \A b \in JobBenchmarks(s.config) : b[1] \in Catalog
AllBenchmarksHavePreRecordedData(s) == JobBenchmarks(s.config) \subseteq s.recorded
ValidatePreparedEvaluation(s) == s.url \/ AllBenchmarksHavePreRecordedData(s)

Acceptable(s) == /\ ValidateReadOnlyResolvedSHA(s)
                 /\ ValidateBenchmarkReferences(s)
                 /\ ValidatePreparedEvaluation(s)

Goto(j, pc) == create' = [create EXCEPT ![j].pc = pc]

\* HandleCreateEvaluation up to createPreparedEvaluationJob: an unacceptable
\* request leaves nothing behind; one without an experiment name skips MLflow.
HandleCreateEvaluation(j, s) ==
  /\ create[j].pc = "idle"
  /\ create' = [create EXCEPT ![j] =
       IF Acceptable(s)
       THEN [pc |-> IF s.experiment THEN "mlflow" ELSE "store", sub |-> s]
       ELSE [@ EXCEPT !.pc = "rejected"]]
  /\ client' = [client EXCEPT ![j] = IF create'[j].pc = "mlflow" THEN "resolve" ELSE "idle"]
  /\ UNCHANGED <<storeVars, server, support, inflight, probe, asked, workspace, faults,
                 update, cancel, experiment, launched, exports, abandoned, active>>

\* The experiment is looked up or created with the client copy that was
\* prepared: in the tenant's workspace when the header is sent.
ExperimentWorkspace(j) == IF Header THEN "tenant" ELSE "default"

GetOrCreateExperimentID(j) ==
  /\ create[j].pc = "mlflow" /\ client[j] = "ready"
  /\ \/ /\ experiment' = [experiment EXCEPT ![j] = ExperimentWorkspace(j)]
        /\ Goto(j, "store")
        /\ UNCHANGED faults
     \/ Fault /\ Goto(j, "rejected") /\ UNCHANGED experiment
  /\ Step(j, "idle")
  /\ UNCHANGED <<storeVars, server, support, inflight, probe, asked, workspace,
                 update, cancel, launched, exports, abandoned, active>>

\* MLflow cannot be prepared: the request fails before anything is stored.
MLFlowRequestFailed(j) ==
  /\ create[j].pc = "mlflow" /\ client[j] = "failed"
  /\ Goto(j, "rejected") /\ Step(j, "idle")
  /\ UNCHANGED <<storeVars, server, support, inflight, probe, asked, workspace, faults,
                 update, cancel, experiment, launched, exports, abandoned, active>>

StoreEvaluationJob(j) ==
  /\ create[j].pc = "store"
  /\ \/ /\ \/ CreateEvaluationJob(j, create[j].sub.config)
           \/ CreateEvaluationJobAndUpdateCollection(j, create[j].sub.config)
        /\ Goto(j, "start") /\ UNCHANGED mlflowVars
     \/ /\ Fault /\ Goto(j, "rejected")
        /\ UNCHANGED <<storeVars, server, support, inflight, probe, asked, workspace, client>>
  /\ UNCHANGED <<update, cancel, experiment, launched, exports, abandoned, active>>

\* The new job is counted and handed to the runtime; RunEvaluationJob only fails
\* before its background work starts.
ExecuteEvaluationJob(j) ==
  /\ create[j].pc = "start"
  /\ active' = active + 1
  /\ \/ /\ launched' = launched \cup {j} /\ Goto(j, "accepted") /\ UNCHANGED mlflowVars
     \/ /\ Fault /\ Goto(j, "mark")
        /\ UNCHANGED <<launched, server, support, inflight, probe, asked, workspace, client>>
  /\ UNCHANGED <<storeVars, update, cancel, experiment, exports, abandoned>>

\* A job that is known to end is counted out.
recordEvaluationJobTerminalTransition == active' = active - 1

\* A job that could not be started is marked failed, and counted out as the
\* pending job it was created as; a refused or failed write is only logged.
MarkFailed(j) ==
  /\ create[j].pc = "mark"
  /\ \/ /\ UpdateEvaluationJobStatus(j, "failed")
        /\ recordEvaluationJobTerminalTransition
        /\ UNCHANGED faults
     \/ /\ ~Updatable(jobs[j])
        /\ UNCHANGED <<storeVars, active, faults>>
     \/ /\ Fault
        /\ UNCHANGED <<storeVars, active>>
  /\ Goto(j, "error")
  /\ UNCHANGED <<server, support, inflight, probe, asked, workspace, client,
                 update, cancel, experiment, launched, exports,
                 abandoned>>

-----------------------------------------------------------------------------
(* Status events: HandleUpdateEvaluation and, for the runtime's own reports,   *)
(* runtimeStorage.UpdateEvaluationJob                                          *)

Put(u, r) == update' = [update EXCEPT ![u] = r]

StateSeen(j) == IF Exists(jobs[j]) THEN jobs[j].state ELSE "none"

\* A read that fails leaves the previous state empty, and the event is stored all
\* the same.
ReadPreviousState(u, j, e) ==
  /\ update[u].pc = "idle"
  /\ j \in launched /\ e.slot \in JobBenchmarks(jobs[j].config)
  /\ \E prev \in {StateSeen(j), "none"} :
       /\ Put(u, [pc |-> "store", job |-> j, event |-> e, prev |-> prev,
                  card |-> EmptyRow.status])
       /\ IF prev = StateSeen(j) THEN UNCHANGED faults ELSE Fault
  /\ UNCHANGED <<storeVars, server, support, inflight, probe, asked, workspace, client,
                 create, cancel, experiment, launched, exports, abandoned, active>>

\* An event that is refused or cannot be stored ends the request: nothing after it
\* runs.
StoreEvent(u) ==
  /\ update[u].pc = "store"
  /\ \/ /\ UpdateEvaluationJob(update[u].job, update[u].event)
        /\ Put(u, [update[u] EXCEPT !.pc = "count"])
        /\ UNCHANGED faults
     \/ /\ Updatable(jobs[update[u].job]) => Fault
        /\ ~Updatable(jobs[update[u].job]) => UNCHANGED faults
        /\ Put(u, Answered) /\ UNCHANGED storeVars
  /\ UNCHANGED <<server, support, inflight, probe, asked, workspace, client,
                 create, cancel, experiment, launched, exports, abandoned, active>>

\* recordEvaluationJobTerminalStateAfterUpdate compares the state read before the
\* update with the one it reads now; if it cannot, it counts nothing.
Ended(prev, new) == prev \notin TerminalStates /\ new \in TerminalStates

RecordTerminalStateAfterUpdate(u) ==
  LET new == StateSeen(update[u].job) IN
  /\ update[u].pc = "count"
  /\ \/ active' = active - (IF Ended(update[u].prev, new) THEN 1 ELSE 0) /\ UNCHANGED faults
     \/ Fault /\ UNCHANGED active
  /\ Put(u, [update[u] EXCEPT !.pc = "updated"])
  /\ UNCHANGED <<storeVars, server, support, inflight, probe, asked, workspace, client,
                 create, cancel, experiment, launched, exports, abandoned>>

\* onEvaluationJobUpdated reads the job once more; a job that this update, or one
\* that overlapped it, has finished is exported when its results are eligible.  If
\* the read fails the request ends, and nothing else will export the job.
OwnEventOnly(u) == [EmptyRow.status EXCEPT ![update[u].event.slot] = update[u].event.status]
CardJob(u)      == jobs[update[u].job].status

FinishedFromRunning(prev, row) == IsTerminal(row) /\ prev = "running"
JustFinished(prev, row)        == IsTerminal(row) /\ prev # row.state

IsResultsExportEligible(row) == row.state \in {"completed", "partially_failed"}

onEvaluationJobUpdated(u) ==
  LET row == jobs[update[u].job] IN
  /\ update[u].pc = "updated"
  /\ \/ /\ Put(u, IF JustFinished(update[u].prev, row) /\ IsResultsExportEligible(row)
                  THEN [update[u] EXCEPT !.pc = "export", !.card = CardJob(u)] ELSE Answered)
        /\ UNCHANGED <<abandoned, faults>>
     \/ /\ Fault /\ Put(u, Answered)
        /\ abandoned' = IF IsResultsExportEligible(row) THEN abandoned \cup {update[u].job}
                        ELSE abandoned
  /\ UNCHANGED <<storeVars, server, support, inflight, probe, asked, workspace, client,
                 create, cancel, experiment, launched, exports, active>>

\* Manager.Export: the targets the job enables, each on its own; a failure of one
\* is logged and joined to the error, and the next is tried all the same.
Attempt(u, target, ok) ==
  exports' = [exports EXCEPT ![update[u].job] =
                @ \cup {[target |-> target, ok |-> ok, status |-> update[u].card]}]

MLflowEnabled(j) == create[j].sub.experiment /\ experiment[j] # "none"
OCIEnabled(j)    == create[j].sub.config.oci

BeginExport(u) ==
  LET j == update[u].job IN
  /\ update[u].pc = "export"
  /\ IF MLflowEnabled(j)
     THEN Put(u, [update[u] EXCEPT !.pc = "card"]) /\ Step(u, "resolve")
     ELSE Put(u, [update[u] EXCEPT !.pc = "oci"]) /\ UNCHANGED client
  /\ UNCHANGED <<storeVars, server, support, inflight, probe, asked, workspace, faults,
                 create, cancel, experiment, launched, exports, abandoned, active>>

\* PersistEvalCard: a new run in the job's experiment, and the card uploaded to
\* it; it fails when the client cannot be prepared, and at either of its calls.
PersistEvalCard(u) ==
  /\ update[u].pc = "card"
  /\ \/ client[u] = "ready" /\ Attempt(u, "mlflow", TRUE) /\ UNCHANGED faults
     \/ client[u] = "ready" /\ Attempt(u, "mlflow", FALSE) /\ Fault
     \/ client[u] = "failed" /\ Attempt(u, "mlflow", FALSE) /\ UNCHANGED faults
  /\ Step(u, "idle")
  /\ Put(u, [update[u] EXCEPT !.pc = "oci"])
  /\ UNCHANGED <<storeVars, server, support, inflight, probe, asked, workspace,
                 create, cancel, experiment, launched, abandoned, active>>

PublishEvalCard(u) ==
  /\ update[u].pc = "oci"
  /\ \/ ~OCIEnabled(update[u].job) /\ UNCHANGED <<exports, faults>>
     \/ OCIEnabled(update[u].job) /\ Attempt(u, "oci", TRUE) /\ UNCHANGED faults
     \/ OCIEnabled(update[u].job) /\ Attempt(u, "oci", FALSE) /\ Fault
  /\ Put(u, Answered)
  /\ UNCHANGED <<storeVars, server, support, inflight, probe, asked, workspace, client,
                 create, cancel, experiment, launched, abandoned, active>>

-----------------------------------------------------------------------------
(* Cancel and hard delete                                                      *)

SnapshotJob(c, j, hard) ==
  /\ cancel[c].pc = "idle" /\ Exists(jobs[j])
  /\ cancel' = [cancel EXCEPT ![c] =
                  [pc |-> "signal", job |-> j, hard |-> hard, prev |-> jobs[j].state]]
  /\ UNCHANGED <<storeVars, mlflowVars, create, update, experiment, launched, exports,
                 abandoned, active>>

\* The store is told before the runtime cleans up.  A job already cancelled is
\* left alone, and a write that is refused or fails ends the request; a hard delete
\* moves no gauge.
SignalStore(c) ==
  LET r == cancel[c] IN
  /\ r.pc = "signal"
  /\ \/ /\ r.hard /\ DeleteEvaluationJob(r.job)
        /\ cancel' = [cancel EXCEPT ![c] = Gone] /\ UNCHANGED faults
     \/ /\ ~r.hard /\ r.prev # "cancelled" /\ UpdateEvaluationJobStatus(r.job, "cancelled")
        /\ cancel' = [cancel EXCEPT ![c].pc = "count"] /\ UNCHANGED faults
     \/ /\ \/ /\ IF r.hard THEN ~Exists(jobs[r.job])
                 ELSE r.prev = "cancelled" \/ ~Updatable(jobs[r.job])
              /\ UNCHANGED faults
           \/ Fault
        /\ cancel' = [cancel EXCEPT ![c] = Gone]
        /\ UNCHANGED storeVars
  /\ UNCHANGED <<server, support, inflight, probe, asked, workspace, client,
                 create, update, experiment, launched, exports, abandoned, active>>

CountCancelled(c) ==
  /\ cancel[c].pc = "count"
  /\ IF cancel[c].prev \in TerminalStates THEN UNCHANGED active
     ELSE recordEvaluationJobTerminalTransition
  /\ cancel' = [cancel EXCEPT ![c] = Gone]
  /\ UNCHANGED <<storeVars, mlflowVars, create, update, experiment, launched, exports,
                 abandoned>>

-----------------------------------------------------------------------------
CreateStep(j) ==
  \/ GetOrCreateExperimentID(j) \/ MLFlowRequestFailed(j) \/ StoreEvaluationJob(j)
  \/ ExecuteEvaluationJob(j) \/ MarkFailed(j)

UpdateStep(u) ==
  \/ StoreEvent(u) \/ RecordTerminalStateAfterUpdate(u) \/ onEvaluationJobUpdated(u)
  \/ BeginExport(u) \/ PersistEvalCard(u) \/ PublishEvalCard(u)

CancelStep(c) == SignalStore(c) \/ CountCancelled(c)

ClientStep(p) == MLflowStep(p) /\ UNCHANGED <<storeVars, handlerVars>>
ProbeStep     == (ProbeAnswers \/ ProbeDone) /\ UNCHANGED <<storeVars, handlerVars>>

Next ==
  \/ \E j \in Jobs : (\E s \in Submissions[j] : HandleCreateEvaluation(j, s)) \/ CreateStep(j)
  \/ \E u \in Updates :
       \/ \E d \in Deliveries[u] : ReadPreviousState(u, d.job, d.event)
       \/ UpdateStep(u)
  \/ \E c \in Cancels :
       \/ \E w \in Withdrawals[c] : SnapshotJob(c, w.job, w.hard)
       \/ CancelStep(c)
  \/ \E p \in Callers : ClientStep(p) \/ (GiveUp(p) /\ UNCHANGED <<storeVars, handlerVars>>)
  \/ ProbeStep

\* Handlers run to their end: each is a goroutine that only waits for calls that
\* time out (the store, the MLflow client, the 5 s probe).
Fairness ==
  /\ \A j \in Jobs : WF_vars(CreateStep(j))
  /\ \A u \in Updates : WF_vars(UpdateStep(u))
  /\ \A c \in Cancels : WF_vars(CancelStep(c))
  /\ \A p \in Callers : WF_vars(ClientStep(p))
  /\ WF_vars(ProbeStep)

Spec == Init /\ [][Next]_vars /\ Fairness

-----------------------------------------------------------------------------
(* Properties                                                                  *)

\* The experiment a job records is in the workspace its pods will look for it:
\* the tenant's when the server has workspaces, and then that workspace exists;
\* a probe that failed, was shared or was given up never sends a tenant's
\* experiment to the default workspace (GetOrCreateExperimentID, PrepareClient).
ExperimentInTenantWorkspace ==
  \A j \in Jobs : experiment[j] # "none" =>
    IF server = "workspaces" THEN experiment[j] = "tenant" /\ workspace
    ELSE experiment[j] = "default"

\* Every card that leaves eval-hub shows the finished job: a terminal status for
\* each benchmark, and the very statuses the stored row keeps (the row is read
\* again after the update; onEvaluationJobUpdated, exportEvaluationResults).
CardIsFinal ==
  \A j \in Jobs : \A x \in exports[j] :
    /\ \A b \in JobBenchmarks(create[j].sub.config) : x.status[b] \in {"completed", "failed"}
    /\ Exists(jobs[j]) => x.status = jobs[j].status

\* A job that finishes with results is exported to every target it enables,
\* whichever of the racing events finished it and whatever state each of them
\* read first, unless the job is deleted meanwhile or the request that was to
\* export it could not read its row back: the code does not try that again.  A
\* failed MLflow export does not keep the card from the registry.
Exported(j) ==
  /\ MLflowEnabled(j) => \E x \in exports[j] : x.target = "mlflow"
  /\ OCIEnabled(j) => \E x \in exports[j] : x.target = "oci"
FinishedJobIsExported ==
  \A j \in Jobs :
    IsResultsExportEligible(jobs[j]) ~> (Exported(j) \/ ~Exists(jobs[j]) \/ j \in abandoned)

\* Nobody has to remember that a job is still to be exported: as long as a job with
\* results is in the store and a target it enables was not tried, some request
\* that stored an event of it has the export ahead, or had it and could not read
\* the row of the finished job, the only way an export gets lost.  No interleaving
\* of racing events lets each of them leave the export to another, each having
\* read the state before or after the other's write (the state read by
\* HandleUpdateEvaluation before the update, the row read by onEvaluationJobUpdated
\* after it).
ExportAhead(u, j) ==
  /\ update[u].job = j
  /\ \/ update[u].pc \in {"count", "updated"} /\ update[u].prev \notin TerminalStates
     \/ update[u].pc \in {"export", "card"}
     \/ /\ update[u].pc = "oci"
        /\ MLflowEnabled(j) => \E x \in exports[j] : x.target = "mlflow"
ExportOwed ==
  \A j \in Jobs : IsResultsExportEligible(jobs[j]) =>
    Exported(j) \/ j \in abandoned \/ \E u \in Updates : ExportAhead(u, j)

\* When no request is in progress the active-jobs gauge is the number of jobs
\* that are not finished (metrics/evaluation.go: incremented on creation,
\* decremented on a terminal state or cancellation).
Quiet == /\ \A j \in Jobs : create[j].pc \in {"idle", "rejected", "accepted", "error"}
         /\ \A u \in Updates : update[u].pc \in {"idle", "done"}
         /\ \A c \in Cancels : cancel[c].pc \in {"idle", "done"}
ActiveGaugeIsExact == Quiet => active = Cardinality({j \in Jobs : Updatable(jobs[j])})
=============================================================================
