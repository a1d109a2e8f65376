------------------------------ MODULE K8sRuntime ------------------------------
(***************************************************************************)
(* The Kubernetes runtime (internal/eval_hub/runtimes/k8s) for one         *)
(* evaluation: the goroutine that creates the resources of one benchmark   *)
(* after the other, the delete and cancel requests that run meanwhile on   *)
(* this or another replica, and the cluster both talk to.                  *)
(*                                                                         *)
(* Every API call may be refused, and a write may take effect although its *)
(* answer is lost.  Faults are bounded by MaxFaults so that retries end.   *)
(*                                                                         *)
(* As in JobRows, a definition right before another with its parameters    *)
(* may be a mutant of it: CertainlyFailed of ConfirmOutcome, ActiveUnknown *)
(* of KeepWaiting, StopWithoutSweep of SweepAfterAbort, SkipRollback of    *)
(* RollbackDelete, NeverAdvance of Advance.                                *)
(***************************************************************************)
EXTENDS Naturals, FiniteSets

CONSTANTS
    N,           \* number of benchmarks of the evaluation
    MaxFaults,   \* bound on failed API calls and storage reads
    Handlers     \* the delete requests that may arrive

Workloads == {"evaluation", "post_processing"}

ASSUME RuntimeAssumption ==
    /\ N \in Nat \ {0} /\ MaxFaults \in Nat
    /\ Handlers \subseteq {"cancel", "hard_delete", "delete_post_processing"}

Bench    == 0 .. N - 1
Sweepers == Handlers \cup {"loop"}

VARIABLES
    workload,    \* the kind of the stored job; each kind has its own endpoints
    stored,      \* the evaluation row as GetEvaluationJob shows it
    job,         \* benchmark -> its Job: "none", "live", "deleting"
    policy,      \* benchmark -> its NetworkPolicy: "none" or its owner
    configMap,   \* benchmark -> its ConfigMap: "none", "unowned" or "job"
    secret,      \* benchmark -> its model-ref secret: "none", "unowned" or "job"
    pc, bench,   \* the create loop: next step, current benchmark
    err,         \* createBenchmarkResources is returning an error
    undo,        \* what the rollback under way still has to delete
    sweep,       \* sweeper -> progress of DeleteEvaluationJobResources
    handler,     \* delete request -> "idle", "sweeping", "signal" or "done"
    outcome,     \* benchmark -> what the loop made of it: "none", "created",
                 \* "failed" (reported to the store) or "unreported"
    uncertain,   \* benchmarks whose creation outcome the loop could not confirm
    tampered,    \* benchmarks whose ConfigMap somebody else deleted
    unhandled,   \* benchmarks with a failure the loop does not act on: a create
                 \* whose answer was lost, an owner that was not set, a failed cleanup
    closed,      \* Close() was called: the service is shutting down
    sweepFailed, \* a call of some sweep failed
    faults       \* failed calls so far

cluster  == <<job, policy, configMap, secret>>
loopVars == <<pc, bench, err, undo>>
history  == <<outcome, uncertain, tampered, unhandled>>
vars == <<workload, stored, cluster, loopVars, sweep, handler, history, closed, sweepFailed, faults>>

\* The outcomes of an API call: answered, refused, or done with the answer lost.
Outcomes   == {"ok", "refused", "lost"}
Outcome(o) == IF o = "ok" THEN UNCHANGED faults
              ELSE faults < MaxFaults /\ faults' = faults + 1
Applied(o) == o # "refused"
NoFault    == UNCHANGED faults
Fault      == faults < MaxFaults /\ faults' = faults + 1

At(l)    == pc = l /\ UNCHANGED <<workload, closed, handler, tampered>>
Goto(l)  == pc' = l /\ UNCHANGED <<bench, undo>>
\* Return from createBenchmarkResources after deleting what is in todo.
Return(todo, failed) ==
    /\ pc' = (IF todo = {} THEN "postcheck" ELSE "undo")
    /\ undo' = todo /\ err' = failed /\ UNCHANGED bench

\* A failure of which the benchmark keeps something that nobody undoes.
Unhandled(p) == unhandled' = IF p THEN unhandled \cup {bench} ELSE unhandled

IdleSweep == [left |-> 0, phase |-> "list", jobs |-> {}]
NewSweep  == [left |-> 2, phase |-> "list", jobs |-> {}]

-----------------------------------------------------------------------------
(* The create loop: RunEvaluationJob                                       *)

\* handleCreateAbortDecision with awaitCreateAbortStatus and checkCreateAbort:
\* an unknown answer keeps the loop waiting until the runtime is closed.
ActiveUnknown(next) == pc' = next /\ Fault /\ UNCHANGED sweep
KeepWaiting(next)   == pc' = pc /\ Fault /\ UNCHANGED sweep
StopWithoutSweep == pc' = "done" /\ UNCHANGED sweep
SweepAfterAbort  == pc' = "sweep" /\ sweep' = [sweep EXCEPT !["loop"] = NewSweep]
AbortDecision(next) ==
    \/ ~closed /\ stored = "active" /\ pc' = next /\ NoFault /\ UNCHANGED sweep
    \/ ~closed /\ stored # "active" /\ SweepAfterAbort /\ NoFault
    \/ ~closed /\ KeepWaiting(next)
    \/ closed /\ pc' = "done" /\ NoFault /\ UNCHANGED sweep

PreCreateCheck ==
    /\ At("precheck")
    /\ AbortDecision("secret")
    /\ err' = FALSE
    /\ UNCHANGED <<stored, cluster, bench, undo, outcome, uncertain, unhandled, sweepFailed>>

\* Provider lookup, configuration and secret inspection fail before anything
\* exists; a failed secret creation deletes nothing either.
CreateSecret ==
    /\ At("secret")
    /\ \E o \in Outcomes :
          /\ Outcome(o)
          /\ secret' = IF Applied(o) THEN [secret EXCEPT ![bench] = "unowned"] ELSE secret
          /\ Unhandled(o = "lost")
          /\ IF o = "ok" THEN Goto("configmap") /\ UNCHANGED err ELSE Return({}, TRUE)
    /\ UNCHANGED <<stored, job, policy, configMap, sweep, outcome, uncertain, sweepFailed>>

CreateConfigMap ==
    /\ At("configmap")
    /\ \E o \in Outcomes :
          /\ Outcome(o)
          /\ configMap' = IF Applied(o) THEN [configMap EXCEPT ![bench] = "unowned"]
                          ELSE configMap
          /\ Unhandled(o = "lost")
          /\ IF o = "ok" THEN Goto("policy") /\ UNCHANGED err ELSE Return({"secret"}, TRUE)
    /\ UNCHANGED <<stored, job, policy, secret, sweep, outcome, uncertain, sweepFailed>>

\* The policy belongs to the ConfigMap until the Job exists.
CreateNetworkPolicy ==
    /\ At("policy")
    /\ \E o \in Outcomes :
          /\ Outcome(o)
          /\ policy' = IF Applied(o) THEN [policy EXCEPT ![bench] = "configmap"] ELSE policy
          /\ IF o = "ok" THEN Goto("job") /\ UNCHANGED err
             ELSE Return({"secret", "configmap"}, TRUE)
    /\ UNCHANGED <<stored, job, configMap, secret, sweep, outcome, uncertain, unhandled,
                   sweepFailed>>

CreateJob ==
    /\ At("job")
    /\ \E o \in Outcomes :
          /\ Outcome(o)
          /\ job' = IF Applied(o) THEN [job EXCEPT ![bench] = "live"] ELSE job
          /\ Goto(IF o = "ok" THEN "policyOwner" ELSE "confirm")
    /\ UNCHANGED <<stored, policy, configMap, secret, err, sweep, outcome, uncertain,
                   unhandled, sweepFailed>>

\* After a failed create: was it persisted all the same?
CertainlyFailed ==
    \/ job[bench] = "none" /\ NoFault /\ Return({"secret", "configmap"}, TRUE) /\ UNCHANGED uncertain
    \/ job[bench] # "none" /\ NoFault /\ Goto("policyOwner") /\ UNCHANGED <<err, uncertain>>
    \/ Fault /\ Return({"secret", "configmap"}, TRUE) /\ uncertain' = uncertain \cup {bench}
ConfirmOutcome ==
    \/ job[bench] = "none" /\ NoFault /\ Return({"secret", "configmap"}, TRUE) /\ UNCHANGED uncertain
    \/ job[bench] # "none" /\ NoFault /\ Goto("policyOwner") /\ UNCHANGED <<err, uncertain>>
    \/ Fault /\ Return({}, TRUE) /\ uncertain' = uncertain \cup {bench}
ConfirmJob ==
    /\ At("confirm")
    /\ ConfirmOutcome
    /\ UNCHANGED <<stored, cluster, sweep, outcome, unhandled, sweepFailed>>

\* Hand the policy over to the Job; on any error delete the Job again.
SetNetworkPolicyOwner ==
    /\ At("policyOwner")
    /\ \/ /\ policy[bench] # "none"
          /\ \E o \in Outcomes :
                /\ Outcome(o)
                /\ policy' = IF Applied(o) THEN [policy EXCEPT ![bench] = "job"] ELSE policy
                /\ Goto(IF o = "ok" THEN "configMapOwner" ELSE "rollbackDelete")
       \/ policy[bench] = "none" /\ NoFault /\ Goto("rollbackDelete") /\ UNCHANGED policy
    /\ UNCHANGED <<stored, job, configMap, secret, err, sweep, outcome, uncertain, unhandled,
                   sweepFailed>>

Deleting(b) == IF job[b] = "live" THEN [job EXCEPT ![b] = "deleting"] ELSE job

SkipRollback ==
    /\ At("rollbackDelete") /\ NoFault /\ Return({}, TRUE)
    /\ UNCHANGED <<stored, cluster, sweep, outcome, uncertain, unhandled, sweepFailed>>
RollbackDelete ==
    /\ At("rollbackDelete")
    /\ \E o \in Outcomes :
          /\ Outcome(o)
          /\ job' = IF Applied(o) THEN Deleting(bench) ELSE job
          /\ IF o = "ok" THEN Goto("rollbackWait") /\ UNCHANGED <<err, uncertain>>
             ELSE Return({}, TRUE) /\ uncertain' = uncertain \cup {bench}
    /\ UNCHANGED <<stored, policy, configMap, secret, sweep, outcome, unhandled, sweepFailed>>

\* The supporting resources stay until the Job is gone; a failed poll or the
\* timeout gives up.
JobDeletionOutcome ==
    \/ job[bench] = "none" /\ NoFault /\ Return({"secret", "configmap"}, TRUE) /\ UNCHANGED uncertain
    \/ Fault /\ Return({}, TRUE) /\ uncertain' = uncertain \cup {bench}
RollbackWait ==
    /\ At("rollbackWait")
    /\ JobDeletionOutcome
    /\ UNCHANGED <<stored, cluster, sweep, outcome, unhandled, sweepFailed>>

\* A missing ConfigMap makes the Job useless; other errors are only logged.
SetConfigMapOwner ==
    /\ At("configMapOwner")
    /\ \/ /\ configMap[bench] # "none"
          /\ \E o \in Outcomes :
                /\ Outcome(o)
                /\ configMap' = IF Applied(o) THEN [configMap EXCEPT ![bench] = "job"]
                                ELSE configMap
                /\ Unhandled(~Applied(o))
                /\ Goto("secretOwner")
       \/ /\ configMap[bench] = "none" /\ NoFault /\ Goto("orphanDelete")
          /\ UNCHANGED <<configMap, unhandled>>
    /\ UNCHANGED <<stored, job, policy, secret, err, sweep, outcome, uncertain, sweepFailed>>

\* Deleting that Job is not reported as an error of the benchmark.
DeleteOrphanedJob ==
    /\ At("orphanDelete")
    /\ \E o \in Outcomes :
          /\ Outcome(o)
          /\ job' = IF Applied(o) THEN Deleting(bench) ELSE job
          /\ IF o = "ok" THEN Return({"secret"}, FALSE) /\ UNCHANGED uncertain
             ELSE Return({}, TRUE) /\ uncertain' = uncertain \cup {bench}
    /\ UNCHANGED <<stored, policy, configMap, secret, sweep, outcome, unhandled, sweepFailed>>

SetSecretOwner ==
    /\ At("secretOwner")
    /\ \/ /\ secret[bench] # "none"
          /\ \E o \in Outcomes :
                /\ Outcome(o)
                /\ secret' = IF Applied(o) THEN [secret EXCEPT ![bench] = "job"] ELSE secret
                /\ Unhandled(o # "ok")
                /\ Return(IF o = "ok" THEN {} ELSE {"secret"}, FALSE)
       \/ /\ secret[bench] = "none" /\ NoFault /\ Return({"secret"}, FALSE)
          /\ UNCHANGED <<secret, unhandled>>
    /\ UNCHANGED <<stored, job, policy, configMap, sweep, outcome, uncertain, sweepFailed>>

\* cleanupModelRefSecret, then cleanupConfigMap; failures are only logged.
Cleanup ==
    /\ At("undo")
    /\ \E o \in Outcomes :
          LET r == IF "secret" \in undo THEN "secret" ELSE "configmap" IN
          /\ Outcome(o)
          /\ secret' = IF r = "secret" /\ Applied(o) THEN [secret EXCEPT ![bench] = "none"]
                       ELSE secret
          /\ configMap' = IF r = "configmap" /\ Applied(o)
                          THEN [configMap EXCEPT ![bench] = "none"] ELSE configMap
          /\ Unhandled(~Applied(o))
          /\ Return(undo \ {r}, err)
    /\ UNCHANGED <<stored, job, policy, sweep, outcome, uncertain, sweepFailed>>

\* On to the next benchmark.
NeverAdvance == pc' = "precheck" /\ UNCHANGED bench
Advance == IF bench + 1 < N
           THEN pc' = "precheck" /\ bench' = bench + 1
           ELSE pc' = "done" /\ UNCHANGED bench

PostCreateCheck ==
    /\ At("postcheck")
    /\ AbortDecision("next")
    /\ UNCHANGED <<stored, cluster, bench, err, undo, outcome, uncertain, unhandled, sweepFailed>>

\* A creation error is reported as a failed benchmark; the store may refuse.
Ends(o) == outcome' = [outcome EXCEPT ![bench] = o]
ReportFailure ==
    /\ At("next")
    /\ Advance
    /\ \/ ~err /\ NoFault /\ Ends("created")
       \/ err /\ stored = "active" /\ NoFault /\ Ends("failed")
       \/ err /\ stored # "active" /\ NoFault /\ Ends("unreported")
       \/ err /\ Fault /\ Ends("unreported")
    /\ UNCHANGED <<stored, cluster, err, undo, sweep, uncertain, unhandled, sweepFailed>>

\* Close() and the end of the process: the goroutine stops wherever it is.
Close ==
    /\ ~closed /\ closed' = TRUE
    /\ UNCHANGED <<workload, stored, cluster, loopVars, sweep, handler, history, sweepFailed, faults>>

ProcessExit ==
    /\ closed /\ pc # "done"
    /\ pc' = "done" /\ sweep' = [sweep EXCEPT !["loop"] = IdleSweep]
    /\ UNCHANGED <<workload, stored, cluster, bench, err, undo, handler, history, closed, sweepFailed,
                   faults>>

-----------------------------------------------------------------------------
(* Sweeps: DeleteEvaluationJobResources                                    *)

Sweeping(w) == sweep[w].left > 0

SweepOver(w) == [left |-> sweep[w].left - 1, phase |-> "list", jobs |-> {}]

\* A failed list ends this sweep; the second sweep is independent.
SweepListJobs(w) ==
    /\ Sweeping(w) /\ sweep[w].phase = "list"
    /\ \/ /\ NoFault /\ UNCHANGED sweepFailed
          /\ sweep' = [sweep EXCEPT ![w] = [@ EXCEPT !.phase = "jobs",
                                            !.jobs = {b \in Bench : job[b] # "none"}]]
       \/ /\ Fault /\ sweepFailed' = TRUE
          /\ sweep' = [sweep EXCEPT ![w] = SweepOver(w)]
    /\ UNCHANGED <<workload, stored, cluster, loopVars, handler, history, closed>>

\* Each delete may fail on its own.
SweepDeleteJobs(w) ==
    /\ Sweeping(w) /\ sweep[w].phase = "jobs"
    /\ \E failed \in SUBSET sweep[w].jobs :
          /\ IF failed = {} THEN NoFault /\ UNCHANGED sweepFailed
             ELSE Fault /\ sweepFailed' = TRUE
          /\ job' = [b \in Bench |-> IF b \in sweep[w].jobs \ failed /\ job[b] = "live"
                                     THEN "deleting" ELSE job[b]]
    /\ sweep' = [sweep EXCEPT ![w].phase = "secrets"]
    /\ UNCHANGED <<workload, stored, policy, configMap, secret, loopVars, handler, history, closed>>

SweepDeleteSecrets(w) ==
    /\ Sweeping(w) /\ sweep[w].phase = "secrets"
    /\ \/ NoFault /\ secret' = [b \in Bench |-> "none"] /\ UNCHANGED sweepFailed
       \/ Fault /\ sweepFailed' = TRUE /\ UNCHANGED secret
    /\ sweep' = [sweep EXCEPT ![w] = SweepOver(w)]
    /\ UNCHANGED <<workload, stored, job, policy, configMap, loopVars, handler, history, closed>>

LoopSweepEnds ==
    /\ At("sweep") /\ ~Sweeping("loop")
    /\ pc' = "done"
    /\ UNCHANGED <<stored, cluster, bench, err, undo, sweep, outcome, uncertain, unhandled,
                   sweepFailed, faults>>

-----------------------------------------------------------------------------
(* Delete requests                                                         *)

\* HandleCancelEvaluation: the row is cancelled or deleted first, then swept.
\* A row of the other kind is not found; a cancel of a cancelled job and a
\* refused update end without a sweep.
Signal(h) == IF h = "cancel" THEN "cancelled" ELSE "deleted"
HandleCancelEvaluation(h) ==
    /\ h # "delete_post_processing" /\ handler[h] = "idle"
    /\ \/ /\ workload = "evaluation"
          /\ stored # "deleted" /\ (h = "cancel" => stored = "active")
          /\ stored' = Signal(h)
          /\ handler' = [handler EXCEPT ![h] = "sweeping"]
          /\ sweep' = [sweep EXCEPT ![h] = NewSweep]
       \/ /\ handler' = [handler EXCEPT ![h] = "done"]
          /\ UNCHANGED <<stored, sweep>>
    /\ UNCHANGED <<workload, cluster, loopVars, history, closed, sweepFailed, faults>>

\* HandleDeletePostProcessing: sweeps first, then deletes the row.  (It would not
\* sweep for a cancelled job; nothing cancels a post-processing job.)
HandleDeletePostProcessing(h) ==
    /\ h = "delete_post_processing" /\ handler[h] = "idle"
    /\ workload = "post_processing" /\ stored = "active"
    /\ handler' = [handler EXCEPT ![h] = "sweeping"]
    /\ sweep' = [sweep EXCEPT ![h] = NewSweep]
    /\ UNCHANGED <<workload, stored, cluster, loopVars, history, closed, sweepFailed, faults>>

HandlerSweepEnds(h) ==
    /\ handler[h] = "sweeping" /\ ~Sweeping(h)
    /\ handler' = [handler EXCEPT ![h] =
                      IF h = "delete_post_processing" THEN "signal" ELSE "done"]
    /\ UNCHANGED <<workload, stored, cluster, loopVars, sweep, history, closed, sweepFailed, faults>>

DeletePostProcessingRow(h) ==
    /\ handler[h] = "signal"
    /\ stored' = "deleted"
    /\ handler' = [handler EXCEPT ![h] = "done"]
    /\ UNCHANGED <<workload, cluster, loopVars, sweep, history, closed, sweepFailed, faults>>

-----------------------------------------------------------------------------
(* The cluster                                                             *)

\* A foreground deletion ends, and the garbage collector removes what belongs
\* to an object that is gone or, for the Job's own, going.
FinishJobDeletion(b) ==
    /\ job[b] = "deleting"
    /\ job' = [job EXCEPT ![b] = "none"]
    /\ UNCHANGED <<workload, stored, policy, configMap, secret, loopVars, sweep, handler, history, closed,
                   sweepFailed, faults>>

CollectGarbage(b) ==
    /\ \/ /\ policy[b] = "configmap" /\ configMap[b] = "none"
          /\ policy' = [policy EXCEPT ![b] = "none"] /\ UNCHANGED <<configMap, secret>>
       \/ /\ policy[b] = "job" /\ job[b] # "live"
          /\ policy' = [policy EXCEPT ![b] = "none"] /\ UNCHANGED <<configMap, secret>>
       \/ /\ configMap[b] = "job" /\ job[b] # "live"
          /\ configMap' = [configMap EXCEPT ![b] = "none"] /\ UNCHANGED <<policy, secret>>
       \/ /\ secret[b] = "job" /\ job[b] # "live"
          /\ secret' = [secret EXCEPT ![b] = "none"] /\ UNCHANGED <<policy, configMap>>
    /\ UNCHANGED <<workload, stored, job, loopVars, sweep, handler, history, closed, sweepFailed, faults>>

\* Somebody with access to the namespace deletes the ConfigMap.
ExternalDelete(b) ==
    /\ configMap[b] # "none" /\ Fault
    /\ configMap' = [configMap EXCEPT ![b] = "none"]
    /\ tampered' = tampered \cup {b}
    /\ UNCHANGED <<workload, stored, job, policy, secret, loopVars, sweep, handler, outcome, uncertain,
                   unhandled, closed, sweepFailed>>

-----------------------------------------------------------------------------
Init ==
    /\ workload \in Workloads
    /\ stored = "active"
    /\ job = [b \in Bench |-> "none"] /\ policy = [b \in Bench |-> "none"]
    /\ configMap = [b \in Bench |-> "none"] /\ secret = [b \in Bench |-> "none"]
    /\ pc = "precheck" /\ bench = 0 /\ err = FALSE /\ undo = {}
    /\ sweep = [w \in Sweepers |-> IdleSweep]
    /\ handler = [h \in Handlers |-> "idle"]
    /\ outcome = [b \in Bench |-> "none"] /\ uncertain = {} /\ tampered = {}
    /\ unhandled = {}
    /\ closed = FALSE /\ sweepFailed = FALSE /\ faults = 0

LoopStep ==
    \/ PreCreateCheck \/ CreateSecret \/ CreateConfigMap \/ CreateNetworkPolicy \/ CreateJob
    \/ ConfirmJob \/ SetNetworkPolicyOwner \/ RollbackDelete \/ RollbackWait
    \/ SetConfigMapOwner \/ DeleteOrphanedJob \/ SetSecretOwner \/ Cleanup
    \/ PostCreateCheck \/ ReportFailure \/ LoopSweepEnds
SweepStep(w)   == SweepListJobs(w) \/ SweepDeleteJobs(w) \/ SweepDeleteSecrets(w)
HandlerStep(h) == HandlerSweepEnds(h) \/ DeletePostProcessingRow(h)

Next ==
    \/ LoopStep
    \/ Close \/ ProcessExit
    \/ \E w \in Sweepers : SweepStep(w)
    \/ \E h \in Handlers : HandleCancelEvaluation(h) \/ HandleDeletePostProcessing(h)
    \/ \E h \in Handlers : HandlerStep(h)
    \/ \E b \in Bench : FinishJobDeletion(b) \/ CollectGarbage(b) \/ ExternalDelete(b)

\* The goroutine, started requests and the cluster's controllers keep running;
\* nobody has to send a request, delete a ConfigMap or shut the service down.
Fairness ==
    /\ WF_vars(LoopStep)
    /\ \A w \in Sweepers : WF_vars(SweepStep(w))
    /\ \A h \in Handlers : WF_vars(HandlerStep(h))
    /\ \A b \in Bench : WF_vars(FinishJobDeletion(b))

Spec == Init /\ [][Next]_vars /\ Fairness

-----------------------------------------------------------------------------
(* Properties                                                              *)

Labels == {"precheck", "secret", "configmap", "policy", "job", "confirm", "policyOwner",
           "rollbackDelete", "rollbackWait", "configMapOwner", "orphanDelete", "secretOwner",
           "undo", "postcheck", "next", "sweep", "done"}

\* The variables have the values the code can give them, and the API calls that
\* failed stay within the bound.
TypeOK ==
    /\ workload \in Workloads /\ stored \in {"active", "cancelled", "deleted"}
    /\ job \in [Bench -> {"none", "live", "deleting"}]
    /\ policy \in [Bench -> {"none", "configmap", "job"}]
    /\ configMap \in [Bench -> {"none", "unowned", "job"}]
    /\ secret \in [Bench -> {"none", "unowned", "job"}]
    /\ pc \in Labels /\ bench \in Bench /\ err \in BOOLEAN
    /\ undo \subseteq {"secret", "configmap"}
    /\ sweep \in [Sweepers -> [left : 0 .. 2, phase : {"list", "jobs", "secrets"},
                               jobs : SUBSET Bench]]
    /\ handler \in [Handlers -> {"idle", "sweeping", "signal", "done"}]
    /\ outcome \in [Bench -> {"none", "created", "failed", "unreported"}]
    /\ uncertain \subseteq Bench /\ tampered \subseteq Bench /\ unhandled \subseteq Bench
    /\ closed \in BOOLEAN /\ sweepFailed \in BOOLEAN /\ faults \in 0 .. MaxFaults

\* A running Job is protected: whatever call of createBenchmarkResources fails,
\* and whoever sweeps meanwhile, a Job is never live without its NetworkPolicy,
\* unless somebody else deleted the ConfigMap that owned the policy.
ProtectedJobs ==
    \A b \in Bench : job[b] = "live" /\ b \notin tampered => policy[b] # "none"

\* Nobody works on the evaluation any more.
Quiet == pc = "done" /\ \A h \in Handlers : handler[h] \in {"idle", "done"}

\* No orphans: once a cancelled or deleted evaluation is quiet, no Job of it is
\* live, although the create loop kept creating while the request was swept.
\* (Excused: a sweep whose calls failed, and a service that was shut down.)
Swept == \A b \in Bench : job[b] # "live"
NoOrphanJobs ==
    workload = "evaluation" /\ Quiet /\ stored # "active" /\ ~sweepFailed /\ ~closed => Swept

\* "storage was signalled first so create loops stop; the second list catches
\* Jobs created between sweeps" (k8s_runtime.go:374): the same for the delete
\* endpoint of post-processing jobs, which calls the same two sweeps.
NoOrphanPostProcessingJobs ==
    workload = "post_processing" /\ Quiet /\ stored # "active" /\ ~sweepFailed /\ ~closed => Swept

Interfered(b) == b \in tampered \/ stored # "active" \/ \E h \in Handlers : handler[h] # "idle"

\* What the create loop concludes of a benchmark is true of the cluster,
\* whichever of its calls failed: one reported as failed does not run all the
\* same (unless the loop could not learn the outcome of its own calls), and
\* one counted as created runs, while the evaluation is active, and has the
\* ConfigMap its pod mounts.
OutcomesAreTrue ==
    \A b \in Bench :
        /\ outcome[b] = "failed" /\ b \notin uncertain => job[b] # "live"
        /\ outcome[b] = "created" /\ ~Interfered(b) =>
              job[b] = "live" /\ configMap[b] # "none"

\* "Create the ephemeral internalModelRef secret before the Job so the Pod can
\* mount it" (k8s_runtime.go:572): a created benchmark also has its secret.
CreatedBenchmarkHasSecret ==
    \A b \in Bench : outcome[b] = "created" /\ ~Interfered(b) => secret[b] # "none"

\* "Creator rollback covers confirmed-failed creates" (k8s_runtime.go:380), and
\* sweeps leave unowned ConfigMaps alone: whichever call fails and whatever request
\* sweeps meanwhile, a benchmark the loop is done with keeps no ConfigMap and no
\* secret that belongs to nobody and would never be collected, and one that was
\* created, while no request interferes, has the secret its pod mounts.  (Excused:
\* an outcome the loop could not learn, a failure it does not act on, a shutdown.)
DoneWith(b) == outcome[b] # "none" \/ pc \in {"sweep", "done"}
NothingUnowned ==
    \A b \in Bench \ (uncertain \cup unhandled) : ~closed =>
        /\ DoneWith(b) => secret[b] # "unowned" /\ configMap[b] # "unowned"
        /\ outcome[b] = "created" /\ ~Interfered(b) => secret[b] = "job"

\* What is ahead of the create loop at most: the stages of this benchmark, those
\* of the next ones, the calls that may still fail, and its two sweeps.
StagesAhead ==
    [precheck |-> 22, secret |-> 21, configmap |-> 20, policy |-> 19, job |-> 18, confirm |-> 17,
     policyOwner |-> 16, configMapOwner |-> 15, rollbackDelete |-> 14, rollbackWait |-> 13,
     orphanDelete |-> 12, secretOwner |-> 12, undo |-> 9, postcheck |-> 9, next |-> 8, sweep |-> 1,
     done |-> 0]
Holds(p) == IF p THEN 1 ELSE 0
UndoAhead  == Holds("secret" \in undo) + Holds("configmap" \in undo)
SweepAhead == 3 * sweep["loop"].left - Holds(sweep["loop"].phase = "jobs")
                                     - 2 * Holds(sweep["loop"].phase = "secrets")
LoopAhead == 23 * (N - bench) + StagesAhead[pc] + UndoAhead + SweepAhead + (MaxFaults - faults)

\* The create loop is bounded: every step of its goroutine, the waits for an
\* unknown answer, the rollbacks and the final sweeps included, uses up some of a
\* finite budget, and no request, sweep or failure elsewhere adds to it.
LoopBounded ==
    [][/\ LoopAhead \in Nat
       /\ \/ LoopAhead' < LoopAhead
          \/ LoopAhead' = LoopAhead /\ ~(LoopStep \/ SweepStep("loop"))]_vars

\* The create loop ends: no wait, retry or rollback keeps it forever.
LoopEnds == <>(pc = "done")

\* The Jobs of a cancelled or deleted evaluation go away in the end (same
\* excuses as NoOrphanJobs).
JobsGoAway ==
    (workload = "evaluation" /\ stored # "active") ~> (closed \/ sweepFailed \/ \A b \in Bench : job[b] = "none")
=============================================================================
