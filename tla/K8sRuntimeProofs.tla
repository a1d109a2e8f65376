--------------------------- MODULE K8sRuntimeProofs ---------------------------
(***************************************************************************)
(* Safety of the Kubernetes runtime for any number of benchmarks, of       *)
(* failed calls and for every set of delete requests: running Jobs are     *)
(* protected, the loop's conclusions are true, and nothing is orphaned.    *)
(***************************************************************************)
EXTENDS K8sRuntime, TLAPS

-----------------------------------------------------------------------------
(* The inductive invariant                                                 *)

\* The part of TypeOK the argument needs.
ClusterTypes ==
    /\ job \in [Bench -> {"none", "live", "deleting"}]
    /\ policy \in [Bench -> {"none", "configmap", "job"}]
    /\ configMap \in [Bench -> {"none", "unowned", "job"}]
LoopTypes ==
    /\ bench \in Bench /\ undo \subseteq {"secret", "configmap"}
    /\ outcome \in [Bench -> {"none", "created", "failed", "unreported"}]
    /\ handler \in [Handlers -> {"idle", "sweeping", "signal", "done"}]
SweepTypes ==
    sweep \in [Sweepers -> [left : 0 .. 2, phase : {"list", "jobs", "secrets"},
                            jobs : SUBSET Bench]]
TypesOK == ClusterTypes /\ LoopTypes /\ SweepTypes

\* A benchmark whose turn has not come, or whose Job has not been asked for, has
\* no Job; neither has one whose ConfigMap the rollback is about to delete.
NotYetCreated ==
    /\ \A b \in Bench : b > bench => job[b] = "none"
    /\ pc \in {"precheck", "secret", "configmap", "policy", "job"} => job[bench] = "none"
    /\ pc = "undo" => undo # {} /\ ("configmap" \in undo => job[bench] = "none")

\* The policy of a live Job is the Job's, or that of a ConfigMap that is there;
\* and it is there before the Job.
PolicyHeld ==
    /\ \A b \in Bench : job[b] = "live" /\ b \notin tampered =>
          policy[b] = "job" \/ (policy[b] = "configmap" /\ configMap[b] # "none")
    /\ pc \in {"policy", "job"} => bench \in tampered \/ configMap[bench] = "unowned"
    /\ pc = "job" => bench \in tampered \/ policy[bench] = "configmap"

\* Whoever sweeps has a reason to: the loop after it saw the evaluation end, a
\* request while it is being handled.
SweepersOK ==
    /\ Sweeping("loop") => pc = "sweep"
    /\ pc = "sweep" => stored # "active"
    /\ \A h \in Handlers : Sweeping(h) => handler[h] = "sweeping"

\* The Job and the ConfigMap of benchmark b are there unless somebody interfered.
Runs(b) == ~Interfered(b) => job[b] = "live" /\ configMap[b] # "none"
\* The Job is not live unless the loop could not find out.
Stopped(b) == b \notin uncertain => job[b] # "live"

\* What the loop knows of the current benchmark, and what it concluded of the
\* earlier ones.
ConclusionsOK ==
    /\ \A b \in Bench : /\ outcome[b] # "none" => b < bench \/ pc = "done"
                        /\ outcome[b] = "failed" => Stopped(b)
                        /\ outcome[b] = "created" => Runs(b)
    /\ pc \in {"undo", "postcheck", "next"} => IF err THEN Stopped(bench) ELSE Runs(bench)
    /\ pc \in {"policyOwner", "configMapOwner", "secretOwner"} => Runs(bench)
    /\ pc = "confirm" /\ ~Interfered(bench) => job[bench] # "deleting" /\ configMap[bench] = "unowned"
    /\ pc = "orphanDelete" => Interfered(bench)

\* Sweeper w will still delete the Job of b: it has yet to list, it has listed
\* it, or another sweep follows.
Covers(w, b) ==
    Sweeping(w) /\ (sweep[w].phase = "list" \/ sweep[w].left = 2
                    \/ (sweep[w].phase = "jobs" /\ b \in sweep[w].jobs))

\* The loop will look at the evaluation again before it ends.
LoopWillCheck == pc \notin {"next", "sweep", "done"} \/ (pc = "next" /\ bench + 1 < N)

\* Only the delete endpoint of post-processing jobs signals after its sweep.
EndpointsOK ==
    \A h \in Handlers : /\ handler[h] = "signal" => h = "delete_post_processing"
                        /\ h = "delete_post_processing" /\ handler[h] # "idle" =>
                              workload = "post_processing"

\* Every live Job of an evaluation that was ended will be found by somebody.
LiveJobsCovered ==
    workload = "evaluation" /\ stored # "active" /\ ~sweepFailed /\ ~closed =>
        \A b \in Bench : job[b] = "live" => LoopWillCheck \/ \E w \in Sweepers : Covers(w, b)

Inv ==
    /\ TypesOK /\ NotYetCreated /\ PolicyHeld /\ SweepersOK /\ ConclusionsOK
    /\ EndpointsOK /\ LiveJobsCovered
-----------------------------------------------------------------------------
(* Types                                                                   *)

\* Every step keeps the types of the objects in the cluster.
LEMMA ClusterTypeStep ==
    ASSUME TypesOK, [Next]_vars
    PROVE  ClusterTypes'
<1> USE RuntimeAssumption DEF TypesOK, ClusterTypes, LoopTypes, At, Goto, Return, Outcomes, Outcome, Applied, NoFault, Fault, cluster, loopVars,
            history
<1>1. CASE PreCreateCheck
  BY <1>1 DEF PreCreateCheck, AbortDecision, SweepAfterAbort, KeepWaiting, NewSweep
<1>2. CASE CreateSecret
  BY <1>2 DEF CreateSecret
<1>3. CASE CreateConfigMap
  BY <1>3 DEF CreateConfigMap
<1>4. CASE CreateNetworkPolicy
  BY <1>4 DEF CreateNetworkPolicy
<1>5. CASE CreateJob
  BY <1>5 DEF CreateJob
<1>6. CASE ConfirmJob
  BY <1>6 DEF ConfirmJob, ConfirmOutcome
<1>7. CASE SetNetworkPolicyOwner
  BY <1>7 DEF SetNetworkPolicyOwner
<1>8. CASE RollbackDelete
  BY <1>8 DEF RollbackDelete, Deleting
<1>9. CASE RollbackWait
  BY <1>9 DEF RollbackWait, JobDeletionOutcome
<1>10. CASE SetConfigMapOwner
  BY <1>10 DEF SetConfigMapOwner
<1>11. CASE DeleteOrphanedJob
  BY <1>11 DEF DeleteOrphanedJob, Deleting
<1>12. CASE SetSecretOwner
  BY <1>12 DEF SetSecretOwner
<1>13. CASE Cleanup
  BY <1>13 DEF Cleanup
<1>14. CASE PostCreateCheck
  BY <1>14 DEF PostCreateCheck, AbortDecision, SweepAfterAbort, KeepWaiting, NewSweep
<1>15. CASE ReportFailure
  BY <1>15 DEF ReportFailure, Advance, Ends
<1>16. CASE LoopSweepEnds
  BY <1>16 DEF LoopSweepEnds
<1>17. ASSUME NEW w \in Sweepers, SweepListJobs(w) PROVE ClusterTypes'
  BY <1>17 DEF SweepListJobs, SweepOver, Sweeping
<1>18. ASSUME NEW w \in Sweepers, SweepDeleteJobs(w) PROVE ClusterTypes'
  BY <1>18 DEF SweepDeleteJobs, Sweeping
<1>19. ASSUME NEW w \in Sweepers, SweepDeleteSecrets(w) PROVE ClusterTypes'
  BY <1>19 DEF SweepDeleteSecrets, SweepOver, Sweeping
<1>20. ASSUME NEW h \in Handlers, HandleCancelEvaluation(h) PROVE ClusterTypes'
  BY <1>20 DEF HandleCancelEvaluation, Signal, NewSweep
<1>21. ASSUME NEW h \in Handlers, HandleDeletePostProcessing(h) PROVE ClusterTypes'
  BY <1>21 DEF HandleDeletePostProcessing, NewSweep
<1>22. ASSUME NEW h \in Handlers, HandlerSweepEnds(h) PROVE ClusterTypes'
  BY <1>22 DEF HandlerSweepEnds, Sweeping
<1>23. ASSUME NEW h \in Handlers, DeletePostProcessingRow(h) PROVE ClusterTypes'
  BY <1>23 DEF DeletePostProcessingRow
<1>24. ASSUME NEW b \in Bench, FinishJobDeletion(b) PROVE ClusterTypes'
  BY <1>24 DEF FinishJobDeletion
<1>25. ASSUME NEW b \in Bench, CollectGarbage(b) PROVE ClusterTypes'
  BY <1>25 DEF CollectGarbage
<1>26. ASSUME NEW b \in Bench, ExternalDelete(b) PROVE ClusterTypes'
  BY <1>26 DEF ExternalDelete
<1>27. CASE Close
  BY <1>27 DEF Close
<1>28. CASE ProcessExit
  BY <1>28 DEF ProcessExit, IdleSweep
<1>29. CASE UNCHANGED vars
  BY <1>29 DEF vars
<1> QED
  BY <1>1, <1>2, <1>3, <1>4, <1>5, <1>6, <1>7, <1>8, <1>9, <1>10, <1>11, <1>12, <1>13,
     <1>14, <1>15, <1>16, <1>17, <1>18, <1>19, <1>20, <1>21, <1>22, <1>23, <1>24, <1>25,
     <1>26, <1>27, <1>28, <1>29
  DEF Next, LoopStep, SweepStep, HandlerStep

\* Every step keeps the types of the loop's variables and of the requests.
LEMMA LoopTypeStep ==
    ASSUME TypesOK, [Next]_vars
    PROVE  LoopTypes'
<1> USE RuntimeAssumption DEF TypesOK, LoopTypes, At, Goto, Return, Outcomes, Outcome, Applied, NoFault, Fault, cluster, loopVars,
            history
<1>1. CASE PreCreateCheck
  BY <1>1 DEF PreCreateCheck, AbortDecision, SweepAfterAbort, KeepWaiting, NewSweep
<1>2. CASE CreateSecret
  BY <1>2 DEF CreateSecret
<1>3. CASE CreateConfigMap
  BY <1>3 DEF CreateConfigMap
<1>4. CASE CreateNetworkPolicy
  BY <1>4 DEF CreateNetworkPolicy
<1>5. CASE CreateJob
  BY <1>5 DEF CreateJob
<1>6. CASE ConfirmJob
  BY <1>6 DEF ConfirmJob, ConfirmOutcome
<1>7. CASE SetNetworkPolicyOwner
  BY <1>7 DEF SetNetworkPolicyOwner
<1>8. CASE RollbackDelete
  BY <1>8 DEF RollbackDelete, Deleting
<1>9. CASE RollbackWait
  BY <1>9 DEF RollbackWait, JobDeletionOutcome
<1>10. CASE SetConfigMapOwner
  BY <1>10 DEF SetConfigMapOwner
<1>11. CASE DeleteOrphanedJob
  BY <1>11 DEF DeleteOrphanedJob, Deleting
<1>12. CASE SetSecretOwner
  BY <1>12 DEF SetSecretOwner
<1>13. CASE Cleanup
  BY <1>13 DEF Cleanup
<1>14. CASE PostCreateCheck
  BY <1>14 DEF PostCreateCheck, AbortDecision, SweepAfterAbort, KeepWaiting, NewSweep
<1>15. CASE ReportFailure
  BY <1>15 DEF ReportFailure, Advance, Ends, Bench
<1>16. CASE LoopSweepEnds
  BY <1>16 DEF LoopSweepEnds
<1>17. ASSUME NEW w \in Sweepers, SweepListJobs(w) PROVE LoopTypes'
  BY <1>17 DEF SweepListJobs, SweepOver, Sweeping
<1>18. ASSUME NEW w \in Sweepers, SweepDeleteJobs(w) PROVE LoopTypes'
  BY <1>18 DEF SweepDeleteJobs, Sweeping
<1>19. ASSUME NEW w \in Sweepers, SweepDeleteSecrets(w) PROVE LoopTypes'
  BY <1>19 DEF SweepDeleteSecrets, SweepOver, Sweeping
<1>20. ASSUME NEW h \in Handlers, HandleCancelEvaluation(h) PROVE LoopTypes'
  BY <1>20 DEF HandleCancelEvaluation, Signal, NewSweep
<1>21. ASSUME NEW h \in Handlers, HandleDeletePostProcessing(h) PROVE LoopTypes'
  BY <1>21 DEF HandleDeletePostProcessing, NewSweep
<1>22. ASSUME NEW h \in Handlers, HandlerSweepEnds(h) PROVE LoopTypes'
  BY <1>22 DEF HandlerSweepEnds, Sweeping
<1>23. ASSUME NEW h \in Handlers, DeletePostProcessingRow(h) PROVE LoopTypes'
  BY <1>23 DEF DeletePostProcessingRow
<1>24. ASSUME NEW b \in Bench, FinishJobDeletion(b) PROVE LoopTypes'
  BY <1>24 DEF FinishJobDeletion
<1>25. ASSUME NEW b \in Bench, CollectGarbage(b) PROVE LoopTypes'
  BY <1>25 DEF CollectGarbage
<1>26. ASSUME NEW b \in Bench, ExternalDelete(b) PROVE LoopTypes'
  BY <1>26 DEF ExternalDelete
<1>27. CASE Close
  BY <1>27 DEF Close
<1>28. CASE ProcessExit
  BY <1>28 DEF ProcessExit, IdleSweep
<1>29. CASE UNCHANGED vars
  BY <1>29 DEF vars
<1> QED
  BY <1>1, <1>2, <1>3, <1>4, <1>5, <1>6, <1>7, <1>8, <1>9, <1>10, <1>11, <1>12, <1>13,
     <1>14, <1>15, <1>16, <1>17, <1>18, <1>19, <1>20, <1>21, <1>22, <1>23, <1>24, <1>25,
     <1>26, <1>27, <1>28, <1>29
  DEF Next, LoopStep, SweepStep, HandlerStep

\* Every step keeps the types of the sweeps.
LEMMA SweepTypeStep ==
    ASSUME TypesOK, [Next]_vars
    PROVE  SweepTypes'
<1> USE RuntimeAssumption DEF TypesOK, SweepTypes, Sweepers, At, Goto, Return, Outcomes, Outcome, Applied, NoFault, Fault, cluster, loopVars,
            history
<1>1. CASE PreCreateCheck
  BY <1>1 DEF PreCreateCheck, AbortDecision, SweepAfterAbort, KeepWaiting, NewSweep
<1>2. CASE CreateSecret
  BY <1>2 DEF CreateSecret
<1>3. CASE CreateConfigMap
  BY <1>3 DEF CreateConfigMap
<1>4. CASE CreateNetworkPolicy
  BY <1>4 DEF CreateNetworkPolicy
<1>5. CASE CreateJob
  BY <1>5 DEF CreateJob
<1>6. CASE ConfirmJob
  BY <1>6 DEF ConfirmJob, ConfirmOutcome
<1>7. CASE SetNetworkPolicyOwner
  BY <1>7 DEF SetNetworkPolicyOwner
<1>8. CASE RollbackDelete
  BY <1>8 DEF RollbackDelete, Deleting
<1>9. CASE RollbackWait
  BY <1>9 DEF RollbackWait, JobDeletionOutcome
<1>10. CASE SetConfigMapOwner
  BY <1>10 DEF SetConfigMapOwner
<1>11. CASE DeleteOrphanedJob
  BY <1>11 DEF DeleteOrphanedJob, Deleting
<1>12. CASE SetSecretOwner
  BY <1>12 DEF SetSecretOwner
<1>13. CASE Cleanup
  BY <1>13 DEF Cleanup
<1>14. CASE PostCreateCheck
  BY <1>14 DEF PostCreateCheck, AbortDecision, SweepAfterAbort, KeepWaiting, NewSweep
<1>15. CASE ReportFailure
  BY <1>15 DEF ReportFailure, Advance, Ends
<1>16. CASE LoopSweepEnds
  BY <1>16 DEF LoopSweepEnds
<1>17. ASSUME NEW w \in Sweepers, SweepListJobs(w) PROVE SweepTypes'
  <2> DEFINE listed == {b \in Bench : job[b] # "none"}
  <2>1. listed \in SUBSET Bench
    OBVIOUS
  <2>2. w \in DOMAIN sweep /\ sweep[w] \in [left : 0 .. 2, phase : {"list", "jobs", "secrets"},
                                            jobs : SUBSET Bench]
    BY <1>17
  <2>3. \/ sweep' = [sweep EXCEPT ![w] = [sweep[w] EXCEPT !.phase = "jobs", !.jobs = listed]]
        \/ sweep' = [sweep EXCEPT ![w] = SweepOver(w)]
    BY <1>17 DEF SweepListJobs
  <2> HIDE DEF listed
  <2>4. [sweep[w] EXCEPT !.phase = "jobs", !.jobs = listed]
           \in [left : 0 .. 2, phase : {"list", "jobs", "secrets"}, jobs : SUBSET Bench]
    BY <2>1, <2>2
  <2>5. SweepOver(w) \in [left : 0 .. 2, phase : {"list", "jobs", "secrets"}, jobs : SUBSET Bench]
    BY <1>17, <2>2 DEF SweepOver, SweepListJobs, Sweeping
  <2> QED
    BY <2>2, <2>3, <2>4, <2>5
<1>18. ASSUME NEW w \in Sweepers, SweepDeleteJobs(w) PROVE SweepTypes'
  BY <1>18 DEF SweepDeleteJobs, Sweeping
<1>19. ASSUME NEW w \in Sweepers, SweepDeleteSecrets(w) PROVE SweepTypes'
  BY <1>19 DEF SweepDeleteSecrets, SweepOver, Sweeping
<1>20. ASSUME NEW h \in Handlers, HandleCancelEvaluation(h) PROVE SweepTypes'
  BY <1>20 DEF HandleCancelEvaluation, Signal, NewSweep
<1>21. ASSUME NEW h \in Handlers, HandleDeletePostProcessing(h) PROVE SweepTypes'
  BY <1>21 DEF HandleDeletePostProcessing, NewSweep
<1>22. ASSUME NEW h \in Handlers, HandlerSweepEnds(h) PROVE SweepTypes'
  BY <1>22 DEF HandlerSweepEnds, Sweeping
<1>23. ASSUME NEW h \in Handlers, DeletePostProcessingRow(h) PROVE SweepTypes'
  BY <1>23 DEF DeletePostProcessingRow
<1>24. ASSUME NEW b \in Bench, FinishJobDeletion(b) PROVE SweepTypes'
  BY <1>24 DEF FinishJobDeletion
<1>25. ASSUME NEW b \in Bench, CollectGarbage(b) PROVE SweepTypes'
  BY <1>25 DEF CollectGarbage
<1>26. ASSUME NEW b \in Bench, ExternalDelete(b) PROVE SweepTypes'
  BY <1>26 DEF ExternalDelete
<1>27. CASE Close
  BY <1>27 DEF Close
<1>28. CASE ProcessExit
  BY <1>28 DEF ProcessExit, IdleSweep
<1>29. CASE UNCHANGED vars
  BY <1>29 DEF vars
<1> QED
  BY <1>1, <1>2, <1>3, <1>4, <1>5, <1>6, <1>7, <1>8, <1>9, <1>10, <1>11, <1>12, <1>13,
     <1>14, <1>15, <1>16, <1>17, <1>18, <1>19, <1>20, <1>21, <1>22, <1>23, <1>24, <1>25,
     <1>26, <1>27, <1>28, <1>29
  DEF Next, LoopStep, SweepStep, HandlerStep

\* Every step keeps the types.
LEMMA TypesStep == TypesOK /\ [Next]_vars => TypesOK'
  BY ClusterTypeStep, LoopTypeStep, SweepTypeStep DEF TypesOK

-----------------------------------------------------------------------------
(* The conjuncts of the invariant, one by one                              *)

\* No Job comes into being out of turn.
LEMMA NotYetCreatedStep ==
    ASSUME TypesOK, NotYetCreated, [Next]_vars
    PROVE  NotYetCreated'
<1> USE RuntimeAssumption DEF TypesOK, ClusterTypes, LoopTypes, Bench, NotYetCreated, At, Goto, Return, Outcomes, Outcome, Applied, NoFault, Fault, cluster, loopVars,
            history
<1>1. CASE PreCreateCheck
  BY <1>1 DEF PreCreateCheck, AbortDecision, SweepAfterAbort, KeepWaiting, NewSweep
<1>2. CASE CreateSecret
  BY <1>2 DEF CreateSecret
<1>3. CASE CreateConfigMap
  <2>1. /\ UNCHANGED <<job, bench>> /\ pc = "configmap"
        /\ \/ pc' = "policy"
           \/ pc' = "undo" /\ undo' = {"secret"}
    BY <1>3 DEF CreateConfigMap
  <2> QED
    BY <2>1
<1>4. CASE CreateNetworkPolicy
  BY <1>4 DEF CreateNetworkPolicy
<1>5. CASE CreateJob
  BY <1>5 DEF CreateJob
<1>6. CASE ConfirmJob
  BY <1>6 DEF ConfirmJob, ConfirmOutcome
<1>7. CASE SetNetworkPolicyOwner
  BY <1>7 DEF SetNetworkPolicyOwner
<1>8. CASE RollbackDelete
  BY <1>8 DEF RollbackDelete, Deleting
<1>9. CASE RollbackWait
  BY <1>9 DEF RollbackWait, JobDeletionOutcome
<1>10. CASE SetConfigMapOwner
  BY <1>10 DEF SetConfigMapOwner
<1>11. CASE DeleteOrphanedJob
  <2>1. job' \in {job, [job EXCEPT ![bench] = "deleting"]}
    BY <1>11 DEF DeleteOrphanedJob, Deleting
  <2>2. bench' = bench /\ (pc' = "undo" => undo' = {"secret"}) /\ pc' \in {"undo", "postcheck"}
    BY <1>11 DEF DeleteOrphanedJob
  <2> QED
    BY <2>1, <2>2
<1>12. CASE SetSecretOwner
  BY <1>12 DEF SetSecretOwner
<1>13. CASE Cleanup
  BY <1>13 DEF Cleanup
<1>14. CASE PostCreateCheck
  BY <1>14 DEF PostCreateCheck, AbortDecision, SweepAfterAbort, KeepWaiting, NewSweep
<1>15. CASE ReportFailure
  BY <1>15 DEF ReportFailure, Advance, Ends
<1>16. CASE LoopSweepEnds
  BY <1>16 DEF LoopSweepEnds
<1>17. ASSUME NEW w \in Sweepers, SweepListJobs(w) PROVE NotYetCreated'
  BY <1>17 DEF SweepListJobs, SweepOver, Sweeping
<1>18. ASSUME NEW w \in Sweepers, SweepDeleteJobs(w) PROVE NotYetCreated'
  BY <1>18 DEF SweepDeleteJobs, Sweeping
<1>19. ASSUME NEW w \in Sweepers, SweepDeleteSecrets(w) PROVE NotYetCreated'
  BY <1>19 DEF SweepDeleteSecrets, SweepOver, Sweeping
<1>20. ASSUME NEW h \in Handlers, HandleCancelEvaluation(h) PROVE NotYetCreated'
  BY <1>20 DEF HandleCancelEvaluation, Signal, NewSweep
<1>21. ASSUME NEW h \in Handlers, HandleDeletePostProcessing(h) PROVE NotYetCreated'
  BY <1>21 DEF HandleDeletePostProcessing, NewSweep
<1>22. ASSUME NEW h \in Handlers, HandlerSweepEnds(h) PROVE NotYetCreated'
  BY <1>22 DEF HandlerSweepEnds, Sweeping
<1>23. ASSUME NEW h \in Handlers, DeletePostProcessingRow(h) PROVE NotYetCreated'
  BY <1>23 DEF DeletePostProcessingRow
<1>24. ASSUME NEW b \in Bench, FinishJobDeletion(b) PROVE NotYetCreated'
  BY <1>24 DEF FinishJobDeletion
<1>25. ASSUME NEW b \in Bench, CollectGarbage(b) PROVE NotYetCreated'
  BY <1>25 DEF CollectGarbage
<1>26. ASSUME NEW b \in Bench, ExternalDelete(b) PROVE NotYetCreated'
  BY <1>26 DEF ExternalDelete
<1>27. CASE Close
  BY <1>27 DEF Close
<1>28. CASE ProcessExit
  BY <1>28 DEF ProcessExit, IdleSweep
<1>29. CASE UNCHANGED vars
  BY <1>29 DEF vars
<1> QED
  BY <1>1, <1>2, <1>3, <1>4, <1>5, <1>6, <1>7, <1>8, <1>9, <1>10, <1>11, <1>12, <1>13,
     <1>14, <1>15, <1>16, <1>17, <1>18, <1>19, <1>20, <1>21, <1>22, <1>23, <1>24, <1>25,
     <1>26, <1>27, <1>28, <1>29
  DEF Next, LoopStep, SweepStep, HandlerStep

\* The policy of a live Job is never collected: the ConfigMap that owns it is deleted
\* by the loop only when there is no Job.
LEMMA PolicyHeldStep ==
    ASSUME TypesOK, NotYetCreated, PolicyHeld, [Next]_vars
    PROVE  PolicyHeld'
<1> USE RuntimeAssumption DEF TypesOK, ClusterTypes, LoopTypes, NotYetCreated, PolicyHeld, At, Goto, Return, Outcomes, Outcome, Applied, NoFault, Fault, cluster, loopVars,
            history
<1>1. CASE PreCreateCheck
  BY <1>1 DEF PreCreateCheck, AbortDecision, SweepAfterAbort, KeepWaiting, NewSweep
<1>2. CASE CreateSecret
  BY <1>2 DEF CreateSecret
<1>3. CASE CreateConfigMap
  BY <1>3 DEF CreateConfigMap
<1>4. CASE CreateNetworkPolicy
  BY <1>4 DEF CreateNetworkPolicy
<1>5. CASE CreateJob
  BY <1>5 DEF CreateJob
<1>6. CASE ConfirmJob
  BY <1>6 DEF ConfirmJob, ConfirmOutcome
<1>7. CASE SetNetworkPolicyOwner
  BY <1>7 DEF SetNetworkPolicyOwner
<1>8. CASE RollbackDelete
  BY <1>8 DEF RollbackDelete, Deleting
<1>9. CASE RollbackWait
  BY <1>9 DEF RollbackWait, JobDeletionOutcome
<1>10. CASE SetConfigMapOwner
  BY <1>10 DEF SetConfigMapOwner
<1>11. CASE DeleteOrphanedJob
  BY <1>11 DEF DeleteOrphanedJob, Deleting
<1>12. CASE SetSecretOwner
  BY <1>12 DEF SetSecretOwner
<1>13. CASE Cleanup
  <2>1. UNCHANGED <<job, policy, tampered, bench>> /\ pc' \in {"undo", "postcheck"}
    BY <1>13 DEF Cleanup
  <2>2. CASE "secret" \in undo
    <3>1. UNCHANGED configMap
      BY <1>13, <2>2 DEF Cleanup
    <3> QED
      BY <2>1, <3>1
  <2>3. CASE "secret" \notin undo
    <3> pc = "undo" /\ undo # {}
      BY <1>13 DEF Cleanup
    <3> PICK r \in undo : r = "configmap"
      BY <2>3
    <3>1. job[bench] = "none"
      BY <2>3
    <3>2. configMap' \in {configMap, [configMap EXCEPT ![bench] = "none"]}
      BY <1>13, <2>3 DEF Cleanup
    <3> QED
      BY <2>1, <3>1, <3>2
  <2> QED
    BY <2>2, <2>3
<1>14. CASE PostCreateCheck
  BY <1>14 DEF PostCreateCheck, AbortDecision, SweepAfterAbort, KeepWaiting, NewSweep
<1>15. CASE ReportFailure
  BY <1>15 DEF ReportFailure, Advance, Ends, Bench
<1>16. CASE LoopSweepEnds
  BY <1>16 DEF LoopSweepEnds
<1>17. ASSUME NEW w \in Sweepers, SweepListJobs(w) PROVE PolicyHeld'
  BY <1>17 DEF SweepListJobs, SweepOver, Sweeping
<1>18. ASSUME NEW w \in Sweepers, SweepDeleteJobs(w) PROVE PolicyHeld'
  BY <1>18 DEF SweepDeleteJobs, Sweeping
<1>19. ASSUME NEW w \in Sweepers, SweepDeleteSecrets(w) PROVE PolicyHeld'
  BY <1>19 DEF SweepDeleteSecrets, SweepOver, Sweeping
<1>20. ASSUME NEW h \in Handlers, HandleCancelEvaluation(h) PROVE PolicyHeld'
  BY <1>20 DEF HandleCancelEvaluation, Signal, NewSweep
<1>21. ASSUME NEW h \in Handlers, HandleDeletePostProcessing(h) PROVE PolicyHeld'
  BY <1>21 DEF HandleDeletePostProcessing, NewSweep
<1>22. ASSUME NEW h \in Handlers, HandlerSweepEnds(h) PROVE PolicyHeld'
  BY <1>22 DEF HandlerSweepEnds, Sweeping
<1>23. ASSUME NEW h \in Handlers, DeletePostProcessingRow(h) PROVE PolicyHeld'
  BY <1>23 DEF DeletePostProcessingRow
<1>24. ASSUME NEW b \in Bench, FinishJobDeletion(b) PROVE PolicyHeld'
  BY <1>24 DEF FinishJobDeletion
<1>25. ASSUME NEW b \in Bench, CollectGarbage(b) PROVE PolicyHeld'
  BY <1>25 DEF CollectGarbage
<1>26. ASSUME NEW b \in Bench, ExternalDelete(b) PROVE PolicyHeld'
  BY <1>26 DEF ExternalDelete
<1>27. CASE Close
  BY <1>27 DEF Close
<1>28. CASE ProcessExit
  BY <1>28 DEF ProcessExit, IdleSweep
<1>29. CASE UNCHANGED vars
  BY <1>29 DEF vars
<1> QED
  BY <1>1, <1>2, <1>3, <1>4, <1>5, <1>6, <1>7, <1>8, <1>9, <1>10, <1>11, <1>12, <1>13,
     <1>14, <1>15, <1>16, <1>17, <1>18, <1>19, <1>20, <1>21, <1>22, <1>23, <1>24, <1>25,
     <1>26, <1>27, <1>28, <1>29
  DEF Next, LoopStep, SweepStep, HandlerStep

\* Sweeps are started by those who may.
LEMMA SweepersStep ==
    ASSUME TypesOK, SweepersOK, [Next]_vars
    PROVE  SweepersOK'
<1> USE RuntimeAssumption DEF TypesOK, LoopTypes, SweepTypes, Sweepers, Sweeping, SweepersOK, At, Goto, Return, Outcomes, Outcome, Applied, NoFault, Fault, cluster, loopVars,
            history
<1>1. CASE PreCreateCheck
  BY <1>1 DEF PreCreateCheck, AbortDecision, SweepAfterAbort, KeepWaiting, NewSweep
<1>2. CASE CreateSecret
  BY <1>2 DEF CreateSecret
<1>3. CASE CreateConfigMap
  BY <1>3 DEF CreateConfigMap
<1>4. CASE CreateNetworkPolicy
  BY <1>4 DEF CreateNetworkPolicy
<1>5. CASE CreateJob
  BY <1>5 DEF CreateJob
<1>6. CASE ConfirmJob
  BY <1>6 DEF ConfirmJob, ConfirmOutcome
<1>7. CASE SetNetworkPolicyOwner
  BY <1>7 DEF SetNetworkPolicyOwner
<1>8. CASE RollbackDelete
  BY <1>8 DEF RollbackDelete, Deleting
<1>9. CASE RollbackWait
  BY <1>9 DEF RollbackWait, JobDeletionOutcome
<1>10. CASE SetConfigMapOwner
  BY <1>10 DEF SetConfigMapOwner
<1>11. CASE DeleteOrphanedJob
  BY <1>11 DEF DeleteOrphanedJob, Deleting
<1>12. CASE SetSecretOwner
  BY <1>12 DEF SetSecretOwner
<1>13. CASE Cleanup
  BY <1>13 DEF Cleanup
<1>14. CASE PostCreateCheck
  BY <1>14 DEF PostCreateCheck, AbortDecision, SweepAfterAbort, KeepWaiting, NewSweep
<1>15. CASE ReportFailure
  BY <1>15 DEF ReportFailure, Advance, Ends
<1>16. CASE LoopSweepEnds
  BY <1>16 DEF LoopSweepEnds
<1>17. ASSUME NEW w \in Sweepers, SweepListJobs(w) PROVE SweepersOK'
  BY <1>17 DEF SweepListJobs, SweepOver, Sweeping
<1>18. ASSUME NEW w \in Sweepers, SweepDeleteJobs(w) PROVE SweepersOK'
  BY <1>18 DEF SweepDeleteJobs, Sweeping
<1>19. ASSUME NEW w \in Sweepers, SweepDeleteSecrets(w) PROVE SweepersOK'
  BY <1>19 DEF SweepDeleteSecrets, SweepOver, Sweeping
<1>20. ASSUME NEW h \in Handlers, HandleCancelEvaluation(h) PROVE SweepersOK'
  BY <1>20 DEF HandleCancelEvaluation, Signal, NewSweep
<1>21. ASSUME NEW h \in Handlers, HandleDeletePostProcessing(h) PROVE SweepersOK'
  BY <1>21 DEF HandleDeletePostProcessing, NewSweep
<1>22. ASSUME NEW h \in Handlers, HandlerSweepEnds(h) PROVE SweepersOK'
  BY <1>22 DEF HandlerSweepEnds, Sweeping
<1>23. ASSUME NEW h \in Handlers, DeletePostProcessingRow(h) PROVE SweepersOK'
  BY <1>23 DEF DeletePostProcessingRow
<1>24. ASSUME NEW b \in Bench, FinishJobDeletion(b) PROVE SweepersOK'
  BY <1>24 DEF FinishJobDeletion
<1>25. ASSUME NEW b \in Bench, CollectGarbage(b) PROVE SweepersOK'
  BY <1>25 DEF CollectGarbage
<1>26. ASSUME NEW b \in Bench, ExternalDelete(b) PROVE SweepersOK'
  BY <1>26 DEF ExternalDelete
<1>27. CASE Close
  BY <1>27 DEF Close
<1>28. CASE ProcessExit
  BY <1>28 DEF ProcessExit, IdleSweep
<1>29. CASE UNCHANGED vars
  BY <1>29 DEF vars
<1> QED
  BY <1>1, <1>2, <1>3, <1>4, <1>5, <1>6, <1>7, <1>8, <1>9, <1>10, <1>11, <1>12, <1>13,
     <1>14, <1>15, <1>16, <1>17, <1>18, <1>19, <1>20, <1>21, <1>22, <1>23, <1>24, <1>25,
     <1>26, <1>27, <1>28, <1>29
  DEF Next, LoopStep, SweepStep, HandlerStep

\* What the loop concludes stays true: nobody but a request, somebody with access to
\* the namespace or the loop itself stops a Job.
LEMMA ConclusionsStep ==
    ASSUME Inv, [Next]_vars
    PROVE  ConclusionsOK'
<1> USE RuntimeAssumption DEF Inv, TypesOK, ClusterTypes, LoopTypes, SweepersOK, ConclusionsOK,
            Runs, Stopped, Interfered, At, Goto, Return, Outcomes, Outcome, Applied, NoFault, Fault, cluster, loopVars,
            history
<1>1. CASE PreCreateCheck
  BY <1>1 DEF PreCreateCheck, AbortDecision, SweepAfterAbort, KeepWaiting, NewSweep
<1>2. CASE CreateSecret
  BY <1>2 DEF CreateSecret, NotYetCreated
<1>3. CASE CreateConfigMap
  BY <1>3 DEF CreateConfigMap, NotYetCreated
<1>4. CASE CreateNetworkPolicy
  BY <1>4 DEF CreateNetworkPolicy, NotYetCreated
<1>5. CASE CreateJob
  <2>1. /\ \A b \in Bench : outcome[b] # "none" => b < bench
        /\ bench \notin tampered => configMap[bench] = "unowned"
        /\ job[bench] = "none"
    BY <1>5 DEF CreateJob, NotYetCreated, PolicyHeld
  <2>2. UNCHANGED <<configMap, outcome, bench, stored, handler, tampered, uncertain>>
    BY <1>5 DEF CreateJob
  <2>3. \/ job' = [job EXCEPT ![bench] = "live"] /\ pc' \in {"policyOwner", "confirm"}
        \/ job' = job /\ pc' = "confirm"
    BY <1>5 DEF CreateJob
  <2> QED
    BY <2>1, <2>2, <2>3 DEF Bench
<1>6. CASE ConfirmJob
  BY <1>6 DEF ConfirmJob, ConfirmOutcome
<1>7. CASE SetNetworkPolicyOwner
  BY <1>7 DEF SetNetworkPolicyOwner
<1>8. CASE RollbackDelete
  <2>1. \A b \in Bench : outcome[b] # "none" => b < bench
    BY <1>8 DEF RollbackDelete
  <2>2. job' \in {job, [job EXCEPT ![bench] = "deleting"]}
    BY <1>8 DEF RollbackDelete, Deleting
  <2>3. UNCHANGED <<configMap, outcome, bench, stored, handler, tampered>>
    BY <1>8 DEF RollbackDelete
  <2>4. \/ pc' = "rollbackWait" /\ uncertain' = uncertain
        \/ pc' = "postcheck" /\ err' = TRUE /\ uncertain' = uncertain \cup {bench}
    BY <1>8 DEF RollbackDelete
  <2> QED
    BY <2>1, <2>2, <2>3, <2>4 DEF Bench
<1>9. CASE RollbackWait
  BY <1>9 DEF RollbackWait, JobDeletionOutcome
<1>10. CASE SetConfigMapOwner
  BY <1>10 DEF SetConfigMapOwner
<1>11. CASE DeleteOrphanedJob
  BY <1>11 DEF DeleteOrphanedJob, Deleting
<1>12. CASE SetSecretOwner
  BY <1>12 DEF SetSecretOwner
<1>13. CASE Cleanup
  <2>1. /\ UNCHANGED <<job, err, outcome, bench, stored, handler, tampered, uncertain>>
        /\ pc = "undo" /\ pc' \in {"undo", "postcheck"}
    BY <1>13 DEF Cleanup
  <2>2. CASE "secret" \in undo
    <3>1. UNCHANGED configMap
      BY <1>13, <2>2 DEF Cleanup
    <3> QED
      BY <2>1, <3>1
  <2>3. CASE "secret" \notin undo
    <3> pc = "undo" /\ undo # {}
      BY <1>13 DEF Cleanup, NotYetCreated
    <3> PICK r \in undo : r = "configmap"
      BY <2>3
    <3>1. job[bench] = "none"
      BY <2>3 DEF NotYetCreated
    <3>2. configMap' \in {configMap, [configMap EXCEPT ![bench] = "none"]}
      BY <1>13, <2>3 DEF Cleanup
    <3> QED
      BY <2>1, <3>1, <3>2
  <2> QED
    BY <2>2, <2>3
<1>14. CASE PostCreateCheck
  BY <1>14 DEF PostCreateCheck, AbortDecision, SweepAfterAbort, KeepWaiting, NewSweep
<1>15. CASE ReportFailure
  BY <1>15 DEF ReportFailure, Advance, Ends, Bench
<1>16. CASE LoopSweepEnds
  BY <1>16 DEF LoopSweepEnds
<1>17. ASSUME NEW w \in Sweepers, SweepListJobs(w) PROVE ConclusionsOK'
  BY <1>17 DEF SweepListJobs, SweepOver, Sweeping
<1>18. ASSUME NEW w \in Sweepers, SweepDeleteJobs(w) PROVE ConclusionsOK'
  <2>1. /\ UNCHANGED <<configMap, pc, err, outcome, bench, stored, handler, tampered, uncertain>>
        /\ job' \in [Bench -> {"none", "live", "deleting"}]
        /\ \A b \in Bench : job'[b] = job[b] \/ (job[b] = "live" /\ job'[b] = "deleting")
    BY <1>18 DEF SweepDeleteJobs
  <2>2. stored # "active" \/ \E h \in Handlers : handler[h] # "idle"
    BY <1>18 DEF SweepDeleteJobs, Sweepers
  <2> QED
    BY <2>1, <2>2
<1>19. ASSUME NEW w \in Sweepers, SweepDeleteSecrets(w) PROVE ConclusionsOK'
  BY <1>19 DEF SweepDeleteSecrets, SweepOver, Sweeping
<1>20. ASSUME NEW h \in Handlers, HandleCancelEvaluation(h) PROVE ConclusionsOK'
  BY <1>20 DEF HandleCancelEvaluation, Signal, NewSweep
<1>21. ASSUME NEW h \in Handlers, HandleDeletePostProcessing(h) PROVE ConclusionsOK'
  BY <1>21 DEF HandleDeletePostProcessing, NewSweep
<1>22. ASSUME NEW h \in Handlers, HandlerSweepEnds(h) PROVE ConclusionsOK'
  BY <1>22 DEF HandlerSweepEnds, Sweeping
<1>23. ASSUME NEW h \in Handlers, DeletePostProcessingRow(h) PROVE ConclusionsOK'
  BY <1>23 DEF DeletePostProcessingRow
<1>24. ASSUME NEW b \in Bench, FinishJobDeletion(b) PROVE ConclusionsOK'
  BY <1>24 DEF FinishJobDeletion
<1>25. ASSUME NEW b \in Bench, CollectGarbage(b) PROVE ConclusionsOK'
  <2>1. UNCHANGED <<job, pc, err, outcome, bench, stored, handler, tampered, uncertain>>
    BY <1>25 DEF CollectGarbage
  <2>2. \/ configMap' = configMap
        \/ /\ configMap' = [configMap EXCEPT ![b] = "none"]
           /\ configMap[b] = "job" /\ job[b] # "live"
    BY <1>25 DEF CollectGarbage
  <2> QED
    BY <2>1, <2>2
<1>26. ASSUME NEW b \in Bench, ExternalDelete(b) PROVE ConclusionsOK'
  BY <1>26 DEF ExternalDelete
<1>27. CASE Close
  BY <1>27 DEF Close
<1>28. CASE ProcessExit
  BY <1>28 DEF ProcessExit, IdleSweep
<1>29. CASE UNCHANGED vars
  BY <1>29 DEF vars
<1> QED
  BY <1>1, <1>2, <1>3, <1>4, <1>5, <1>6, <1>7, <1>8, <1>9, <1>10, <1>11, <1>12, <1>13,
     <1>14, <1>15, <1>16, <1>17, <1>18, <1>19, <1>20, <1>21, <1>22, <1>23, <1>24, <1>25,
     <1>26, <1>27, <1>28, <1>29
  DEF Next, LoopStep, SweepStep, HandlerStep

\* The endpoints stay apart.
LEMMA EndpointsStep ==
    ASSUME TypesOK, EndpointsOK, [Next]_vars
    PROVE  EndpointsOK'
<1> USE RuntimeAssumption DEF TypesOK, LoopTypes, EndpointsOK, At, Goto, Return, Outcomes, Outcome, Applied, NoFault, Fault, cluster, loopVars,
            history
<1>1. CASE PreCreateCheck
  BY <1>1 DEF PreCreateCheck, AbortDecision, SweepAfterAbort, KeepWaiting, NewSweep
<1>2. CASE CreateSecret
  BY <1>2 DEF CreateSecret
<1>3. CASE CreateConfigMap
  BY <1>3 DEF CreateConfigMap
<1>4. CASE CreateNetworkPolicy
  BY <1>4 DEF CreateNetworkPolicy
<1>5. CASE CreateJob
  BY <1>5 DEF CreateJob
<1>6. CASE ConfirmJob
  BY <1>6 DEF ConfirmJob, ConfirmOutcome
<1>7. CASE SetNetworkPolicyOwner
  BY <1>7 DEF SetNetworkPolicyOwner
<1>8. CASE RollbackDelete
  BY <1>8 DEF RollbackDelete, Deleting
<1>9. CASE RollbackWait
  BY <1>9 DEF RollbackWait, JobDeletionOutcome
<1>10. CASE SetConfigMapOwner
  BY <1>10 DEF SetConfigMapOwner
<1>11. CASE DeleteOrphanedJob
  BY <1>11 DEF DeleteOrphanedJob, Deleting
<1>12. CASE SetSecretOwner
  BY <1>12 DEF SetSecretOwner
<1>13. CASE Cleanup
  BY <1>13 DEF Cleanup
<1>14. CASE PostCreateCheck
  BY <1>14 DEF PostCreateCheck, AbortDecision, SweepAfterAbort, KeepWaiting, NewSweep
<1>15. CASE ReportFailure
  BY <1>15 DEF ReportFailure, Advance, Ends
<1>16. CASE LoopSweepEnds
  BY <1>16 DEF LoopSweepEnds
<1>17. ASSUME NEW w \in Sweepers, SweepListJobs(w) PROVE EndpointsOK'
  BY <1>17 DEF SweepListJobs, SweepOver, Sweeping
<1>18. ASSUME NEW w \in Sweepers, SweepDeleteJobs(w) PROVE EndpointsOK'
  BY <1>18 DEF SweepDeleteJobs, Sweeping
<1>19. ASSUME NEW w \in Sweepers, SweepDeleteSecrets(w) PROVE EndpointsOK'
  BY <1>19 DEF SweepDeleteSecrets, SweepOver, Sweeping
<1>20. ASSUME NEW h \in Handlers, HandleCancelEvaluation(h) PROVE EndpointsOK'
  BY <1>20 DEF HandleCancelEvaluation, Signal, NewSweep
<1>21. ASSUME NEW h \in Handlers, HandleDeletePostProcessing(h) PROVE EndpointsOK'
  BY <1>21 DEF HandleDeletePostProcessing, NewSweep
<1>22. ASSUME NEW h \in Handlers, HandlerSweepEnds(h) PROVE EndpointsOK'
  BY <1>22 DEF HandlerSweepEnds, Sweeping
<1>23. ASSUME NEW h \in Handlers, DeletePostProcessingRow(h) PROVE EndpointsOK'
  BY <1>23 DEF DeletePostProcessingRow
<1>24. ASSUME NEW b \in Bench, FinishJobDeletion(b) PROVE EndpointsOK'
  BY <1>24 DEF FinishJobDeletion
<1>25. ASSUME NEW b \in Bench, CollectGarbage(b) PROVE EndpointsOK'
  BY <1>25 DEF CollectGarbage
<1>26. ASSUME NEW b \in Bench, ExternalDelete(b) PROVE EndpointsOK'
  BY <1>26 DEF ExternalDelete
<1>27. CASE Close
  BY <1>27 DEF Close
<1>28. CASE ProcessExit
  BY <1>28 DEF ProcessExit, IdleSweep
<1>29. CASE UNCHANGED vars
  BY <1>29 DEF vars
<1> QED
  BY <1>1, <1>2, <1>3, <1>4, <1>5, <1>6, <1>7, <1>8, <1>9, <1>10, <1>11, <1>12, <1>13,
     <1>14, <1>15, <1>16, <1>17, <1>18, <1>19, <1>20, <1>21, <1>22, <1>23, <1>24, <1>25,
     <1>26, <1>27, <1>28, <1>29
  DEF Next, LoopStep, SweepStep, HandlerStep

\* Every live Job of an evaluation that has ended stays covered.
LEMMA CoverStep ==
    ASSUME Inv, [Next]_vars
    PROVE  LiveJobsCovered'
<1> USE RuntimeAssumption DEF Inv, TypesOK, ClusterTypes, LoopTypes, SweepTypes, Sweepers, EndpointsOK,
            LiveJobsCovered, LoopWillCheck, Covers, Sweeping, At, Goto, Return, Outcomes, Outcome, Applied, NoFault, Fault, cluster, loopVars,
            history
<1>1. CASE PreCreateCheck
  BY <1>1 DEF PreCreateCheck, AbortDecision, SweepAfterAbort, KeepWaiting, NewSweep
<1>2. CASE CreateSecret
  BY <1>2 DEF CreateSecret
<1>3. CASE CreateConfigMap
  BY <1>3 DEF CreateConfigMap
<1>4. CASE CreateNetworkPolicy
  BY <1>4 DEF CreateNetworkPolicy
<1>5. CASE CreateJob
  BY <1>5 DEF CreateJob
<1>6. CASE ConfirmJob
  BY <1>6 DEF ConfirmJob, ConfirmOutcome
<1>7. CASE SetNetworkPolicyOwner
  BY <1>7 DEF SetNetworkPolicyOwner
<1>8. CASE RollbackDelete
  BY <1>8 DEF RollbackDelete, Deleting
<1>9. CASE RollbackWait
  BY <1>9 DEF RollbackWait, JobDeletionOutcome
<1>10. CASE SetConfigMapOwner
  BY <1>10 DEF SetConfigMapOwner
<1>11. CASE DeleteOrphanedJob
  BY <1>11 DEF DeleteOrphanedJob, Deleting
<1>12. CASE SetSecretOwner
  BY <1>12 DEF SetSecretOwner
<1>13. CASE Cleanup
  BY <1>13 DEF Cleanup
<1>14. CASE PostCreateCheck
  BY <1>14 DEF PostCreateCheck, AbortDecision, SweepAfterAbort, KeepWaiting, NewSweep
<1>15. CASE ReportFailure
  BY <1>15 DEF ReportFailure, Advance, Ends
<1>16. CASE LoopSweepEnds
  BY <1>16 DEF LoopSweepEnds
<1>17. ASSUME NEW w \in Sweepers, SweepListJobs(w) PROVE LiveJobsCovered'
  <2>1. SUFFICES ASSUME ~sweepFailed' PROVE LiveJobsCovered'
    BY <1>17
  <2> DEFINE listed == {b \in Bench : job[b] # "none"}
  <2>2. sweep' = [sweep EXCEPT ![w] = [sweep[w] EXCEPT !.phase = "jobs", !.jobs = listed]]
    BY <1>17, <2>1 DEF SweepListJobs
  <2>3. \A b \in Bench : job[b] = "live" => b \in listed
    OBVIOUS
  <2> HIDE DEF listed
  <2>4. /\ sweep'[w].left = sweep[w].left /\ sweep'[w].phase = "jobs"
        /\ sweep'[w].jobs = listed /\ sweep[w].left > 0
    BY <1>17, <2>2 DEF SweepListJobs
  <2>5. UNCHANGED job
    BY <1>17 DEF SweepListJobs
  <2> QED
    BY <2>3, <2>4, <2>5
<1>18. ASSUME NEW w \in Sweepers, SweepDeleteJobs(w) PROVE LiveJobsCovered'
  BY <1>18 DEF SweepDeleteJobs, Sweeping
<1>19. ASSUME NEW w \in Sweepers, SweepDeleteSecrets(w) PROVE LiveJobsCovered'
  BY <1>19 DEF SweepDeleteSecrets, SweepOver, Sweeping
<1>20. ASSUME NEW h \in Handlers, HandleCancelEvaluation(h) PROVE LiveJobsCovered'
  BY <1>20 DEF HandleCancelEvaluation, Signal, NewSweep
<1>21. ASSUME NEW h \in Handlers, HandleDeletePostProcessing(h) PROVE LiveJobsCovered'
  BY <1>21 DEF HandleDeletePostProcessing, NewSweep
<1>22. ASSUME NEW h \in Handlers, HandlerSweepEnds(h) PROVE LiveJobsCovered'
  BY <1>22 DEF HandlerSweepEnds, Sweeping
<1>23. ASSUME NEW h \in Handlers, DeletePostProcessingRow(h) PROVE LiveJobsCovered'
  BY <1>23 DEF DeletePostProcessingRow
<1>24. ASSUME NEW b \in Bench, FinishJobDeletion(b) PROVE LiveJobsCovered'
  BY <1>24 DEF FinishJobDeletion
<1>25. ASSUME NEW b \in Bench, CollectGarbage(b) PROVE LiveJobsCovered'
  BY <1>25 DEF CollectGarbage
<1>26. ASSUME NEW b \in Bench, ExternalDelete(b) PROVE LiveJobsCovered'
  BY <1>26 DEF ExternalDelete
<1>27. CASE Close
  BY <1>27 DEF Close
<1>28. CASE ProcessExit
  BY <1>28 DEF ProcessExit, IdleSweep
<1>29. CASE UNCHANGED vars
  BY <1>29 DEF vars
<1> QED
  BY <1>1, <1>2, <1>3, <1>4, <1>5, <1>6, <1>7, <1>8, <1>9, <1>10, <1>11, <1>12, <1>13,
     <1>14, <1>15, <1>16, <1>17, <1>18, <1>19, <1>20, <1>21, <1>22, <1>23, <1>24, <1>25,
     <1>26, <1>27, <1>28, <1>29
  DEF Next, LoopStep, SweepStep, HandlerStep

-----------------------------------------------------------------------------
(* The theorems                                                            *)

\* The invariant holds before the first benchmark: the cluster is empty.
LEMMA InvInit == Init => Inv
<1> SUFFICES ASSUME Init PROVE Inv
  OBVIOUS
<1> USE RuntimeAssumption DEF Init
<1>1. 0 \in Bench
  BY DEF Bench
<1>2. IdleSweep \in [left : 0 .. 2, phase : {"list", "jobs", "secrets"}, jobs : SUBSET Bench]
  BY DEF IdleSweep
<1>3. TypesOK
  BY <1>1, <1>2 DEF TypesOK, ClusterTypes, LoopTypes, SweepTypes
<1>4. NotYetCreated /\ PolicyHeld
  BY <1>1 DEF NotYetCreated, PolicyHeld
<1>5. SweepersOK
  BY DEF SweepersOK, Sweeping, Sweepers, IdleSweep
<1>6. ConclusionsOK
  BY <1>1 DEF ConclusionsOK
<1>7. EndpointsOK /\ LiveJobsCovered
  BY DEF EndpointsOK, LiveJobsCovered
<1> QED
  BY <1>3, <1>4, <1>5, <1>6, <1>7 DEF Inv

\* Every step keeps the invariant.
LEMMA InvStep == Inv /\ [Next]_vars => Inv'
  BY TypesStep, NotYetCreatedStep, PolicyHeldStep, SweepersStep, ConclusionsStep, EndpointsStep,
     CoverStep
  DEF Inv

\* The invariant of the runtime: types, the order in which the objects of a benchmark
\* come into being, and who still sweeps.
THEOREM K8sInvariant == Spec => []Inv
  BY InvInit, InvStep, PTL DEF Spec

\* For every number of benchmarks and of failed calls, a Job that createBenchmarkResources
\* left running has its NetworkPolicy, unless somebody deleted its ConfigMap.
THEOREM K8sProtectedJobs == Spec => []ProtectedJobs
<1>1. Inv => ProtectedJobs
  BY DEF Inv, PolicyHeld, ProtectedJobs
<1> QED
  BY <1>1, K8sInvariant, PTL

\* For every number of benchmarks and of failed calls, RunEvaluationJob reports as failed
\* only what does not run, and counts as created only what does.
THEOREM K8sOutcomesAreTrue == Spec => []OutcomesAreTrue
<1>1. Inv => OutcomesAreTrue
  BY DEF Inv, ConclusionsOK, Runs, Stopped, OutcomesAreTrue
<1> QED
  BY <1>1, K8sInvariant, PTL

\* For every number of benchmarks, the two sweeps of DeleteEvaluationJobResources and the
\* check after each creation leave no live Job of a cancelled or deleted evaluation.
THEOREM K8sNoOrphanJobs == Spec => []NoOrphanJobs
<1>1. Inv /\ Quiet => ~LoopWillCheck /\ \A w \in Sweepers : ~Sweeping(w)
  BY DEF Inv, SweepersOK, Sweepers, LoopWillCheck, Quiet
<1>2. Inv => NoOrphanJobs
  BY <1>1 DEF Inv, LiveJobsCovered, Covers, NoOrphanJobs, Swept
<1> QED
  BY <1>2, K8sInvariant, PTL

-----------------------------------------------------------------------------
(* The whole type invariant                                                *)

RowTypes ==
    /\ workload \in Workloads /\ stored \in {"active", "cancelled", "deleted"}
    /\ secret \in [Bench -> {"none", "unowned", "job"}]
    /\ pc \in Labels /\ err \in BOOLEAN
HistoryTypes ==
    /\ uncertain \subseteq Bench /\ tampered \subseteq Bench /\ unhandled \subseteq Bench
    /\ closed \in BOOLEAN /\ sweepFailed \in BOOLEAN /\ faults \in 0 .. MaxFaults

\* Every step keeps the types of the row, the secrets and the loop's position.
LEMMA RowTypeStep ==
    ASSUME TypesOK, RowTypes, [Next]_vars
    PROVE  RowTypes'
<1> USE RuntimeAssumption DEF LoopTypes, TypesOK, RowTypes, Labels, At, Goto, Return, Outcomes, Outcome, Applied, NoFault, Fault, cluster, loopVars,
            history
<1>1. CASE PreCreateCheck
  BY <1>1 DEF PreCreateCheck, AbortDecision, SweepAfterAbort, KeepWaiting, NewSweep
<1>2. CASE CreateSecret
  BY <1>2 DEF CreateSecret
<1>3. CASE CreateConfigMap
  BY <1>3 DEF CreateConfigMap
<1>4. CASE CreateNetworkPolicy
  BY <1>4 DEF CreateNetworkPolicy
<1>5. CASE CreateJob
  BY <1>5 DEF CreateJob
<1>6. CASE ConfirmJob
  BY <1>6 DEF ConfirmJob, ConfirmOutcome
<1>7. CASE SetNetworkPolicyOwner
  BY <1>7 DEF SetNetworkPolicyOwner
<1>8. CASE RollbackDelete
  BY <1>8 DEF RollbackDelete, Deleting
<1>9. CASE RollbackWait
  BY <1>9 DEF RollbackWait, JobDeletionOutcome
<1>10. CASE SetConfigMapOwner
  BY <1>10 DEF SetConfigMapOwner
<1>11. CASE DeleteOrphanedJob
  BY <1>11 DEF DeleteOrphanedJob, Deleting
<1>12. CASE SetSecretOwner
  BY <1>12 DEF SetSecretOwner
<1>13. CASE Cleanup
  BY <1>13 DEF Cleanup
<1>14. CASE PostCreateCheck
  BY <1>14 DEF PostCreateCheck, AbortDecision, SweepAfterAbort, KeepWaiting, NewSweep
<1>15. CASE ReportFailure
  BY <1>15 DEF ReportFailure, Advance, Ends
<1>16. CASE LoopSweepEnds
  BY <1>16 DEF LoopSweepEnds
<1>17. ASSUME NEW w \in Sweepers, SweepListJobs(w) PROVE RowTypes'
  BY <1>17 DEF SweepListJobs, SweepOver, Sweeping
<1>18. ASSUME NEW w \in Sweepers, SweepDeleteJobs(w) PROVE RowTypes'
  BY <1>18 DEF SweepDeleteJobs, Sweeping
<1>19. ASSUME NEW w \in Sweepers, SweepDeleteSecrets(w) PROVE RowTypes'
  BY <1>19 DEF SweepDeleteSecrets, SweepOver, Sweeping
<1>20. ASSUME NEW h \in Handlers, HandleCancelEvaluation(h) PROVE RowTypes'
  BY <1>20 DEF HandleCancelEvaluation, Signal, NewSweep
<1>21. ASSUME NEW h \in Handlers, HandleDeletePostProcessing(h) PROVE RowTypes'
  BY <1>21 DEF HandleDeletePostProcessing, NewSweep
<1>22. ASSUME NEW h \in Handlers, HandlerSweepEnds(h) PROVE RowTypes'
  BY <1>22 DEF HandlerSweepEnds, Sweeping
<1>23. ASSUME NEW h \in Handlers, DeletePostProcessingRow(h) PROVE RowTypes'
  BY <1>23 DEF DeletePostProcessingRow
<1>24. ASSUME NEW b \in Bench, FinishJobDeletion(b) PROVE RowTypes'
  BY <1>24 DEF FinishJobDeletion
<1>25. ASSUME NEW b \in Bench, CollectGarbage(b) PROVE RowTypes'
  BY <1>25 DEF CollectGarbage
<1>26. ASSUME NEW b \in Bench, ExternalDelete(b) PROVE RowTypes'
  BY <1>26 DEF ExternalDelete
<1>27. CASE Close
  BY <1>27 DEF Close
<1>28. CASE ProcessExit
  BY <1>28 DEF ProcessExit, IdleSweep
<1>29. CASE UNCHANGED vars
  BY <1>29 DEF vars
<1> QED
  BY <1>1, <1>2, <1>3, <1>4, <1>5, <1>6, <1>7, <1>8, <1>9, <1>10, <1>11, <1>12, <1>13,
     <1>14, <1>15, <1>16, <1>17, <1>18, <1>19, <1>20, <1>21, <1>22, <1>23, <1>24, <1>25, <1>26,
     <1>27, <1>28, <1>29
  DEF Next, LoopStep, SweepStep, HandlerStep

\* Every step keeps the types of what is remembered, and the bound on faults.
LEMMA HistoryTypeStep ==
    ASSUME TypesOK, HistoryTypes, [Next]_vars
    PROVE  HistoryTypes'
<1> USE RuntimeAssumption DEF LoopTypes, TypesOK, HistoryTypes, Unhandled, At, Goto, Return, Outcomes, Outcome, Applied, NoFault, Fault, cluster, loopVars,
            history
<1>1. CASE PreCreateCheck
  BY <1>1 DEF PreCreateCheck, AbortDecision, SweepAfterAbort, KeepWaiting, NewSweep
<1>2. CASE CreateSecret
  BY <1>2 DEF CreateSecret
<1>3. CASE CreateConfigMap
  BY <1>3 DEF CreateConfigMap
<1>4. CASE CreateNetworkPolicy
  BY <1>4 DEF CreateNetworkPolicy
<1>5. CASE CreateJob
  BY <1>5 DEF CreateJob
<1>6. CASE ConfirmJob
  BY <1>6 DEF ConfirmJob, ConfirmOutcome
<1>7. CASE SetNetworkPolicyOwner
  BY <1>7 DEF SetNetworkPolicyOwner
<1>8. CASE RollbackDelete
  BY <1>8 DEF RollbackDelete, Deleting
<1>9. CASE RollbackWait
  BY <1>9 DEF RollbackWait, JobDeletionOutcome
<1>10. CASE SetConfigMapOwner
  BY <1>10 DEF SetConfigMapOwner
<1>11. CASE DeleteOrphanedJob
  BY <1>11 DEF DeleteOrphanedJob, Deleting
<1>12. CASE SetSecretOwner
  BY <1>12 DEF SetSecretOwner
<1>13. CASE Cleanup
  BY <1>13 DEF Cleanup
<1>14. CASE PostCreateCheck
  BY <1>14 DEF PostCreateCheck, AbortDecision, SweepAfterAbort, KeepWaiting, NewSweep
<1>15. CASE ReportFailure
  BY <1>15 DEF ReportFailure, Advance, Ends
<1>16. CASE LoopSweepEnds
  BY <1>16 DEF LoopSweepEnds
<1>17. ASSUME NEW w \in Sweepers, SweepListJobs(w) PROVE HistoryTypes'
  <2>1. /\ sweepFailed' = TRUE \/ sweepFailed' = sweepFailed
        /\ UNCHANGED <<uncertain, tampered, unhandled, closed>>
    BY <1>17 DEF SweepListJobs
  <2>2. faults' \in 0 .. MaxFaults
    BY <1>17 DEF SweepListJobs
  <2>3. QED
    BY <2>1, <2>2
<1>18. ASSUME NEW w \in Sweepers, SweepDeleteJobs(w) PROVE HistoryTypes'
  <2>1. /\ sweepFailed' = TRUE \/ sweepFailed' = sweepFailed
        /\ UNCHANGED <<uncertain, tampered, unhandled, closed>>
    BY <1>18 DEF SweepDeleteJobs
  <2>2. faults' \in 0 .. MaxFaults
    BY <1>18 DEF SweepDeleteJobs
  <2>3. QED
    BY <2>1, <2>2
<1>19. ASSUME NEW w \in Sweepers, SweepDeleteSecrets(w) PROVE HistoryTypes'
  <2>1. /\ sweepFailed' = TRUE \/ sweepFailed' = sweepFailed
        /\ UNCHANGED <<uncertain, tampered, unhandled, closed>>
    BY <1>19 DEF SweepDeleteSecrets
  <2>2. faults' \in 0 .. MaxFaults
    BY <1>19 DEF SweepDeleteSecrets
  <2>3. QED
    BY <2>1, <2>2
<1>20. ASSUME NEW h \in Handlers, HandleCancelEvaluation(h) PROVE HistoryTypes'
  BY <1>20 DEF HandleCancelEvaluation, Signal, NewSweep
<1>21. ASSUME NEW h \in Handlers, HandleDeletePostProcessing(h) PROVE HistoryTypes'
  BY <1>21 DEF HandleDeletePostProcessing, NewSweep
<1>22. ASSUME NEW h \in Handlers, HandlerSweepEnds(h) PROVE HistoryTypes'
  BY <1>22 DEF HandlerSweepEnds, Sweeping
<1>23. ASSUME NEW h \in Handlers, DeletePostProcessingRow(h) PROVE HistoryTypes'
  BY <1>23 DEF DeletePostProcessingRow
<1>24. ASSUME NEW b \in Bench, FinishJobDeletion(b) PROVE HistoryTypes'
  BY <1>24 DEF FinishJobDeletion
<1>25. ASSUME NEW b \in Bench, CollectGarbage(b) PROVE HistoryTypes'
  BY <1>25 DEF CollectGarbage
<1>26. ASSUME NEW b \in Bench, ExternalDelete(b) PROVE HistoryTypes'
  BY <1>26 DEF ExternalDelete
<1>27. CASE Close
  BY <1>27 DEF Close
<1>28. CASE ProcessExit
  BY <1>28 DEF ProcessExit, IdleSweep
<1>29. CASE UNCHANGED vars
  BY <1>29 DEF vars
<1> QED
  BY <1>1, <1>2, <1>3, <1>4, <1>5, <1>6, <1>7, <1>8, <1>9, <1>10, <1>11, <1>12, <1>13,
     <1>14, <1>15, <1>16, <1>17, <1>18, <1>19, <1>20, <1>21, <1>22, <1>23, <1>24, <1>25, <1>26,
     <1>27, <1>28, <1>29
  DEF Next, LoopStep, SweepStep, HandlerStep

\* Every variable keeps its type, whatever the number of benchmarks, of failed
\* calls and of requests: in particular the loop never walks past the last
\* benchmark and a sweep never runs more often than twice.
THEOREM K8sTypeOK == Spec => []TypeOK
<1> DEFINE T == TypesOK /\ RowTypes /\ HistoryTypes
<1>1. Init => T
  <2>1. Init => TypesOK
    BY InvInit DEF Inv
  <2>2. Init => RowTypes
    BY DEF Init, RowTypes, Labels
  <2>3. Init => HistoryTypes
    <3>1. 0 \in 0 .. MaxFaults
      BY RuntimeAssumption
    <3>2. QED
      BY <3>1 DEF Init, HistoryTypes
  <2>4. QED
    BY <2>1, <2>2, <2>3
<1>2. T /\ [Next]_vars => T'
  BY TypesStep, RowTypeStep, HistoryTypeStep
<1>3. T => TypeOK
  BY DEF TypeOK, TypesOK, ClusterTypes, LoopTypes, SweepTypes, RowTypes, HistoryTypes
<1>4. QED
  BY <1>1, <1>2, <1>3, PTL DEF Spec

-----------------------------------------------------------------------------
(* The budget of the create loop                                           *)

\* What is to be undone is there while the loop undoes; a sweep that is over has
\* been put back to its start.
BudgetOK ==
    /\ pc \notin {"undo", "done"} => undo = {}
    /\ \A w \in Sweepers : sweep[w].left = 0 => sweep[w].phase = "list"

LEMMA BudgetStep ==
    ASSUME TypesOK, BudgetOK, [Next]_vars
    PROVE  BudgetOK'
<1> USE RuntimeAssumption DEF SweepTypes, TypesOK, BudgetOK, At, Goto, Return, Outcomes, Outcome, Applied, NoFault, Fault, cluster, loopVars,
            history
<1>1. CASE PreCreateCheck
  BY <1>1 DEF PreCreateCheck, AbortDecision, SweepAfterAbort, KeepWaiting, NewSweep
<1>2. CASE CreateSecret
  BY <1>2 DEF CreateSecret
<1>3. CASE CreateConfigMap
  BY <1>3 DEF CreateConfigMap
<1>4. CASE CreateNetworkPolicy
  BY <1>4 DEF CreateNetworkPolicy
<1>5. CASE CreateJob
  BY <1>5 DEF CreateJob
<1>6. CASE ConfirmJob
  BY <1>6 DEF ConfirmJob, ConfirmOutcome
<1>7. CASE SetNetworkPolicyOwner
  BY <1>7 DEF SetNetworkPolicyOwner
<1>8. CASE RollbackDelete
  BY <1>8 DEF RollbackDelete, Deleting
<1>9. CASE RollbackWait
  BY <1>9 DEF RollbackWait, JobDeletionOutcome
<1>10. CASE SetConfigMapOwner
  BY <1>10 DEF SetConfigMapOwner
<1>11. CASE DeleteOrphanedJob
  BY <1>11 DEF DeleteOrphanedJob, Deleting
<1>12. CASE SetSecretOwner
  BY <1>12 DEF SetSecretOwner
<1>13. CASE Cleanup
  BY <1>13 DEF Cleanup
<1>14. CASE PostCreateCheck
  BY <1>14 DEF PostCreateCheck, AbortDecision, SweepAfterAbort, KeepWaiting, NewSweep
<1>15. CASE ReportFailure
  BY <1>15 DEF ReportFailure, Advance, Ends
<1>16. CASE LoopSweepEnds
  BY <1>16 DEF LoopSweepEnds
<1>17. ASSUME NEW w \in Sweepers, SweepListJobs(w) PROVE BudgetOK'
  <2>1. sweep[w].left > 0 /\ sweep[w].left \in 0 .. 2 /\ pc' = pc /\ undo' = undo
    BY <1>17 DEF SweepListJobs, Sweeping
  <2>2. PICK s : /\ sweep' = [sweep EXCEPT ![w] = s]
                 /\ s.left = sweep[w].left \/ s.phase = "list"
    BY <1>17 DEF SweepListJobs, SweepOver
  <2>3. QED
    BY <2>1, <2>2
<1>18. ASSUME NEW w \in Sweepers, SweepDeleteJobs(w) PROVE BudgetOK'
  BY <1>18 DEF SweepDeleteJobs, Sweeping
<1>19. ASSUME NEW w \in Sweepers, SweepDeleteSecrets(w) PROVE BudgetOK'
  BY <1>19 DEF SweepDeleteSecrets, SweepOver, Sweeping
<1>20. ASSUME NEW h \in Handlers, HandleCancelEvaluation(h) PROVE BudgetOK'
  BY <1>20 DEF HandleCancelEvaluation, Signal, NewSweep
<1>21. ASSUME NEW h \in Handlers, HandleDeletePostProcessing(h) PROVE BudgetOK'
  BY <1>21 DEF HandleDeletePostProcessing, NewSweep
<1>22. ASSUME NEW h \in Handlers, HandlerSweepEnds(h) PROVE BudgetOK'
  BY <1>22 DEF HandlerSweepEnds, Sweeping
<1>23. ASSUME NEW h \in Handlers, DeletePostProcessingRow(h) PROVE BudgetOK'
  BY <1>23 DEF DeletePostProcessingRow
<1>24. ASSUME NEW b \in Bench, FinishJobDeletion(b) PROVE BudgetOK'
  BY <1>24 DEF FinishJobDeletion
<1>25. ASSUME NEW b \in Bench, CollectGarbage(b) PROVE BudgetOK'
  BY <1>25 DEF CollectGarbage
<1>26. ASSUME NEW b \in Bench, ExternalDelete(b) PROVE BudgetOK'
  BY <1>26 DEF ExternalDelete
<1>27. CASE Close
  BY <1>27 DEF Close
<1>28. CASE ProcessExit
  BY <1>28 DEF ProcessExit, IdleSweep
<1>29. CASE UNCHANGED vars
  BY <1>29 DEF vars
<1> QED
  BY <1>1, <1>2, <1>3, <1>4, <1>5, <1>6, <1>7, <1>8, <1>9, <1>10, <1>11, <1>12, <1>13,
     <1>14, <1>15, <1>16, <1>17, <1>18, <1>19, <1>20, <1>21, <1>22, <1>23, <1>24, <1>25, <1>26,
     <1>27, <1>28, <1>29
  DEF Next, LoopStep, SweepStep, HandlerStep

LEMMA StageValues ==
    /\ StagesAhead["precheck"] = 22 /\ StagesAhead["secret"] = 21 /\ StagesAhead["configmap"] = 20
    /\ StagesAhead["policy"] = 19 /\ StagesAhead["job"] = 18 /\ StagesAhead["confirm"] = 17
    /\ StagesAhead["policyOwner"] = 16 /\ StagesAhead["configMapOwner"] = 15
    /\ StagesAhead["rollbackDelete"] = 14 /\ StagesAhead["rollbackWait"] = 13
    /\ StagesAhead["orphanDelete"] = 12 /\ StagesAhead["secretOwner"] = 12 /\ StagesAhead["undo"] = 9
    /\ StagesAhead["postcheck"] = 9 /\ StagesAhead["next"] = 8 /\ StagesAhead["sweep"] = 1
    /\ StagesAhead["done"] = 0
  BY DEF StagesAhead

\* Position, remaining clean-ups and faults of the loop.
LoopHere == StagesAhead[pc] + UndoAhead + (MaxFaults - faults)

\* The parts of the budget are numbers.
BudgetParts ==
    /\ bench \in Nat /\ bench < N /\ N \in Nat
    /\ UndoAhead \in 0 .. 2 /\ StagesAhead[pc] \in Nat /\ faults \in 0 .. MaxFaults /\ MaxFaults \in Nat
    /\ SweepAhead \in Nat /\ LoopHere \in Nat /\ LoopAhead \in Nat
    /\ LoopAhead = 23 * (N - bench) + SweepAhead + LoopHere

LEMMA BudgetTypes == TypesOK /\ RowTypes /\ HistoryTypes /\ BudgetOK => BudgetParts
<1> SUFFICES ASSUME TypesOK, RowTypes, HistoryTypes, BudgetOK PROVE BudgetParts
  OBVIOUS
<1>1. bench \in Nat /\ bench < N /\ N \in Nat
  BY RuntimeAssumption DEF TypesOK, LoopTypes, Bench
<1>2. UndoAhead \in 0 .. 2
  BY DEF UndoAhead, Holds
<1>3. StagesAhead[pc] \in Nat
  BY StageValues DEF RowTypes, Labels
<1>4. faults \in 0 .. MaxFaults /\ MaxFaults \in Nat
  BY RuntimeAssumption DEF HistoryTypes
<1>5. SweepAhead \in Nat
  <2>1. /\ sweep["loop"].left \in 0 .. 2 /\ sweep["loop"].phase \in {"list", "jobs", "secrets"}
        /\ sweep["loop"].left = 0 => sweep["loop"].phase = "list"
    BY DEF TypesOK, SweepTypes, BudgetOK, Sweepers
  <2>2. QED
    BY <2>1 DEF SweepAhead, Holds
<1>6. LoopHere \in Nat
  BY <1>2, <1>3, <1>4 DEF LoopHere
<1>7. LoopAhead = 23 * (N - bench) + SweepAhead + LoopHere
  BY <1>1, <1>2, <1>3, <1>4, <1>5 DEF LoopHere, LoopAhead
<1>8. QED
  BY <1>1, <1>2, <1>3, <1>4, <1>5, <1>6, <1>7 DEF BudgetParts

\* Every step of the goroutine moves it on: within the benchmark, to the next
\* one, or into its sweeps.
LEMMA LoopStepShrinks ==
    ASSUME TypesOK, RowTypes, HistoryTypes, BudgetOK, SweepersOK, NotYetCreated, LoopStep
    PROVE  \/ bench' = bench /\ sweep' = sweep /\ LoopHere' < LoopHere
           \/ bench' = bench + 1 /\ sweep' = sweep /\ LoopHere' <= LoopHere + 14
           \/ bench' = bench /\ SweepAhead = 0 /\ SweepAhead' = 6 /\ LoopHere' + 6 < LoopHere
<1>0. faults \in 0 .. MaxFaults /\ MaxFaults \in Nat /\ (pc \notin {"undo", "done"} => undo = {})
      /\ undo \subseteq {"secret", "configmap"}
  BY RuntimeAssumption DEF HistoryTypes, BudgetOK, TypesOK, LoopTypes
<1> USE <1>0, StageValues DEF LoopHere, UndoAhead, Holds, At, Goto, Return, Outcomes, Outcome, Applied, NoFault, Fault, cluster, loopVars,
            history
<1>1. CASE PreCreateCheck
  <2>1. /\ bench' = bench /\ undo' = undo /\ undo = {} /\ pc \in {"precheck", "postcheck"}
        /\ \/ sweep' = sweep /\ pc' \in {"secret", "done"} /\ faults' = faults
           \/ sweep' = sweep /\ pc' = pc /\ faults' = faults + 1
           \/ sweep' = [sweep EXCEPT !["loop"] = NewSweep] /\ pc' = "sweep" /\ faults' = faults
        /\ pc = "precheck"
    BY <1>1 DEF PreCreateCheck, AbortDecision, SweepAfterAbort, KeepWaiting
  <2>2. CASE sweep' = [sweep EXCEPT !["loop"] = NewSweep] /\ pc' = "sweep" /\ faults' = faults
    <3>1. SweepAhead = 0 /\ SweepAhead' = 6
      <4>1. /\ ~(sweep["loop"].left > 0) /\ sweep["loop"].left \in 0 .. 2
            /\ sweep["loop"].left = 0 => sweep["loop"].phase = "list"
        BY <2>1 DEF SweepersOK, Sweeping, TypesOK, SweepTypes, Sweepers, BudgetOK
      <4>2. sweep'["loop"].left = 2 /\ sweep'["loop"].phase = "list"
        BY <2>2 DEF TypesOK, SweepTypes, Sweepers, NewSweep
      <4>3. QED
        BY <4>1, <4>2 DEF SweepAhead, Holds
    <3>2. QED
      BY <2>1, <2>2, <3>1
  <2>3. QED
    BY <2>1, <2>2
<1>2. CASE CreateSecret
  BY <1>2 DEF CreateSecret
<1>3. CASE CreateConfigMap
  BY <1>3 DEF CreateConfigMap
<1>4. CASE CreateNetworkPolicy
  BY <1>4 DEF CreateNetworkPolicy
<1>5. CASE CreateJob
  BY <1>5 DEF CreateJob
<1>6. CASE ConfirmJob
  BY <1>6 DEF ConfirmJob, ConfirmOutcome
<1>7. CASE SetNetworkPolicyOwner
  BY <1>7 DEF SetNetworkPolicyOwner
<1>8. CASE RollbackDelete
  BY <1>8 DEF RollbackDelete, Deleting
<1>9. CASE RollbackWait
  BY <1>9 DEF RollbackWait, JobDeletionOutcome
<1>10. CASE SetConfigMapOwner
  BY <1>10 DEF SetConfigMapOwner
<1>11. CASE DeleteOrphanedJob
  BY <1>11 DEF DeleteOrphanedJob, Deleting
<1>12. CASE SetSecretOwner
  BY <1>12 DEF SetSecretOwner
<1>13. CASE Cleanup
  <2>1. PICK r \in undo : /\ undo' = undo \ {r}
                          /\ bench' = bench /\ sweep' = sweep
                          /\ pc = "undo" /\ pc' \in {"undo", "postcheck"}
                          /\ (faults' = faults) \/ (faults' = faults + 1 /\ faults < MaxFaults)
    <3> DEFINE r == IF "secret" \in undo THEN "secret" ELSE "configmap"
    <3>1. pc = "undo" /\ undo # {}
      BY <1>13 DEF Cleanup, NotYetCreated
    <3>2. r \in undo
      BY <3>1
    <3>3. /\ undo' = undo \ {r} /\ bench' = bench /\ sweep' = sweep
          /\ pc' = "undo" \/ pc' = "postcheck"
          /\ (faults' = faults) \/ (faults' = faults + 1 /\ faults < MaxFaults)
      BY <1>13 DEF Cleanup
    <3>4. QED
      BY <3>1, <3>2, <3>3
  <2>2. UndoAhead' = UndoAhead - 1
    <3>1. r = "secret" \/ r = "configmap"
      BY <2>1
    <3>2. CASE r = "secret"
      <4>1. "secret" \in undo /\ "secret" \notin undo' /\ ("configmap" \in undo' <=> "configmap" \in undo)
        BY <2>1, <3>2
      <4>2. QED
        BY <4>1
    <3>3. CASE r = "configmap"
      <4>1. "configmap" \in undo /\ "configmap" \notin undo' /\ ("secret" \in undo' <=> "secret" \in undo)
        BY <2>1, <3>3
      <4>2. QED
        BY <4>1
    <3>4. QED
      BY <3>1, <3>2, <3>3
  <2>3. UndoAhead \in 0 .. 2
    OBVIOUS
  <2>4. PICK v, w : v = UndoAhead /\ w = UndoAhead' /\ v \in 0 .. 2 /\ w = v - 1
    BY <2>2, <2>3
  <2>5. LoopHere = 9 + v + (MaxFaults - faults) /\ LoopHere' = 9 + w + (MaxFaults - faults')
    <3> HIDE DEF UndoAhead
    <3> QED BY <2>1, <2>4
  <2>6. PICK p, q : p = LoopHere /\ q = LoopHere'
    OBVIOUS
  <2>7. q < p
    <3> HIDE DEF LoopHere
    <3> QED BY <2>1, <2>4, <2>5, <2>6
  <2>8. QED
    <3> HIDE DEF LoopHere
    <3> QED BY <2>1, <2>6, <2>7
<1>14. CASE PostCreateCheck
  <2>1. /\ bench' = bench /\ undo' = undo /\ undo = {} /\ pc \in {"precheck", "postcheck"}
        /\ \/ sweep' = sweep /\ pc' \in {"next", "done"} /\ faults' = faults
           \/ sweep' = sweep /\ pc' = pc /\ faults' = faults + 1
           \/ sweep' = [sweep EXCEPT !["loop"] = NewSweep] /\ pc' = "sweep" /\ faults' = faults
        /\ pc = "postcheck"
    BY <1>14 DEF PostCreateCheck, AbortDecision, SweepAfterAbort, KeepWaiting
  <2>2. CASE sweep' = [sweep EXCEPT !["loop"] = NewSweep] /\ pc' = "sweep" /\ faults' = faults
    <3>1. SweepAhead = 0 /\ SweepAhead' = 6
      <4>1. /\ ~(sweep["loop"].left > 0) /\ sweep["loop"].left \in 0 .. 2
            /\ sweep["loop"].left = 0 => sweep["loop"].phase = "list"
        BY <2>1 DEF SweepersOK, Sweeping, TypesOK, SweepTypes, Sweepers, BudgetOK
      <4>2. sweep'["loop"].left = 2 /\ sweep'["loop"].phase = "list"
        BY <2>2 DEF TypesOK, SweepTypes, Sweepers, NewSweep
      <4>3. QED
        BY <4>1, <4>2 DEF SweepAhead, Holds
    <3>2. QED
      BY <2>1, <2>2, <3>1
  <2>3. QED
    BY <2>1, <2>2
<1>15. CASE ReportFailure
  BY <1>15 DEF ReportFailure, Advance, Ends
<1>16. CASE LoopSweepEnds
  BY <1>16 DEF LoopSweepEnds
<1> QED
  BY <1>1, <1>2, <1>3, <1>4, <1>5, <1>6, <1>7, <1>8, <1>9, <1>10, <1>11, <1>12, <1>13, <1>14, <1>15, <1>16 DEF LoopStep

\* The loop's own sweeps come to their end.
LEMMA SweepStepShrinks ==
    ASSUME TypesOK, RowTypes, HistoryTypes, BudgetOK, SweepStep("loop")
    PROVE  SweepAhead' < SweepAhead /\ LoopHere' <= LoopHere /\ bench' = bench
<1>0. /\ faults \in 0 .. MaxFaults /\ MaxFaults \in Nat /\ StagesAhead[pc] \in Nat /\ UndoAhead \in 0 .. 2
      /\ sweep["loop"].left \in 0 .. 2 /\ sweep["loop"].phase \in {"list", "jobs", "secrets"}
      /\ "loop" \in DOMAIN sweep
  BY BudgetTypes DEF BudgetParts, TypesOK, SweepTypes, Sweepers
<1>1. /\ bench' = bench /\ pc' = pc /\ undo' = undo
      /\ (faults' = faults) \/ (faults' = faults + 1 /\ faults < MaxFaults)
  BY DEF SweepStep, SweepListJobs, SweepDeleteJobs, SweepDeleteSecrets, NoFault, Fault, loopVars
<1>2. LoopHere' <= LoopHere
  <2>1. UndoAhead' = UndoAhead
    BY <1>1 DEF UndoAhead
  <2>2. QED
    BY <1>0, <1>1, <2>1 DEF LoopHere
<1>3. /\ sweep["loop"].left > 0
      /\ \/ sweep["loop"].phase = "list" /\ sweep'["loop"].phase = "jobs" /\ sweep'["loop"].left = sweep["loop"].left
         \/ sweep["loop"].phase = "jobs" /\ sweep'["loop"].phase = "secrets" /\ sweep'["loop"].left = sweep["loop"].left
         \/ sweep'["loop"].phase = "list" /\ sweep'["loop"].left = sweep["loop"].left - 1
  <2>1. CASE SweepListJobs("loop")
    <3>1. sweep["loop"].left > 0 /\ sweep["loop"].phase = "list"
      BY <2>1 DEF SweepListJobs, Sweeping
    <3>2. PICK s : /\ sweep' = [sweep EXCEPT !["loop"] = s]
                   /\ \/ s.left = sweep["loop"].left /\ s.phase = "jobs"
                      \/ s.left = sweep["loop"].left - 1 /\ s.phase = "list"
      <4>1. \/ sweep' = [sweep EXCEPT !["loop"] = [sweep["loop"] EXCEPT !.phase = "jobs",
                                            !.jobs = {b \in Bench : job[b] # "none"}]]
            \/ sweep' = [sweep EXCEPT !["loop"] = SweepOver("loop")]
        BY <2>1 DEF SweepListJobs
      <4>2. CASE sweep' = [sweep EXCEPT !["loop"] = SweepOver("loop")]
        <5>1. SweepOver("loop").left = sweep["loop"].left - 1 /\ SweepOver("loop").phase = "list"
          BY DEF SweepOver
        <5>2. QED
          BY <4>2, <5>1
      <4>3. CASE sweep' = [sweep EXCEPT !["loop"] = [sweep["loop"] EXCEPT !.phase = "jobs",
                                            !.jobs = {b \in Bench : job[b] # "none"}]]
        <5> DEFINE s == [sweep["loop"] EXCEPT !.phase = "jobs", !.jobs = {b \in Bench : job[b] # "none"}]
        <5>1. sweep["loop"] \in [left : 0 .. 2, phase : {"list", "jobs", "secrets"}, jobs : SUBSET Bench]
          BY DEF TypesOK, SweepTypes, Sweepers
        <5>2. s.left = sweep["loop"].left /\ s.phase = "jobs"
          BY <5>1
        <5> HIDE DEF s
        <5>3. sweep' = [sweep EXCEPT !["loop"] = s]
          BY <4>3 DEF s
        <5>4. QED
          BY <5>2, <5>3
      <4>4. QED
        BY <4>1, <4>2, <4>3
    <3>3. QED
      BY <1>0, <3>1, <3>2
  <2>2. CASE SweepDeleteJobs("loop")
    BY <1>0, <2>2 DEF TypesOK, SweepTypes, Sweepers, SweepDeleteJobs, Sweeping, SweepOver
  <2>3. CASE SweepDeleteSecrets("loop")
    BY <1>0, <2>3 DEF TypesOK, SweepTypes, Sweepers, SweepDeleteSecrets, Sweeping, SweepOver
  <2>4. QED
    BY <2>1, <2>2, <2>3 DEF SweepStep
<1>4. SweepAhead' < SweepAhead
  BY <1>0, <1>3 DEF SweepAhead, Holds
<1>5. QED
  BY <1>1, <1>2, <1>4

\* No other step adds to the budget.
LEMMA OtherStepKeeps ==
    ASSUME TypesOK, RowTypes, HistoryTypes, BudgetOK, SweepersOK, [Next]_vars, ~LoopStep, ~SweepStep("loop")
    PROVE  /\ bench' = bench /\ LoopHere' <= LoopHere
           /\ sweep'["loop"] = sweep["loop"] \/ (sweep'["loop"] = IdleSweep /\ pc' = "done")
<1>0. /\ faults \in 0 .. MaxFaults /\ MaxFaults \in Nat /\ StagesAhead[pc] \in Nat /\ UndoAhead \in 0 .. 2
      /\ DOMAIN sweep = Sweepers /\ "loop" \in Sweepers /\ "loop" \notin Handlers /\ StagesAhead["done"] = 0
  BY BudgetTypes, StageValues, RuntimeAssumption DEF BudgetParts, TypesOK, SweepTypes, Sweepers
<1>1. \/ /\ UNCHANGED <<bench, undo, pc>> /\ sweep'["loop"] = sweep["loop"]
         /\ (faults' = faults) \/ (faults' = faults + 1 /\ faults < MaxFaults)
      \/ /\ UNCHANGED <<bench, undo, faults>> /\ pc' = "done" /\ sweep'["loop"] = IdleSweep
  <2> USE <1>0 DEF NoFault, Fault, loopVars, cluster, history
  <2>1. ASSUME NEW w \in Sweepers, SweepStep(w)
        PROVE  /\ UNCHANGED <<bench, undo, pc>> /\ sweep'["loop"] = sweep["loop"]
               /\ (faults' = faults) \/ (faults' = faults + 1 /\ faults < MaxFaults)
    <3>1. w # "loop"
      BY <2>1
    <3>2. UNCHANGED <<bench, undo, pc>> /\ (faults' = faults \/ (faults' = faults + 1 /\ faults < MaxFaults))
      BY <2>1 DEF SweepStep, SweepListJobs, SweepDeleteJobs, SweepDeleteSecrets
    <3>3. \E s : sweep' = [sweep EXCEPT ![w] = s]
      BY <2>1 DEF SweepStep, SweepListJobs, SweepDeleteJobs, SweepDeleteSecrets
    <3>4. QED
      BY <3>1, <3>2, <3>3
  <2>2. ASSUME NEW h \in Handlers,
               HandleCancelEvaluation(h) \/ HandleDeletePostProcessing(h) \/ HandlerStep(h)
        PROVE  UNCHANGED <<bench, undo, pc, faults>> /\ sweep'["loop"] = sweep["loop"]
    BY <2>2 DEF HandleCancelEvaluation, HandleDeletePostProcessing, HandlerStep, HandlerSweepEnds,
                DeletePostProcessingRow
  <2>3. ASSUME NEW b \in Bench, FinishJobDeletion(b) \/ CollectGarbage(b) \/ ExternalDelete(b)
        PROVE  /\ UNCHANGED <<bench, undo, pc, sweep>>
               /\ (faults' = faults) \/ (faults' = faults + 1 /\ faults < MaxFaults)
    BY <2>3 DEF FinishJobDeletion, CollectGarbage, ExternalDelete
  <2>4. CASE Close \/ UNCHANGED vars
    BY <2>4 DEF Close, vars
  <2>5. CASE ProcessExit
    BY <2>5 DEF ProcessExit
  <2>6. QED
    BY <2>1, <2>2, <2>3, <2>4, <2>5 DEF Next
<1>2. UndoAhead' = UndoAhead
  BY <1>1 DEF UndoAhead
<1>3. LoopHere' <= LoopHere
  BY <1>0, <1>1, <1>2 DEF LoopHere
<1>4. QED
  BY <1>1, <1>3

\* The create loop takes a bounded number of steps (LoopBounded), whatever the
\* number of benchmarks and of failed calls: at most what LoopAhead is at the
\* start, 23 * N + 22 + MaxFaults.
THEOREM K8sLoopBounded == Spec => LoopBounded
<1> DEFINE T == TypesOK /\ RowTypes /\ HistoryTypes
           Step == /\ LoopAhead \in Nat
                   /\ \/ LoopAhead' < LoopAhead
                      \/ LoopAhead' = LoopAhead /\ ~(LoopStep \/ SweepStep("loop"))
<1>1. Init => T /\ BudgetOK
  <2>1. Init => TypesOK
    BY InvInit DEF Inv
  <2>2. Init => RowTypes
    BY DEF Init, RowTypes, Labels
  <2>3. Init => HistoryTypes
    <3>1. 0 \in 0 .. MaxFaults
      BY RuntimeAssumption
    <3>2. QED
      BY <3>1 DEF Init, HistoryTypes
  <2>4. Init => BudgetOK
    BY DEF Init, BudgetOK, IdleSweep
  <2>5. QED
    BY <2>1, <2>2, <2>3, <2>4
<1>2. T /\ BudgetOK /\ [Next]_vars => (T /\ BudgetOK)'
  BY TypesStep, RowTypeStep, HistoryTypeStep, BudgetStep
<1>3. ASSUME T, BudgetOK, (T /\ BudgetOK)', Inv, [Next]_vars
      PROVE  Step
  <2>1. /\ bench \in Nat /\ bench < N /\ N \in Nat /\ SweepAhead \in Nat /\ LoopHere \in Nat
        /\ LoopAhead \in Nat /\ LoopAhead = 23 * (N - bench) + SweepAhead + LoopHere
    BY <1>3, BudgetTypes DEF BudgetParts
  <2>2. /\ bench' \in Nat /\ bench' < N /\ SweepAhead' \in Nat /\ LoopHere' \in Nat
        /\ LoopAhead' \in Nat /\ LoopAhead' = 23 * (N - bench') + SweepAhead' + LoopHere'
    <3>1. (TypesOK /\ RowTypes /\ HistoryTypes /\ BudgetOK => BudgetParts)'
      BY BudgetTypes, PTL
    <3>2. QED
      BY <1>3, <3>1 DEF BudgetParts
  <2>3. PICK a, c, h, k, s, u : /\ a = LoopAhead /\ c = LoopAhead' /\ h = LoopHere /\ k = LoopHere'
                                /\ s = SweepAhead /\ u = SweepAhead'
    OBVIOUS
  <2>4. /\ a \in Nat /\ c \in Nat /\ h \in Nat /\ k \in Nat /\ s \in Nat /\ u \in Nat
        /\ a = 23 * (N - bench) + s + h /\ c = 23 * (N - bench') + u + k
        /\ bench \in Nat /\ bench < N /\ N \in Nat /\ bench' \in Nat /\ bench' < N
    BY <2>1, <2>2, <2>3
  <2>5. CASE LoopStep
    <3>1. \/ bench' = bench /\ sweep' = sweep /\ k < h
          \/ bench' = bench + 1 /\ sweep' = sweep /\ k <= h + 14
          \/ bench' = bench /\ s = 0 /\ u = 6 /\ k + 6 < h
      BY <1>3, <2>3, <2>5, LoopStepShrinks DEF Inv
    <3>2. sweep' = sweep => u = s
      BY <2>3 DEF SweepAhead
    <3>3. c < a
      <4>1. CASE bench' = bench /\ u = s /\ k < h
        BY <2>4, <4>1
      <4>2. CASE bench' = bench + 1 /\ u = s /\ k <= h + 14
        BY <2>4, <4>2
      <4>3. CASE bench' = bench /\ s = 0 /\ u = 6 /\ k + 6 < h
        BY <2>4, <4>3
      <4>4. QED
        BY <3>1, <3>2, <4>1, <4>2, <4>3
    <3>4. QED
      BY <2>3, <2>4, <3>3
  <2>6. CASE SweepStep("loop")
    <3>1. u < s /\ k <= h /\ bench' = bench
      BY <1>3, <2>3, <2>6, SweepStepShrinks
    <3>2. c < a
      BY <2>4, <3>1
    <3>3. QED
      BY <2>3, <2>4, <3>2
  <2>7. CASE ~LoopStep /\ ~SweepStep("loop")
    <3>1. /\ bench' = bench /\ k <= h
          /\ sweep'["loop"] = sweep["loop"] \/ (sweep'["loop"] = IdleSweep /\ pc' = "done")
      BY <1>3, <2>3, <2>7, OtherStepKeeps DEF Inv
    <3>2. u <= s
      <4>1. CASE sweep'["loop"] = sweep["loop"]
        <5>1. u = s
          BY <2>3, <4>1 DEF SweepAhead
        <5>2. QED
          BY <2>4, <5>1
      <4>2. CASE sweep'["loop"] = IdleSweep
        <5>1. SweepAhead' = 0
          BY <4>2 DEF SweepAhead, IdleSweep, Holds
        <5>2. QED
          BY <2>3, <2>4, <5>1
      <4>3. QED
        BY <3>1, <4>1, <4>2
    <3>3. c < a \/ c = a
      BY <2>4, <3>1, <3>2
    <3>4. QED
      BY <2>3, <2>4, <2>7, <3>3
  <2>8. QED
    BY <2>5, <2>6, <2>7
<1>4. T /\ BudgetOK /\ (T /\ BudgetOK)' /\ Inv /\ [Next]_vars => [Step]_vars
  BY <1>3
<1>5. QED
  BY <1>1, <1>2, <1>4, K8sInvariant, PTL DEF Spec, LoopBounded

-----------------------------------------------------------------------------
(* What is left without an owner                                           *)

\* A benchmark of which the loop knows the outcome and has handled every failure.
Handled(b) == b \notin uncertain \cup unhandled
Free(b) == secret[b] # "unowned" /\ configMap[b] # "unowned"

\* Nothing is created out of turn; a ConfigMap or secret without an owner is that
\* of the benchmark the loop is at, and while it undoes, on the list of what it
\* still has to delete.
OwnersOK ==
    ~closed =>
    /\ \A b \in Bench : b > bench => secret[b] = "none" /\ configMap[b] = "none"
    /\ \A b \in Bench : b < bench /\ Handled(b) => Free(b)
    /\ pc \in {"precheck", "secret"} => secret[bench] = "none"
    /\ pc \in {"precheck", "secret", "configmap", "orphanDelete"} => configMap[bench] = "none"
    /\ Handled(bench) =>
          /\ pc = "secretOwner" => configMap[bench] # "unowned"
          /\ pc = "undo" /\ secret[bench] = "unowned" => "secret" \in undo
          /\ pc = "undo" /\ configMap[bench] = "unowned" => "configmap" \in undo
          /\ pc \in {"postcheck", "next", "sweep", "done"} => Free(bench)

\* The secret of a benchmark waits for its Job, and then belongs to it.
SecretsOK ==
    /\ pc \in {"configmap", "policy", "job", "confirm", "policyOwner", "configMapOwner",
              "secretOwner"} => Interfered(bench) \/ secret[bench] = "unowned"
    /\ pc = "undo" /\ ~err => Interfered(bench) \/ ~Handled(bench)
    /\ pc \in {"postcheck", "next"} /\ ~err =>
          Interfered(bench) \/ ~Handled(bench) \/ secret[bench] = "job"
    /\ \A b \in Bench : outcome[b] = "created" =>
          Interfered(b) \/ ~Handled(b) \/ secret[b] = "job"

\* Every step keeps what has no owner in sight of the loop.
LEMMA OwnersStep ==
    ASSUME Inv, RowTypes, OwnersOK, [Next]_vars
    PROVE  OwnersOK'
<1> USE RuntimeAssumption DEF Inv, TypesOK, ClusterTypes, LoopTypes, RowTypes, OwnersOK, Handled, Free, Bench, Unhandled, At, Goto, Return, Outcomes, Outcome, Applied, NoFault, Fault,
            cluster, loopVars, history
<1>1. CASE PreCreateCheck
  BY <1>1 DEF PreCreateCheck, AbortDecision, SweepAfterAbort, KeepWaiting, NewSweep
<1>2. CASE CreateSecret
  BY <1>2 DEF CreateSecret
<1>3. CASE CreateConfigMap
  BY <1>3 DEF CreateConfigMap
<1>4. CASE CreateNetworkPolicy
  BY <1>4 DEF CreateNetworkPolicy
<1>5. CASE CreateJob
  BY <1>5 DEF CreateJob
<1>6. CASE ConfirmJob
  BY <1>6 DEF ConfirmJob, ConfirmOutcome
<1>7. CASE SetNetworkPolicyOwner
  BY <1>7 DEF SetNetworkPolicyOwner
<1>8. CASE RollbackDelete
  BY <1>8 DEF RollbackDelete, Deleting
<1>9. CASE RollbackWait
  BY <1>9 DEF RollbackWait, JobDeletionOutcome
<1>10. CASE SetConfigMapOwner
  BY <1>10 DEF SetConfigMapOwner
<1>11. CASE DeleteOrphanedJob
  BY <1>11 DEF DeleteOrphanedJob, Deleting
<1>12. CASE SetSecretOwner
  <2>1. /\ pc = "secretOwner" /\ UNCHANGED <<configMap, bench, closed, uncertain>>
        /\ unhandled \subseteq unhandled'
    BY <1>12 DEF SetSecretOwner
  <2>2. CASE secret' = secret /\ secret[bench] = "none" /\ pc' = "undo" /\ undo' = {"secret"}
    BY <2>1, <2>2
  <2>3. CASE secret' = [secret EXCEPT ![bench] = "job"] /\ pc' = "postcheck" /\ undo' = {}
    BY <2>1, <2>3
  <2>4. CASE /\ secret' \in {secret, [secret EXCEPT ![bench] = "job"]}
             /\ bench \in unhandled' /\ pc' \in {"undo", "postcheck"}
    BY <2>1, <2>4
  <2> QED
    BY <1>12, <2>2, <2>3, <2>4 DEF SetSecretOwner
<1>13. CASE Cleanup
  <2>1. /\ pc = "undo" /\ UNCHANGED <<bench, closed, uncertain>> /\ undo # {}
        /\ unhandled' \in {unhandled, unhandled \cup {bench}}
        /\ pc' = IF undo' = {} THEN "postcheck" ELSE "undo"
    BY <1>13 DEF Cleanup, NotYetCreated
  <2>2. secret' \in {secret, [secret EXCEPT ![bench] = "none"]}
    BY <1>13 DEF Cleanup
  <2>3. configMap' \in {configMap, [configMap EXCEPT ![bench] = "none"]}
    BY <1>13 DEF Cleanup
  <2>4. \A b \in Bench : b # bench => secret'[b] = secret[b] /\ configMap'[b] = configMap[b]
    BY <2>2, <2>3
  <2>5. ASSUME bench \notin unhandled', bench \notin uncertain, ~closed
        PROVE  /\ secret'[bench] = "unowned" => "secret" \in undo'
               /\ configMap'[bench] = "unowned" => "configmap" \in undo'
    <3>1. /\ secret[bench] = "unowned" => "secret" \in undo
          /\ configMap[bench] = "unowned" => "configmap" \in undo
      BY <2>1, <2>5
    <3>2. CASE "secret" \in undo
      <4>1. /\ secret' = [secret EXCEPT ![bench] = "none"] /\ UNCHANGED configMap
            /\ undo' = undo \ {"secret"}
        BY <1>13, <2>5, <3>2 DEF Cleanup
      <4> QED
        BY <3>1, <4>1
    <3>3. CASE "secret" \notin undo
      <4>1. /\ configMap' = [configMap EXCEPT ![bench] = "none"] /\ UNCHANGED secret
            /\ undo' = undo \ {"configmap"}
        BY <1>13, <2>5, <3>3 DEF Cleanup
      <4> QED
        BY <3>1, <3>3, <4>1
    <3> QED
      BY <3>2, <3>3
  <2>6. \A b \in Bench : b < bench \/ b > bench => b # bench
    OBVIOUS
  <2> QED
    BY <2>1, <2>4, <2>5, <2>6
<1>14. CASE PostCreateCheck
  BY <1>14 DEF PostCreateCheck, AbortDecision, SweepAfterAbort, KeepWaiting, NewSweep
<1>15. CASE ReportFailure
  BY <1>15 DEF ReportFailure, Advance, Ends
<1>16. CASE LoopSweepEnds
  BY <1>16 DEF LoopSweepEnds
<1>17. ASSUME NEW w \in Sweepers, SweepListJobs(w) PROVE OwnersOK'
  BY <1>17 DEF SweepListJobs, SweepOver, Sweeping
<1>18. ASSUME NEW w \in Sweepers, SweepDeleteJobs(w) PROVE OwnersOK'
  BY <1>18 DEF SweepDeleteJobs, Sweeping
<1>19. ASSUME NEW w \in Sweepers, SweepDeleteSecrets(w) PROVE OwnersOK'
  <2>1. UNCHANGED <<configMap, pc, bench, undo, closed, uncertain, unhandled>>
    BY <1>19 DEF SweepDeleteSecrets
  <2>2. \A b \in Bench : secret'[b] = secret[b] \/ secret'[b] = "none"
    BY <1>19 DEF SweepDeleteSecrets
  <2> QED
    BY <2>1, <2>2
<1>20. ASSUME NEW h \in Handlers, HandleCancelEvaluation(h) PROVE OwnersOK'
  BY <1>20 DEF HandleCancelEvaluation, Signal, NewSweep
<1>21. ASSUME NEW h \in Handlers, HandleDeletePostProcessing(h) PROVE OwnersOK'
  BY <1>21 DEF HandleDeletePostProcessing, NewSweep
<1>22. ASSUME NEW h \in Handlers, HandlerSweepEnds(h) PROVE OwnersOK'
  BY <1>22 DEF HandlerSweepEnds, Sweeping
<1>23. ASSUME NEW h \in Handlers, DeletePostProcessingRow(h) PROVE OwnersOK'
  BY <1>23 DEF DeletePostProcessingRow
<1>24. ASSUME NEW b \in Bench, FinishJobDeletion(b) PROVE OwnersOK'
  BY <1>24 DEF FinishJobDeletion
<1>25. ASSUME NEW b \in Bench, CollectGarbage(b) PROVE OwnersOK'
  BY <1>25 DEF CollectGarbage
<1>26. ASSUME NEW b \in Bench, ExternalDelete(b) PROVE OwnersOK'
  BY <1>26 DEF ExternalDelete
<1>27. CASE Close
  BY <1>27 DEF Close
<1>28. CASE ProcessExit
  BY <1>28 DEF ProcessExit, IdleSweep
<1>29. CASE UNCHANGED vars
  BY <1>29 DEF vars
<1> QED
  BY <1>1, <1>2, <1>3, <1>4, <1>5, <1>6, <1>7, <1>8, <1>9, <1>10, <1>11, <1>12, <1>13,
     <1>14, <1>15, <1>16, <1>17, <1>18, <1>19, <1>20, <1>21, <1>22, <1>23, <1>24, <1>25, <1>26,
     <1>27, <1>28, <1>29
  DEF Next, LoopStep, SweepStep, HandlerStep


\* Every step keeps the secret of a benchmark, unless somebody interferes.
LEMMA SecretsStep ==
    ASSUME Inv, RowTypes, SecretsOK, [Next]_vars
    PROVE  SecretsOK'
<1> USE RuntimeAssumption DEF Inv, TypesOK, ClusterTypes, LoopTypes, RowTypes, SweepersOK, SecretsOK, Handled, Interfered, Unhandled, At, Goto, Return, Outcomes, Outcome, Applied, NoFault, Fault,
            cluster, loopVars, history
<1>1. CASE PreCreateCheck
  BY <1>1 DEF PreCreateCheck, AbortDecision, SweepAfterAbort, KeepWaiting, NewSweep
<1>2. CASE CreateSecret
  <2>1. /\ pc = "secret" /\ UNCHANGED <<bench, outcome, stored, handler, tampered, uncertain>>
        /\ unhandled \subseteq unhandled'
    BY <1>2 DEF CreateSecret
  <2>2. \A b \in Bench : outcome[b] # "none" => b < bench
    BY <2>1 DEF ConclusionsOK
  <2>3. \/ secret' = [secret EXCEPT ![bench] = "unowned"] /\ pc' = "configmap"
        \/ /\ secret' \in {secret, [secret EXCEPT ![bench] = "unowned"]}
           /\ pc' = "postcheck" /\ err' = TRUE
    BY <1>2 DEF CreateSecret
  <2>4. \A b \in Bench : b < bench => secret'[b] = secret[b]
    BY <2>3 DEF Bench
  <2> QED
    BY <2>1, <2>2, <2>3, <2>4
<1>3. CASE CreateConfigMap
  BY <1>3 DEF CreateConfigMap
<1>4. CASE CreateNetworkPolicy
  BY <1>4 DEF CreateNetworkPolicy
<1>5. CASE CreateJob
  BY <1>5 DEF CreateJob
<1>6. CASE ConfirmJob
  BY <1>6 DEF ConfirmJob, ConfirmOutcome
<1>7. CASE SetNetworkPolicyOwner
  BY <1>7 DEF SetNetworkPolicyOwner
<1>8. CASE RollbackDelete
  BY <1>8 DEF RollbackDelete, Deleting
<1>9. CASE RollbackWait
  BY <1>9 DEF RollbackWait, JobDeletionOutcome
<1>10. CASE SetConfigMapOwner
  BY <1>10 DEF SetConfigMapOwner
<1>11. CASE DeleteOrphanedJob
  <2>1. /\ pc = "orphanDelete" /\ pc' \in {"undo", "postcheck"}
        /\ UNCHANGED <<secret, bench, outcome, stored, handler, tampered, unhandled>>
        /\ uncertain \subseteq uncertain'
    BY <1>11 DEF DeleteOrphanedJob
  <2>2. Interfered(bench)
    BY <2>1 DEF ConclusionsOK
  <2> QED
    BY <2>1, <2>2
<1>12. CASE SetSecretOwner
  BY <1>12 DEF SetSecretOwner
<1>13. CASE Cleanup
  <2>1. /\ pc = "undo" /\ pc' \in {"undo", "postcheck"}
        /\ UNCHANGED <<err, bench, outcome, stored, handler, tampered, uncertain>>
        /\ unhandled \subseteq unhandled'
    BY <1>13 DEF Cleanup
  <2>2. \A b \in Bench : outcome[b] # "none" => b < bench
    BY <2>1 DEF ConclusionsOK
  <2>3. secret' \in {secret, [secret EXCEPT ![bench] = "none"]}
    BY <1>13 DEF Cleanup
  <2>4. \A b \in Bench : b < bench => secret'[b] = secret[b]
    BY <2>3 DEF Bench
  <2> QED
    BY <2>1, <2>2, <2>4
<1>14. CASE PostCreateCheck
  BY <1>14 DEF PostCreateCheck, AbortDecision, SweepAfterAbort, KeepWaiting, NewSweep
<1>15. CASE ReportFailure
  BY <1>15 DEF ReportFailure, Advance, Ends
<1>16. CASE LoopSweepEnds
  BY <1>16 DEF LoopSweepEnds
<1>17. ASSUME NEW w \in Sweepers, SweepListJobs(w) PROVE SecretsOK'
  BY <1>17 DEF SweepListJobs, SweepOver, Sweeping
<1>18. ASSUME NEW w \in Sweepers, SweepDeleteJobs(w) PROVE SecretsOK'
  BY <1>18 DEF SweepDeleteJobs, Sweeping
<1>19. ASSUME NEW w \in Sweepers, SweepDeleteSecrets(w) PROVE SecretsOK'
  <2>1. UNCHANGED <<pc, err, bench, outcome, stored, handler, tampered, uncertain, unhandled>>
    BY <1>19 DEF SweepDeleteSecrets
  <2>2. stored # "active" \/ \E h \in Handlers : handler[h] # "idle"
    BY <1>19 DEF SweepDeleteSecrets, Sweepers
  <2> QED
    BY <2>1, <2>2
<1>20. ASSUME NEW h \in Handlers, HandleCancelEvaluation(h) PROVE SecretsOK'
  BY <1>20 DEF HandleCancelEvaluation, Signal, NewSweep
<1>21. ASSUME NEW h \in Handlers, HandleDeletePostProcessing(h) PROVE SecretsOK'
  BY <1>21 DEF HandleDeletePostProcessing, NewSweep
<1>22. ASSUME NEW h \in Handlers, HandlerSweepEnds(h) PROVE SecretsOK'
  BY <1>22 DEF HandlerSweepEnds, Sweeping
<1>23. ASSUME NEW h \in Handlers, DeletePostProcessingRow(h) PROVE SecretsOK'
  BY <1>23 DEF DeletePostProcessingRow
<1>24. ASSUME NEW b \in Bench, FinishJobDeletion(b) PROVE SecretsOK'
  BY <1>24 DEF FinishJobDeletion
<1>25. ASSUME NEW b \in Bench, CollectGarbage(b) PROVE SecretsOK'
  <2>1. UNCHANGED <<pc, err, bench, outcome, stored, handler, tampered, uncertain, unhandled>>
    BY <1>25 DEF CollectGarbage
  <2>2. \/ secret' = secret
        \/ secret' = [secret EXCEPT ![b] = "none"] /\ secret[b] = "job" /\ job[b] # "live"
    BY <1>25 DEF CollectGarbage
  <2>3. /\ outcome[b] = "created" => Interfered(b) \/ job[b] = "live"
        /\ pc \in {"postcheck", "next"} /\ ~err => Interfered(bench) \/ job[bench] = "live"
    BY DEF ConclusionsOK, Runs
  <2> QED
    BY <2>1, <2>2, <2>3
<1>26. ASSUME NEW b \in Bench, ExternalDelete(b) PROVE SecretsOK'
  BY <1>26 DEF ExternalDelete
<1>27. CASE Close
  BY <1>27 DEF Close
<1>28. CASE ProcessExit
  BY <1>28 DEF ProcessExit, IdleSweep
<1>29. CASE UNCHANGED vars
  BY <1>29 DEF vars
<1> QED
  BY <1>1, <1>2, <1>3, <1>4, <1>5, <1>6, <1>7, <1>8, <1>9, <1>10, <1>11, <1>12, <1>13,
     <1>14, <1>15, <1>16, <1>17, <1>18, <1>19, <1>20, <1>21, <1>22, <1>23, <1>24, <1>25, <1>26,
     <1>27, <1>28, <1>29
  DEF Next, LoopStep, SweepStep, HandlerStep


\* For every number of benchmarks and of failed calls: what the loop has handled
\* leaves no ConfigMap and no secret without an owner, and a created benchmark has
\* its secret (createBenchmarkResources with its rollbacks).
THEOREM K8sNothingUnowned == Spec => []NothingUnowned
<1> DEFINE I == RowTypes /\ OwnersOK /\ SecretsOK
<1>1. Init => I
  <2>1. Init => RowTypes
    BY DEF Init, RowTypes, Labels
  <2>2. Init => OwnersOK /\ SecretsOK
    <3>1. 0 \in Bench
      BY RuntimeAssumption DEF Bench
    <3>2. QED
      BY <3>1 DEF Init, OwnersOK, SecretsOK, Free
  <2>3. QED
    BY <2>1, <2>2
<1>2. Inv /\ I /\ [Next]_vars => I'
  BY RowTypeStep, OwnersStep, SecretsStep DEF Inv
<1>3. Inv /\ I => NothingUnowned
  <2> SUFFICES ASSUME Inv, I, ~closed, NEW b \in Bench \ (uncertain \cup unhandled)
               PROVE  /\ DoneWith(b) => secret[b] # "unowned" /\ configMap[b] # "unowned"
                      /\ outcome[b] = "created" /\ ~Interfered(b) => secret[b] = "job"
    BY DEF NothingUnowned
  <2>1. Handled(b)
    BY DEF Handled
  <2>2. outcome[b] # "none" => b < bench \/ pc = "done"
    BY DEF Inv, ConclusionsOK
  <2>3. b < bench \/ b = bench \/ b > bench
    BY RuntimeAssumption DEF Inv, TypesOK, LoopTypes, Bench
  <2>4. DoneWith(b) => Free(b)
    BY <2>1, <2>2, <2>3, RuntimeAssumption DEF OwnersOK, DoneWith, Free, Bench, Inv, TypesOK, LoopTypes
  <2>5. QED
    BY <2>1, <2>4 DEF Free, SecretsOK
<1>4. QED
  BY <1>1, <1>2, <1>3, K8sInvariant, PTL DEF Spec
=============================================================================
