-------------------------- MODULE LocalRuntimeProofs --------------------------
(***************************************************************************)
(* Cancellation of the local runtime, for any number of benchmarks, of     *)
(* requests and of process ids: it reaches every process, it is no failure *)
(* of a benchmark, and it leaves no directory behind.                      *)
(***************************************************************************)
EXTENDS LocalRuntime, TLAPS

\* The flag of the tracker is set by the first cancelJob and stays.
FlagFollowsRequests == JobCancelled => cancelled

\* Nothing runs before the launch, and a process runs between the start and the
\* wait of its goroutine only.
ProcessesOK ==
    \A b \in Bench :
        /\ ~launched => pc[b] = "idle" /\ proc[b] # "running"
        /\ proc[b] = "running" => pc[b] \in {"track", "wait"}

\* A running process is known to the tracker, unless it is about to be.
Tracked ==
    \A b \in Bench :
        proc[b] = "running" /\ pc[b] # "track" => ~cancelled /\ pid[b] \in pids

\* The part of TypeOK the argument needs.
ShapesOK ==
    /\ DOMAIN pc = Bench /\ DOMAIN proc = Bench /\ DOMAIN pid = Bench
    /\ DOMAIN request = Requests
    /\ pc = [b \in Bench |-> pc[b]] /\ proc = [b \in Bench |-> proc[b]]
    /\ pid = [b \in Bench |-> pid[b]]
    /\ request = [r \in Requests |-> request[r]]

CancelInv == ShapesOK /\ FlagFollowsRequests /\ ProcessesOK /\ Tracked

-----------------------------------------------------------------------------
\* Initially nothing is launched and nothing is cancelled.
LEMMA CancelInit == Init => CancelInv
  BY DEF Init, CancelInv, ShapesOK, FlagFollowsRequests, JobCancelled, ProcessesOK, Tracked

\* A step of one goroutine keeps the invariant.
LEMMA GoroutineKeeps ==
    ASSUME CancelInv, NEW b \in Bench, Goroutine(b)
    PROVE  CancelInv'
<1> USE DEF CancelInv, ShapesOK, FlagFollowsRequests, JobCancelled, ProcessesOK, Tracked,
            Step, processes, tracker
<1>1. ASSUME NEW l \in {"provider", "directory", "files", "start"}, LaunchFails(b, l)
      PROVE  CancelInv'
  BY <1>1 DEF LaunchFails
<1>2. CASE LookUpProvider(b)
  BY <1>1, <1>2 DEF LookUpProvider
<1>3. CASE MakeDirectory(b)
  BY <1>1, <1>3 DEF MakeDirectory
<1>4. CASE WriteFiles(b)
  BY <1>1, <1>4 DEF WriteFiles
<1>5. CASE StartProcess(b)
  BY <1>1, <1>5 DEF StartProcess
<1>6. CASE TrackProcess(b)
  <2>1. CASE cancelled
    BY <1>6, <2>1 DEF TrackProcess, AddPID, Kill
  <2>2. CASE ~cancelled
    BY <1>6, <2>2 DEF TrackProcess, AddPID
  <2> QED
    BY <2>1, <2>2
<1>7. CASE Wait(b)
  BY <1>7 DEF Wait
<1>8. CASE LeaveBenchmark(b)
  BY <1>8 DEF LeaveBenchmark
<1>9. CASE FailBenchmark(b)
  BY <1>9 DEF FailBenchmark
<1> QED
  BY <1>2, <1>3, <1>4, <1>5, <1>6, <1>7, <1>8, <1>9 DEF Goroutine

\* A step of a request keeps the invariant: cancelJob kills all it forgets.
LEMMA RequestKeeps ==
    ASSUME CancelInv, NEW r \in Requests, Request(r)
    PROVE  CancelInv'
<1> USE DEF CancelInv, ShapesOK, FlagFollowsRequests, JobCancelled, ProcessesOK, Tracked,
            processes, tracker
<1>1. CASE HandleCancelEvaluation(r)
  BY <1>1 DEF HandleCancelEvaluation
<1>2. CASE CancelJob(r)
  BY <1>2 DEF CancelJob, KillAll, Kill
<1>3. CASE RemoveDirectory(r)
  BY <1>3 DEF RemoveDirectory
<1>4. CASE HandleDeletePostProcessing(r)
  BY <1>4 DEF HandleDeletePostProcessing
<1>5. CASE DeletePostProcessingRow(r)
  BY <1>5 DEF DeletePostProcessingRow
<1> QED
  BY <1>1, <1>2, <1>3, <1>4, <1>5 DEF Request, Serve

\* Every step keeps the invariant.
LEMMA CancelStep == CancelInv /\ [Next]_vars => CancelInv'
<1> SUFFICES ASSUME CancelInv, [Next]_vars PROVE CancelInv'
  OBVIOUS
<1> USE DEF ShapesOK, FlagFollowsRequests, JobCancelled, ProcessesOK, Tracked,
            processes, tracker
<1>1. CASE RunEvaluationJob
  BY <1>1 DEF CancelInv, RunEvaluationJob, Registered
<1>2. CASE OtherProcess
  BY <1>2 DEF CancelInv, OtherProcess
<1>5. CASE JobEnds
  BY <1>5 DEF CancelInv, JobEnds
<1>3. ASSUME NEW b \in Bench, Exit(b)
      PROVE  CancelInv'
  BY <1>3 DEF CancelInv, Exit
<1>4. CASE UNCHANGED vars
  BY <1>4 DEF CancelInv, vars
<1> QED
  BY <1>1, <1>2, <1>3, <1>4, <1>5, GoroutineKeeps, RequestKeeps DEF Next

\* However cancelJob, addPID and registerJob interleave, for any number of
\* benchmarks: no process survives a cancellation that its own goroutine is not
\* about to kill.
THEOREM LocalCancelReachesAll == SafetySpec => []CancelReachesAll
<1>1. CancelInv => CancelReachesAll
  BY DEF CancelInv, FlagFollowsRequests, Tracked, CancelReachesAll
<1> QED
  BY <1>1, CancelInit, CancelStep, PTL DEF SafetySpec
-----------------------------------------------------------------------------
(* What a cancellation is not: a failed benchmark                          *)

\* The row of an evaluation is signalled before the tracker: whoever finds the
\* tracker cancelled finds the store closed for events.
RowSignalled ==
  workload = "evaluation" =>
    /\ \A r \in Requests : request[r] # "idle" => row # "active"
    /\ cancelled => row # "active"

\* A goroutine reports once, as its last step; an evaluation's launch that a
\* cancellation broke has not reported, or its report was refused.
ReportsOK ==
    /\ DOMAIN outcome = Bench /\ outcome = [b \in Bench |-> outcome[b]]
    /\ broken \subseteq Bench
    /\ \A b \in Bench : outcome[b] # "none" => pc[b] = "done"
    /\ \A b \in broken :
          /\ cancelled /\ pc[b] \in {"fail", "done"}
          /\ outcome[b] = "failed" => workload = "post_processing"
    /\ workload \in {"evaluation", "post_processing"}

FailureInv == CancelInv /\ RowSignalled /\ ReportsOK

\* A step of one goroutine keeps it: the only one that could store a failure finds
\* the row active, and so the tracker not cancelled.
LEMMA GoroutineKeepsReports ==
    ASSUME FailureInv, NEW b \in Bench, Goroutine(b)
    PROVE  RowSignalled' /\ ReportsOK'
<1> USE DEF FailureInv, CancelInv, ShapesOK, RowSignalled, ReportsOK, Step, processes, tracker
<1>1. ASSUME NEW l \in {"provider", "directory", "files", "start"}, LaunchFails(b, l)
      PROVE  RowSignalled' /\ ReportsOK'
  BY <1>1 DEF LaunchFails
<1>2. CASE LookUpProvider(b)
  BY <1>1, <1>2 DEF LookUpProvider
<1>3. CASE MakeDirectory(b)
  BY <1>1, <1>3 DEF MakeDirectory
<1>4. CASE WriteFiles(b)
  BY <1>1, <1>4 DEF WriteFiles
<1>5. CASE StartProcess(b)
  BY <1>1, <1>5 DEF StartProcess
<1>6. CASE TrackProcess(b)
  BY <1>6 DEF TrackProcess
<1>7. CASE Wait(b)
  BY <1>7 DEF Wait
<1>8. CASE LeaveBenchmark(b)
  BY <1>8 DEF LeaveBenchmark
<1>9. CASE FailBenchmark(b)
  BY <1>9 DEF FailBenchmark
<1> QED
  BY <1>2, <1>3, <1>4, <1>5, <1>6, <1>7, <1>8, <1>9 DEF Goroutine

\* Every step keeps it.
LEMMA FailureStep == FailureInv /\ [Next]_vars => FailureInv'
<1> SUFFICES ASSUME FailureInv, [Next]_vars PROVE RowSignalled' /\ ReportsOK'
  BY CancelStep DEF FailureInv
<1> USE DEF FailureInv, CancelInv, ShapesOK, ProcessesOK, RowSignalled, ReportsOK, processes,
            tracker
<1>1. CASE RunEvaluationJob
  BY <1>1 DEF RunEvaluationJob, Registered
<1>2. CASE OtherProcess
  BY <1>2 DEF OtherProcess
<1>3. CASE JobEnds
  BY <1>3 DEF JobEnds
<1>4. ASSUME NEW b \in Bench, Exit(b)
      PROVE  RowSignalled' /\ ReportsOK'
  BY <1>4 DEF Exit
<1>5. ASSUME NEW r \in Requests, HandleCancelEvaluation(r)
      PROVE  RowSignalled' /\ ReportsOK'
  BY <1>5 DEF HandleCancelEvaluation, Signalled
<1>6. ASSUME NEW r \in Requests, CancelJob(r)
      PROVE  RowSignalled' /\ ReportsOK'
  BY <1>6 DEF CancelJob
<1>7. ASSUME NEW r \in Requests, RemoveDirectory(r)
      PROVE  RowSignalled' /\ ReportsOK'
  BY <1>7 DEF RemoveDirectory
<1>8. CASE UNCHANGED vars
  BY <1>8 DEF vars
<1>9. ASSUME NEW r \in Requests, HandleDeletePostProcessing(r)
      PROVE  RowSignalled' /\ ReportsOK'
  BY <1>9 DEF HandleDeletePostProcessing
<1>10. ASSUME NEW r \in Requests, DeletePostProcessingRow(r)
       PROVE  RowSignalled' /\ ReportsOK'
  BY <1>10 DEF DeletePostProcessingRow
<1> QED
  BY <1>1, <1>2, <1>3, <1>4, <1>5, <1>6, <1>7, <1>8, <1>9, <1>10,
     GoroutineKeepsReports DEF Next, Request, Serve

\* Initially nobody has reported anything.
LEMMA FailureInit == Init => FailureInv
  BY CancelInit DEF Init, FailureInv, RowSignalled, ReportsOK

\* An evaluation's launch that fails because its cancellation or deletion removed the
\* directory, or after it for any other reason, is never stored as a failed
\* benchmark, for any number of benchmarks and whichever request cancels.
THEOREM LocalCancelIsNoFailure == SafetySpec => []CancelIsNoFailure
<1>1. FailureInv => CancelIsNoFailure
  BY DEF FailureInv, ReportsOK, CancelIsNoFailure
<1> QED
  BY <1>1, FailureInit, FailureStep, PTL DEF SafetySpec

-----------------------------------------------------------------------------
(* What a cancellation leaves                                              *)

\* After a request has removed the directory, whatever is in it again is of a
\* goroutine that will come to its clean-up, or of a launch that failed since.
DirectoriesOK ==
    /\ dirs \subseteq Bench \cup {"sidecar"}
    /\ (\E r \in Requests : request[r] = "done") =>
          \A b \in Bench : b \in dirs =>
              b \in broken \/ pc[b] \in {"files", "start", "track", "wait", "cleanup"}

DirectoryInv == FailureInv /\ DirectoriesOK

\* A step of one goroutine keeps it: it has seen the flag when it leaves.
LEMMA GoroutineKeepsDirectories ==
    ASSUME DirectoryInv, NEW b \in Bench, Goroutine(b)
    PROVE  DirectoriesOK'
<1> USE DEF DirectoryInv, FailureInv, CancelInv, ShapesOK, FlagFollowsRequests, JobCancelled,
            ReportsOK, DirectoriesOK, Step, processes, tracker
<1>1. ASSUME NEW l \in {"provider", "directory", "files", "start"}, LaunchFails(b, l)
      PROVE  DirectoriesOK'
  BY <1>1 DEF LaunchFails
<1>2. CASE LookUpProvider(b)
  BY <1>1, <1>2 DEF LookUpProvider
<1>3. CASE MakeDirectory(b)
  BY <1>1, <1>3 DEF MakeDirectory
<1>4. CASE WriteFiles(b)
  BY <1>1, <1>4 DEF WriteFiles
<1>5. CASE StartProcess(b)
  BY <1>1, <1>5 DEF StartProcess
<1>6. CASE TrackProcess(b)
  BY <1>6 DEF TrackProcess
<1>7. CASE Wait(b)
  BY <1>7 DEF Wait
<1>8. CASE LeaveBenchmark(b)
  BY <1>8 DEF LeaveBenchmark, CleanUp
<1>9. CASE FailBenchmark(b)
  BY <1>9 DEF FailBenchmark
<1> QED
  BY <1>2, <1>3, <1>4, <1>5, <1>6, <1>7, <1>8, <1>9 DEF Goroutine

\* Every step keeps it; a launch that comes after the removal finds the directory
\* empty, since nothing runs before it.
LEMMA DirectoryStep == DirectoryInv /\ [Next]_vars => DirectoryInv'
<1> SUFFICES ASSUME DirectoryInv, [Next]_vars PROVE DirectoriesOK'
  BY FailureStep DEF DirectoryInv
<1> USE DEF DirectoryInv, FailureInv, CancelInv, ShapesOK, ProcessesOK, ReportsOK, DirectoriesOK,
            processes, tracker
<1>1. CASE RunEvaluationJob
  BY <1>1, LocalAssumption DEF RunEvaluationJob, Registered
<1>2. CASE OtherProcess
  BY <1>2 DEF OtherProcess
<1>3. CASE JobEnds
  BY <1>3 DEF JobEnds
<1>4. ASSUME NEW b \in Bench, Exit(b)
      PROVE  DirectoriesOK'
  BY <1>4 DEF Exit
<1>5. ASSUME NEW r \in Requests, HandleCancelEvaluation(r)
      PROVE  DirectoriesOK'
  BY <1>5 DEF HandleCancelEvaluation
<1>6. ASSUME NEW r \in Requests, CancelJob(r)
      PROVE  DirectoriesOK'
  BY <1>6 DEF CancelJob
<1>7. ASSUME NEW r \in Requests, RemoveDirectory(r)
      PROVE  DirectoriesOK'
  BY <1>7 DEF RemoveDirectory
<1>8. CASE UNCHANGED vars
  BY <1>8 DEF vars
<1>9. ASSUME NEW r \in Requests, HandleDeletePostProcessing(r)
      PROVE  DirectoriesOK'
  BY <1>9 DEF HandleDeletePostProcessing
<1>10. ASSUME NEW r \in Requests, DeletePostProcessingRow(r)
       PROVE  DirectoriesOK'
  BY <1>10 DEF DeletePostProcessingRow
<1> QED
  BY <1>1, <1>2, <1>3, <1>4, <1>5, <1>6, <1>7, <1>8, <1>9, <1>10,
     GoroutineKeepsDirectories DEF Next, Request, Serve

\* A cancelled job leaves no directory behind once its goroutines are done,
\* although they may create it again after the request removed it; for any
\* number of benchmarks and requests.
THEOREM LocalNoOrphanDirectory == SafetySpec => []NoOrphanDirectory
<1>1. Init => DirectoryInv
  BY FailureInit DEF Init, DirectoryInv, DirectoriesOK
<1>2. DirectoryInv => NoOrphanDirectory
  BY DEF DirectoryInv, DirectoriesOK, NoOrphanDirectory
<1> QED
  BY <1>1, <1>2, DirectoryStep, PTL DEF SafetySpec
=============================================================================
