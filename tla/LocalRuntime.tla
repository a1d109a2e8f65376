----------------------------- MODULE LocalRuntime -----------------------------
(***************************************************************************)
(* The local runtime (internal/eval_hub/runtimes/local) for one evaluation *)
(* job: a goroutine per benchmark that starts a process and waits for it,  *)
(* the tracker of process ids, the requests that cancel or delete the job, *)
(* and the operating system, which reuses the ids of reaped processes.     *)
(*                                                                         *)
(* As in JobRows, some definitions are mutants of the one they precede:    *)
(* TrackAlways of AddPID, NoCleanUp of CleanUp, NoKill of KillAll,         *)
(* StillActive of Signalled.                                               *)
(***************************************************************************)
EXTENDS Naturals, FiniteSets

CONSTANTS
    Bench,      \* the benchmarks of the job
    Pids,       \* process ids of the machine
    NoPid,
    Requests    \* the cancel and delete requests that may arrive, by endpoint

ASSUME LocalAssumption ==
    /\ NoPid \notin Pids
    /\ "sidecar" \notin Bench
    /\ Requests \subseteq {"cancel", "hard_delete", "delete_post_processing"}

VARIABLES
    workload,     \* "evaluation" or "post_processing"; each has its own delete endpoint
    row,          \* the stored job: "active", "finished", "cancelled" or "deleted"
    launched,     \* RunEvaluationJob has been called
    pc,           \* benchmark -> next step of its goroutine
    proc,         \* benchmark -> "none", "running", "exited" (a zombie), "reaped"
    pid,          \* benchmark -> id of its process
    pids,         \* tracker: ids registered for the job
    cancelled,    \* tracker: cancelJob has been called
    dirs,         \* what exists under the job's directory
    request,      \* request -> "idle", "kill", "remove", "done" or "failed"
    outcome,      \* benchmark -> "none", "failed" (stored) or "unreported"
    strangers,    \* ids in use by processes that are not of this job
    hit,          \* history: a process of somebody else was killed
    broken        \* history: benchmarks whose launch failed after cancelJob

tracker   == <<pids, cancelled>>
processes == <<proc, pid, strangers, hit>>
vars == <<workload, row, launched, pc, processes, tracker, dirs, request, outcome, broken>>

\* Ids the operating system may give to a new process.
FreePids == Pids \ (strangers \cup {pid[b] : b \in {c \in Bench : proc[c] \in {"running", "exited"}}})

\* killProcessGroup for every id in p: whoever has the id now dies.
Kill(p) ==
    /\ proc' = [b \in Bench |-> IF proc[b] = "running" /\ pid[b] \in p
                                THEN "exited" ELSE proc[b]]
    /\ strangers' = strangers \ p
    /\ hit' = (hit \/ strangers \cap p # {})
    /\ UNCHANGED pid

-----------------------------------------------------------------------------
(* RunEvaluationJob and the goroutines of runBenchmark                     *)

\* registerJob; the flag of an earlier cancelJob stays.
Registered == pids' = {} /\ UNCHANGED cancelled

\* In sidecar mode the job information is written first; a bad secret
\* reference or a failed write starts nothing.
RunEvaluationJob ==
    /\ ~launched /\ launched' = TRUE
    /\ Registered
    /\ dirs' \in {dirs, dirs \cup {"sidecar"}}
    /\ \E step \in {"provider", "done"} : pc' = [b \in Bench |-> step]
    /\ UNCHANGED <<workload, row, processes, request, outcome, broken>>

Step(b, from, to) == pc[b] = from /\ pc' = [pc EXCEPT ![b] = to] /\ UNCHANGED <<workload, row, launched, request>>

\* An error of runBenchmark; its caller reports the benchmark as failed.
LaunchFails(b, from) ==
    /\ Step(b, from, "fail")
    /\ broken' = IF cancelled THEN broken \cup {b} ELSE broken
    /\ UNCHANGED <<processes, tracker, dirs, outcome>>

LookUpProvider(b) ==
    \/ LaunchFails(b, "provider")
    \/ /\ Step(b, "provider", IF cancelled THEN "done" ELSE "directory")
       /\ UNCHANGED <<processes, tracker, dirs, outcome, broken>>

MakeDirectory(b) ==
    \/ LaunchFails(b, "directory")
    \/ /\ Step(b, "directory", "files")
       /\ dirs' = dirs \cup {b}
       /\ UNCHANGED <<processes, tracker, outcome, broken>>

\* job.json and the log file, which need the directory.
WriteFiles(b) ==
    \/ LaunchFails(b, "files")
    \/ /\ Step(b, "files", "start") /\ b \in dirs
       /\ UNCHANGED <<processes, tracker, dirs, outcome, broken>>

StartProcess(b) ==
    \/ LaunchFails(b, "start")
    \/ \E p \in FreePids :
          /\ Step(b, "start", "track")
          /\ proc' = [proc EXCEPT ![b] = "running"] /\ pid' = [pid EXCEPT ![b] = p]
          /\ UNCHANGED <<tracker, dirs, outcome, strangers, hit, broken>>

\* addPID: a process of a job that is already cancelled is killed.
TrackAlways(p) == pids' = pids \cup {p} /\ UNCHANGED processes
AddPID(p) ==
    IF cancelled THEN Kill({p}) /\ UNCHANGED pids
    ELSE pids' = pids \cup {p} /\ UNCHANGED processes

TrackProcess(b) ==
    /\ Step(b, "track", "wait")
    /\ AddPID(pid[b])
    /\ UNCHANGED <<cancelled, dirs, outcome, broken>>

\* cmd.Wait: the process is reaped and its id is free again.
Wait(b) ==
    /\ Step(b, "wait", "cleanup")
    /\ proc[b] = "exited" /\ proc' = [proc EXCEPT ![b] = "reaped"]
    /\ UNCHANGED <<pid, strangers, hit, tracker, dirs, outcome, broken>>

\* os.RemoveAll of the job's directory if the job was cancelled meanwhile.
NoCleanUp == dirs
CleanUp   == IF cancelled THEN {} ELSE dirs

LeaveBenchmark(b) ==
    /\ Step(b, "cleanup", "done")
    /\ dirs' = CleanUp
    /\ UNCHANGED <<processes, tracker, outcome, broken>>

\* failBenchmark: the store refuses the event of a job that is not active, and
\* an error of the store is only logged.
FailBenchmark(b) ==
    /\ Step(b, "fail", "done")
    /\ \/ row = "active" /\ outcome' = [outcome EXCEPT ![b] = "failed"]
       \/ outcome' = [outcome EXCEPT ![b] = "unreported"]
    /\ UNCHANGED <<processes, tracker, dirs, broken>>

-----------------------------------------------------------------------------
(* Requests: HandleCancelEvaluation and HandleDeletePostProcessing, both   *)
(* with DeleteEvaluationJobResources                                       *)

\* The store ends the job: by its benchmarks' events, or by the handler whose
\* RunEvaluationJob returned an error.
JobEnds ==
    /\ row = "active" /\ row' = "finished"
    /\ UNCHANGED <<workload, launched, pc, processes, tracker, dirs, request, outcome, broken>>

StillActive(r) == row
Signalled(r)   == IF r = "hard_delete" THEN "deleted" ELSE "cancelled"

\* The row first; a soft cancel of a job that is finished or cancelled cleans
\* nothing up.
HandleCancelEvaluation(r) ==
    /\ workload = "evaluation" /\ r # "delete_post_processing" /\ request[r] = "idle"
    /\ row = "active" \/ (row \in {"finished", "cancelled"} /\ r = "hard_delete")
    /\ row' = Signalled(r)
    /\ request' = [request EXCEPT ![r] = "kill"]
    /\ UNCHANGED <<workload, launched, pc, processes, tracker, dirs, outcome, broken>>

\* The resources first, whatever the row says short of "cancelled", which no
\* post-processing job becomes.
HandleDeletePostProcessing(r) ==
    /\ workload = "post_processing" /\ r = "delete_post_processing" /\ request[r] = "idle"
    /\ row # "deleted"
    /\ request' = [request EXCEPT ![r] = "kill"]
    /\ UNCHANGED <<workload, row, launched, pc, processes, tracker, dirs, outcome, broken>>

\* And then the row, whether or not the directory could be removed.
DeletePostProcessingRow(r) ==
    /\ r = "delete_post_processing" /\ request[r] \in {"done", "failed"}
    /\ row # "deleted" /\ row' = "deleted"
    /\ UNCHANGED <<workload, launched, pc, processes, tracker, dirs, request, outcome, broken>>

\* cancelJob: kill what is tracked, forget it, and remember the cancellation.
NoKill  == UNCHANGED processes
KillAll == Kill(pids)
CancelJob(r) ==
    /\ request[r] = "kill"
    /\ KillAll
    /\ pids' = {} /\ cancelled' = TRUE
    /\ request' = [request EXCEPT ![r] = "remove"]
    /\ UNCHANGED <<workload, row, launched, pc, dirs, outcome, broken>>

RemoveDirectory(r) ==
    /\ request[r] = "remove"
    /\ \/ dirs' = {} /\ request' = [request EXCEPT ![r] = "done"]
       \/ UNCHANGED dirs /\ request' = [request EXCEPT ![r] = "failed"]
    /\ UNCHANGED <<workload, row, launched, pc, processes, tracker, outcome, broken>>

-----------------------------------------------------------------------------
(* The operating system                                                    *)

\* A benchmark's process ends by itself, whatever it has reported.
Exit(b) ==
    /\ proc[b] = "running" /\ proc' = [proc EXCEPT ![b] = "exited"]
    /\ UNCHANGED <<workload, row, launched, pc, pid, strangers, hit, tracker, dirs, request,
                   outcome, broken>>

\* Another process gets a free id.
OtherProcess ==
    /\ \E p \in FreePids : strangers' = strangers \cup {p}
    /\ UNCHANGED <<workload, row, launched, pc, proc, pid, hit, tracker, dirs, request, outcome, broken>>

-----------------------------------------------------------------------------
Init ==
    /\ workload \in {"evaluation", "post_processing"}
    /\ row = "active" /\ launched = FALSE
    /\ pc = [b \in Bench |-> "idle"]
    /\ proc = [b \in Bench |-> "none"] /\ pid = [b \in Bench |-> NoPid]
    /\ pids = {} /\ cancelled = FALSE /\ dirs = {}
    /\ request = [r \in Requests |-> "idle"]
    /\ outcome = [b \in Bench |-> "none"]
    /\ strangers = {} /\ hit = FALSE /\ broken = {}

Goroutine(b) ==
    \/ LookUpProvider(b) \/ MakeDirectory(b) \/ WriteFiles(b) \/ StartProcess(b)
    \/ TrackProcess(b) \/ Wait(b) \/ LeaveBenchmark(b) \/ FailBenchmark(b)
Serve(r)   == CancelJob(r) \/ RemoveDirectory(r)
Request(r) ==
    HandleCancelEvaluation(r) \/ HandleDeletePostProcessing(r) \/ Serve(r) \/ DeletePostProcessingRow(r)

Next ==
    \/ RunEvaluationJob \/ JobEnds \/ OtherProcess
    \/ \E b \in Bench : Goroutine(b) \/ Exit(b)
    \/ \E r \in Requests : Request(r)

\* Goroutines and accepted requests run; a process need not end by itself, and
\* the store may refuse the last step of a delete.
Fairness ==
    /\ \A b \in Bench : WF_vars(Goroutine(b))
    /\ \A r \in Requests : WF_vars(Serve(r))

SafetySpec == Init /\ [][Next]_vars
Spec       == SafetySpec /\ Fairness

-----------------------------------------------------------------------------
(* Properties                                                              *)

GoroutineSteps == {"idle", "provider", "directory", "files", "start", "track", "wait",
                   "cleanup", "fail", "done"}

TypeOK ==
    /\ workload \in {"evaluation", "post_processing"}
    /\ row \in {"active", "finished", "cancelled", "deleted"} /\ launched \in BOOLEAN
    /\ pc \in [Bench -> GoroutineSteps]
    /\ proc \in [Bench -> {"none", "running", "exited", "reaped"}]
    /\ pid \in [Bench -> Pids \cup {NoPid}]
    /\ pids \subseteq Pids /\ cancelled \in BOOLEAN
    /\ dirs \subseteq Bench \cup {"sidecar"}
    /\ request \in [Requests -> {"idle", "kill", "remove", "done", "failed"}]
    /\ outcome \in [Bench -> {"none", "failed", "unreported"}]
    /\ strangers \subseteq Pids /\ hit \in BOOLEAN /\ broken \subseteq Bench

\* Some request has got past cancelJob.
JobCancelled == \E r \in Requests : request[r] \in {"remove", "done", "failed"}

\* Cancellation reaches every process: once cancelJob has run, a process of the
\* job that is alive has just been started and is about to be killed by its
\* own goroutine (addPID), in whatever order the tracker's calls came, the
\* registration of the job included.
CancelReachesAll ==
    JobCancelled => \A b \in Bench : proc[b] = "running" => pc[b] = "track"

\* No launch failure that the cancellation or deletion of an evaluation caused (the
\* directory removed under the goroutine) is stored as a failed benchmark.  It can be
\* when a post-processing job is deleted, whose row the handler deletes last: the
\* row then shows "failed" until it goes, or for good if the store refuses.
CancelIsNoFailure ==
    \A b \in broken : outcome[b] = "failed" => workload = "post_processing"

\* The same of every job: false.
DeleteIsNoFailure ==
    \A b \in broken : outcome[b] # "failed"

\* A cancelled job leaves no directory behind once its goroutines are done, even
\* if they created it again; except for a launch that failed in between, and the
\* sidecar's job information written after the cancellation.
NoOrphanDirectory ==
    (\E r \in Requests : request[r] = "done") /\ (\A b \in Bench : pc[b] \in {"idle", "done"})
        => dirs \subseteq broken \cup {"sidecar"}

\* A cancelled job ends: its goroutines return, although nothing makes a
\* benchmark's process end by itself.
CancelledJobEnds ==
    (JobCancelled /\ launched) ~> (\A b \in Bench : pc[b] = "done")

\* The tracker is for "running subprocess PIDs": cancelJob kills processes of
\* the job only.  It never forgets the id of a process that was reaped.
OnlyOwnProcessesKilled == ~hit
=============================================================================
