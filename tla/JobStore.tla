------------------------------- MODULE JobStore -------------------------------
(***************************************************************************)
(* What the SQL store promises its callers: every storage method is one    *)
(* atomic step on the evaluations and collections tables.  LockedJobStore  *)
(* shows how row locks implement it.                                       *)
(***************************************************************************)
EXTENDS JobRows

VARIABLES
    jobs,          \* evaluations table: job id -> row
    collections    \* collections table: id -> [exists, list, runCount]

storeVars == <<jobs, collections>>

CollectionRows == [exists : BOOLEAN, list : BenchmarkLists \cup {{}}, runCount : Nat]

\* GetJobBenchmarks: the collection's list for a collection job, otherwise
\* the job's own.  {} stands for its errors (unknown or empty collection).
JobBenchmarks(c) ==
    IF IsDirect(c) THEN c.benchmarks
    ELSE IF collections[c.collection].exists THEN collections[c.collection].list
    ELSE {}

\* The lists an event may have been validated against (see ApplyEvent): a
\* direct job has one, a collection job any its collection held before.
ListsRead(c) == IF IsDirect(c) THEN {c.benchmarks} ELSE BenchmarkLists

\* validatePostProcessingSourceCompletion: a missing source is no obstacle.
SourceAllowsCompletion(c) ==
    c.source # NoJob /\ Exists(jobs[c.source])
        => jobs[c.source].state = "completed"

-----------------------------------------------------------------------------
(* Evaluation jobs                                                         *)

\* HandleCreatePostProcessing lets only a completed evaluation through, which
\* may have been deleted when the new row is written.
AnySource(r)   == TRUE
ValidSource(r) ==
    r.source # NoJob => /\ jobs[r.source].state \in {"completed", "deleted"}
                        /\ ~IsPostProcessing(jobs[r.source].config)

NewRow(r) == [EmptyRow EXCEPT !.state = "pending", !.config = r]

CreateEvaluationJob(j, r) ==
    /\ jobs[j].state = "none"
    /\ IsDirect(r)
    /\ ValidSource(r)
    /\ jobs' = [jobs EXCEPT ![j] = NewRow(r)]
    /\ UNCHANGED collections

\* The job row and the collection's run count change in one transaction.
NextRunCount(c) ==
    IF CollectionKind[c] = "system" THEN collections[c].runCount
    ELSE collections[c].runCount + 1

\* The list is not looked at here: that it has a benchmark is what the handler has
\* checked (helpers.go:240), and a list emptied since then is left out.
CreateEvaluationJobAndUpdateCollection(j, r) ==
    /\ jobs[j].state = "none"
    /\ ~IsDirect(r)
    /\ collections[r.collection].exists /\ collections[r.collection].list # {}
    /\ jobs' = [jobs EXCEPT ![j] = NewRow(r)]
    /\ collections' = [collections EXCEPT ![r.collection].runCount =
                                              NextRunCount(r.collection)]

UpdateEvaluationJob(j, e) ==
    LET c == jobs[j].config IN
    /\ Updatable(jobs[j])
    /\ JobBenchmarks(c) # {}
    /\ \E listRead \in ListsRead(c) :
          LET row == ApplyEvent(jobs[j], e, listRead, JobBenchmarks(c)) IN
          /\ e.slot \in listRead
          /\ row.state = "completed" => SourceAllowsCompletion(c)
          /\ jobs' = [jobs EXCEPT ![j] = row]
    /\ UNCHANGED collections

\* Callers: a cancel request, and a runtime that failed to start the job.
UpdateEvaluationJobStatus(j, state) ==
    /\ Updatable(jobs[j])
    /\ jobs' = [jobs EXCEPT ![j] = SetState(@, state)]
    /\ UNCHANGED collections

UpdateEvaluationJobOCI(j, state, card) ==
    /\ OCIUpdatable(jobs[j], state)
    /\ jobs' = [jobs EXCEPT ![j] = SetOCI(@, state, card)]
    /\ UNCHANGED collections

DeleteEvaluationJob(j) ==
    /\ Exists(jobs[j])
    /\ jobs' = [jobs EXCEPT ![j] = [EmptyRow EXCEPT !.state  = "deleted",
                                                    !.config = jobs[j].config]]
    /\ UNCHANGED collections

-----------------------------------------------------------------------------
(* Collections                                                             *)

\* Replaces the configuration and keeps the server-managed status.
ForgetStatus(c, list) == [collections[c] EXCEPT !.list = list, !.runCount = 0]
WithConfig(c, list)   == [collections[c] EXCEPT !.list = list]

UpdateCollection(c, list) ==
    /\ collections[c].exists
    /\ CollectionKind[c] = "user"
    /\ list # {}
    /\ collections' = [collections EXCEPT ![c] = WithConfig(c, list)]
    /\ UNCHANGED jobs

\* A JSON patch may replace /benchmarks; the patched document is stored
\* without the validation a PUT goes through, so the list may become empty.
PatchCollection(c, list) ==
    /\ collections[c].exists
    /\ CollectionKind[c] = "user"
    /\ collections' = [collections EXCEPT ![c] = WithConfig(c, list)]
    /\ UNCHANGED jobs

DeleteCollection(c) ==
    /\ collections[c].exists
    /\ CollectionKind[c] # "system"
    /\ collections' = [collections EXCEPT ![c].exists = FALSE, ![c].list = {}]
    /\ UNCHANGED jobs

\* All system collections are replaced by the configured ones, which carry no
\* status; lists[c] = {}: c is not configured any more.
SystemCollections == {c \in Collections : CollectionKind[c] = "system"}
LoadSystemResources(lists) ==
    /\ collections' = [c \in Collections |->
           IF c \in SystemCollections
           THEN [exists |-> lists[c] # {}, list |-> lists[c], runCount |-> 0]
           ELSE collections[c]]
    /\ UNCHANGED jobs

-----------------------------------------------------------------------------
StoreInit ==
    /\ jobs = [j \in Jobs |-> EmptyRow]
    /\ collections \in [Collections -> {[exists |-> TRUE, list |-> l, runCount |-> 0] :
                                            l \in BenchmarkLists}]

StoreNext ==
    \/ \E j \in Jobs, r \in Requests :
          \/ CreateEvaluationJob(j, r)
          \/ CreateEvaluationJobAndUpdateCollection(j, r)
    \/ \E j \in Jobs, e \in Events : UpdateEvaluationJob(j, e)
    \/ \E j \in Jobs, st \in {"cancelled", "failed"} : UpdateEvaluationJobStatus(j, st)
    \/ \E j \in Jobs, st \in OCIStates, card \in Cards \cup {NoCard} :
          UpdateEvaluationJobOCI(j, st, card)
    \/ \E j \in Jobs : DeleteEvaluationJob(j)
    \/ \E c \in Collections, l \in BenchmarkLists : UpdateCollection(c, l)
    \/ \E c \in Collections, l \in BenchmarkLists \cup {{}} : PatchCollection(c, l)
    \/ \E c \in Collections : DeleteCollection(c)
    \/ \E lists \in [SystemCollections -> BenchmarkLists \cup {{}}] :
          LoadSystemResources(lists)

StoreSpec == StoreInit /\ [][StoreNext]_storeVars
-----------------------------------------------------------------------------
(* Properties                                                              *)

\* Every row and every collection has the shape of the entity the store
\* serialises (EvaluationJobEntity, collectionStoredEntity).
TypeOK ==
    /\ jobs \in [Jobs -> Rows]
    /\ collections \in [Collections -> CollectionRows]

\* A finished row changes by deletion only.
KeepsTerminal(j) ==
    IsTerminal(jobs[j]) =>
        \/ jobs'[j].state = "deleted"
        \/ /\ jobs'[j].state   = jobs[j].state
           /\ jobs'[j].status  = jobs[j].status
           /\ jobs'[j].results = jobs[j].results
           /\ jobs'[j].score   = jobs[j].score

\* A job that reached a terminal state keeps that state, its benchmark
\* statuses, its results and its score until it is deleted: no late event,
\* cancel or runtime failure gets past checkEvaluationJobState, in any
\* interleaving of the transactions that read the row before it finished.
TerminalJobIsFinal == [][\A j \in Jobs : KeepsTerminal(j)]_storeVars

\* The two lists UpdateEvaluationJob maintains separately never disagree: a
\* benchmark has a result exactly when its status entry is completed or
\* failed, and the result is the one of the event that set that status.
ResultsMatchStatus == \A j \in Jobs : ResultsMatch(jobs[j])

\* For a job with its own benchmark list, the state getOverallJobStatus
\* derives from counters means what it says of the individual benchmarks:
\* completed and partially_failed jobs have every benchmark of the list
\* finished, a job that is still live has one that is not, and only
\* benchmarks of the list ever get a status entry.
OverallStateMatchesBenchmarks == \A j \in Jobs : StateMatchesList(jobs[j])

\* Benchmarks are cancelled by the cascade of a job cancellation only, so a
\* cancelled benchmark is in a cancelled job and a cancelled job has no
\* benchmark left that claims to be pending or running.
CancelledTogether == \A j \in Jobs : CancelledWhole(jobs[j])

\* A post-processing job never outlives the premise it was accepted on: its
\* source evaluation is completed or has been deleted, so the check at its
\* completion (validatePostProcessingSourceCompletion) cannot fail.
SourceStaysCompleted ==
    \A j \in Jobs : Exists(jobs[j]) /\ jobs[j].config.source # NoJob =>
        jobs[jobs[j].config.source].state \in {"completed", "deleted"}

KeepsOutcome(j) ==
    jobs[j].oci \in OCITerminal =>
        jobs'[j].state = "deleted" \/ jobs'[j].oci = jobs[j].oci

\* The OCI workflow reports only on jobs with exportable results, and its
\* first terminal outcome is the one that stays, however many exporters run.
OCIOutcomeFinal ==
    [][\A j \in Jobs : ExportFollowsResults(jobs[j])' /\ KeepsOutcome(j)]_storeVars

\* The score of a completed job with its own list averages exactly the
\* results that have a test section: none is missed and none is stale,
\* although computeJobTestResult runs once, on the event that completes it.
ScoreCoversResults == \A j \in Jobs : ScoreCovers(jobs[j])

DoneSlots(row) == {s \in Slots : row.status[s] \in BenchmarkTerminal}

\* The job a client sees: its state, the benchmarks that are done, its export.
Life == INSTANCE JobLifecycle WITH
            state  <- [j \in Jobs |-> jobs[j].state],
            done   <- [j \in Jobs |-> DoneSlots(jobs[j])],
            export <- [j \in Jobs |-> jobs[j].oci]

\* Whatever the storage methods do to a row, a client that polls it sees the
\* life of a job: no benchmark that was done is undone by a late event, a
\* finished job stays as it is, and the first outcome of an export remains.
FollowsLifecycle == Life!LifeSpec

RunsOf(c) == {j \in Jobs : jobs[j].config.collection = c}

\* status.run_count of a collection is the number of jobs ever created from
\* it (system collections keep none): neither an edit of the collection nor
\* the deletion of a job loses or repeats one.
RunCountExact ==
    \A c \in Collections :
        collections[c].runCount =
            IF CollectionKind[c] = "system" THEN 0
            ELSE Cardinality(RunsOf(c))

-----------------------------------------------------------------------------
(* What comments, tags and tests say and the code does not do.             *)

\* pkg/api/evaluations.go: a terminal benchmark state "should not be
\* overwritten".  updateBenchmarkStatus only refuses non-terminal events.
TerminalBenchmarkNotOverwritten ==
    [][\A j \in Jobs, s \in Slots : jobs[j].status[s] \in BenchmarkTerminal =>
          \/ jobs'[j].state = "deleted"
          \/ jobs'[j].status[s] = jobs[j].status[s]]_storeVars

\* The feature tests expect every benchmark of a completed collection job to
\* be completed; the store compares its entries with the collection's list
\* at the time of the last event, which may have been edited since.
CompletedJobHasNoUnfinishedBenchmark ==
    \A j \in Jobs : jobs[j].state = "completed" =>
        \A s \in Slots : jobs[j].status[s] \in {"none", "completed"}
=============================================================================
