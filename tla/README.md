# Eval-hub: TLA+ specifications

Eval-hub is a Go service that accepts evaluation jobs over REST, stores them in a
SQL database, starts one Kubernetes Job (or local process) per benchmark, and
collects the status events the running benchmarks post back.  Several replicas of
the service may run against the same database and cluster.  Each benchmark's pod
has an init container that stages test data, the adapter that evaluates, and a
sidecar that forwards the adapter's requests with the right credential.  The
modules in this directory model the parts of all this whose correctness depends on
the order of things, on failures, or on two parts of the code agreeing.

Paths below are relative to the repository root; PROJECT.json maps every
definition to its lines.

## Inventory

| Component | State it keeps | Operations | Hard part |
|---|---|---|---|
| Evaluation job store (`internal/eval_hub/storage/sql/evaluations_*.go`) | one row per job: state, benchmark statuses, results, score, OCI result, resolved commits | create (alone, or with a collection's run counter), status event, status change, OCI result, resolved commit, delete | events arrive in any order and from many clients; read-modify-write of a JSON document; finished jobs must stay finished |
| Collection and provider store (`.../collections.go`, `providers.go`) | one row per collection or provider, per tenant or of the system | create, update, patch, delete, reload of system rows | edited by several tenants, and while jobs that refer to them run |
| Evaluation handlers (`internal/eval_hub/handlers/evaluation*.go`) | metrics gauges | create, cancel, delete, events, export of results | the calls of one request interleave with other requests |
| Collection and provider handlers (`.../collections.go`, `providers.go`) | none | check, enrich from providers, write | check and write are apart |
| MLflow client (`internal/eval_hub/mlflow`, `pkg/mlflowclient`) | what is known of the server's workspaces; the probe in flight | prepare a client, probe, ensure workspace, experiment, card | one probe shared by concurrent requests; races to create |
| Kubernetes runtime (`internal/eval_hub/runtimes/k8s`) | nothing durable: a goroutine per job; the cluster holds Jobs, ConfigMaps, NetworkPolicies, Secrets | create loop, rollback, post-create check, sweep, shutdown | lost answers, asynchronous deletion, garbage collection, cancels on another replica |
| Kubernetes object builders (`.../job_config.go`, `job_builders.go`, `job_volumes.go`, `job_names.go`, `secret_builder.go`, `hardware_*.go`) | none | one benchmark's objects from the configuration and three reads of the cluster | volumes, mounts, environment and sidecar configuration are computed apart and must fit; reads go stale |
| Runtime sidecar (`internal/eval_runtime_sidecar`) | four cached tokens, the registry's token, the model Secret, the commit, job infos | route, inject a credential, refresh, inject the commit, start, stop | shared caches without locks; credentials must not go astray |
| Runtime init container (`cmd/eval_runtime_init`) | files and a metadata file | stage Git, Hugging Face or S3 data | the ref moves while it is read |
| Local runtime (`internal/eval_hub/runtimes/local`) | tracked process ids, cancelled jobs | run, report failure, cancel | process exit against cancel |
| System resources loader and configuration watcher (`internal/eval_hub/config`, `storage`) | debounce timer, reload goroutines | watch, reload, stop | reload against shutdown, lost file events |
| Benchmark merge, request validation (`internal/eval_hub/common`, `validation`) | none | pure functions | the list is recomputed on every use |
| HTTP server, MCP server, REST and OCI clients, configuration loader, telemetry | little or none | I/O | none of its own |

How they interact: a handler prepares MLflow, writes the row and then hands the job
to the runtime; the runtime's goroutine builds and creates one benchmark's
resources after the other and looks at the row (through the storage interface)
before and after each; the init container stages the data and leaves the commit in
a file; the sidecar puts that commit into the events it forwards to the handlers,
which the store turns into statuses, results and the overall state; the request
whose event finishes the job exports its results to MLflow and the registry.  A
cancel or delete writes the row and sweeps the cluster, except for post-processing
deletes, which sweep first.

What makes each correct:

* store: statuses, results, overall state and score agree; a finished job is
  final; no event is lost between transactions; the run counter counts each job
  once; a client sees no job go backwards;
* collections and providers: an acknowledged write stays, tenants stay apart,
  read-only rows stay as they are;
* handlers: an export shows the final state and happens for every finished job;
  experiments are where the pods look for them; gauges count each live job once;
* Kubernetes runtime: no Job runs without its NetworkPolicy; no Job outlives its
  cancelled or deleted evaluation; what the loop concludes about a benchmark is
  true; the goroutine ends;
* objects: everything a container reads is mounted, the adapter gets neither a
  service account token nor the model Secret (it does get the registry's credentials
  and `hf-token`), every reference it gets resolves, names neither collide nor break;
* sidecar: a credential reaches its own target only, tokens are not used long
  after they were replaced, a shutdown leaves no listener;
* init container: what is staged is one commit, and what the rewritten events bring
  the server to record is what a pod has staged;
* watcher: no reload after the storage is closed, the last change is eventually
  loaded, and shutdown terminates;
* local runtime: a cancelled job has no process left, and a cancelled evaluation
  reports no failure that the cancellation caused.

`hazards` in PROJECT.json lists what is hard to test, line by line.

## Modules

| Module | Models | Kind |
|---|---|---|
| `JobLifecycle` | what a client may rely on: the overall state of a job, its finished benchmarks, the outcome of its export | abstract specification |
| `JobRows` | the contents of a job row and the pure functions that compute the next one | operators |
| `JobStore` | the storage methods as atomic steps on the two tables | specification, refines `JobLifecycle` |
| `LockedJobStore` | the same methods as PostgreSQL transactions with row locks | implementation, refines `JobStore` |
| `MLflowClient` | workspace support, its shared probe, the race to create a workspace | component |
| `JobHandlers` | create, event, cancel and delete requests step by step | composition of `JobStore` and `MLflowClient` |
| `Registry` | requests on collections and providers of several tenants, and the reload of system rows | system of several processes |
| `K8sRuntime` | create loop, rollback, sweeps, delete requests, shutdown, and the cluster | system of several processes |
| `K8sNames` | names of a benchmark's objects | operators |
| `ModelRefs` | the references to model credentials that the runtime makes and the sidecar resolves | operators, shared by the next two |
| `JobObjects` | a benchmark's objects, from the request and three reads of a changing cluster | one process and its environment |
| `SidecarRouting` | where the sidecar sends a path, and where the server believes it went | operators |
| `SidecarProxy` | concurrent requests, token caches, start and shutdown of the sidecar | system of several processes |
| `TestData` | init container, sidecar and server along the way of a commit | composition across three programs |
| `LocalRuntime` | benchmark goroutines, the tracker of process ids, cancel requests, and the operating system's ids | system of several processes |
| `ConfigWatcher` | file events, debounce timer, reload goroutines, and the shutdown order of `main` | system of several processes |
| `JobStoreProofs`, `JobHandlersProofs`, `RegistryProofs` (with the watcher), `K8sRuntimeProofs`, `JobObjectsProofs`, `TestDataProofs`, `SidecarProxyProofs`, `LocalRuntimeProofs` | theorems | proofs |
| `MC*` | constants for TLC | instances |

Some definitions directly precede another one with the same parameters and are
used nowhere: they are the same function with a plausible bug (a dropped guard, a
missing reset, a wrong order).  Substituting them shows that the property next to
them in PROJECT.json's `mutants` notices the bug.

A `TypeOK` documents the shape of a module's state; those of the store and the
watcher are proved.

### JobLifecycle

The variables are functions of the store's rows (`Life` in `JobStore`): `state` is
the overall state, `done` the slots with a terminal status, `export` the state of
the OCI workflow.  `Create`, `Report`, `Stop`, `Publish` and `Delete` say all that
may happen to a job: a finished job only publishes or goes away, a finished
benchmark never becomes unfinished, a job finishes by an event only when a
benchmark has finished, an export with an outcome keeps it.  Which lists events
are counted against is left out, since edits of a collection may change the list.

### JobRows and JobStore

A benchmark is a *slot*, `<<benchmark, position>>`, as in the code, where status
and result entries are found by provider, benchmark id and index.  A benchmark
list is the set of its slots.  A row holds `status` and `results` as functions on
slots (the code keeps two lists without duplicates), the set of slots averaged
into the score instead of the number, and the OCI outcome with the reference to
the pushed card.  A metric is reduced to whether it yields a test section.

| Code | Definition |
|---|---|
| `checkEvaluationJobState` | `Updatable` |
| `updateBenchmarkStatus`, `updateBenchmarkResults` | `UpdateBenchmarkStatus`, `UpdateBenchmarkResults` |
| `getOverallJobStatus` (counters, order of cases, list length) | `GetOverallJobStatus` |
| `computeJobTestResult` | `ComputeJobTestResult` |
| `UpdateEvaluationJob` | `ApplyEvent` and the action of the same name |
| `UpdateEvaluationJobStatus` with the cancel cascade | `SetState`, `CancelBenchmarks` and the action |
| `UpdateEvaluationJobOCI` | `OCIUpdatable`, `SetOCI` and the action |
| `GetJobBenchmarks` | `JobBenchmarks` |
| `CreateEvaluationJob`, `CreateEvaluationJobAndUpdateCollection`, `DeleteEvaluationJob`, `UpdateCollection`, `PatchCollection`, `DeleteCollection` | actions of these names |

The list of a collection job is read from the collection at every event.  The
code reads it twice in one transaction, without a lock on the collection:
`ApplyEvent` therefore has two list arguments, and the atomic `UpdateEvaluationJob`
allows the first to be any list the collection may have held.

`LoadSystemResources` replaces all system collections in one transaction, with the
lists that are configured now: a system collection may get another list, appear or
disappear while jobs that refer to it run.

### LockedJobStore

`BeginUpdate` is the locked read, the check of the state and the validation of the
event; `CommitUpdate` is the second read of the collection, the write and the
check of a post-processing job's source; `RollbackUpdate` covers every error and a
crash.  Other transactions run in between.  The remaining methods hold their lock
from their only read to their write and are one step, guarded by `Unlocked`.  The
SQLite configuration has one connection and thus fewer behaviours.

### MLflowClient and JobHandlers

A create request is `HandleCreateEvaluation` (validation), the preparation of an
MLflow client, `GetOrCreateExperimentID`, `StoreEvaluationJob`,
`ExecuteEvaluationJob` and, if the runtime refuses, `MarkFailed`; a status event is
`ReadPreviousState`, `StoreEvent`, `RecordTerminalStateAfterUpdate`,
`onEvaluationJobUpdated` and the export; a cancel is `SnapshotJob`, `SignalStore`
and `CountCancelled`.  The steps of the store are `JobStore`'s actions themselves.
Other requests run between any two steps, so the state an event read first may be
old when the gauges and the export compare it with the new one.  Every call of the
store may fail, and has then changed nothing: a failed first read leaves an event
without a previous state, and a failed read of the row after the update ends the
request without an export, which nobody repeats; `abandoned` (history) has the
finished jobs this happened to.  `server`,
`workspace` and `experiment` are the MLflow server's side (external); `client` is
the copy each request prepares; `inflight` and `probe` are `WorkspaceSupport`'s
registered call and its goroutine.

### Registry

A worker handles one request: receive, check against the row (`403` or `404` at
once), enrichment from the providers, write.  The transaction that writes a
collection locks the row and is one step; the one that writes a provider reads
without a lock and is two.  A text stands for a name, a benchmark list or a URL and
carries its author, which lets `TenantsApart` follow it through clones, enrichment
and writes.  `acked` is a history variable: what the last successful answer said of
each field.  `LoadSystemResources` replaces the system rows of both tables.

### ModelRefs, K8sNames and JobObjects

`JobObjects` follows `createBenchmarkResources` up to the built objects: the
validation of hardware profiles in the request (`ValidateHardwareProfiles`), the
three reads (`FetchProfile`, `resolveMLFlowCABundleConfigMap`, `inspectModelSecret`),
`BuildObjects`, the adapter's Secret (a URL in the user's Secret that does not parse
ends the benchmark here), and later the start of the pod, whose sidecar
reads the user's Secret itself.  `EditCluster` changes what is read in between.
The pod is a set of volumes, mounts, environment entries and the paths in the
sidecar's configuration, each computed by an operator named after its builder.  One
of these paths, `mlflow.ca_cert_path` of the service's own configuration
(`ConfiguredCA`), is named and never mounted: `PodWellFormed` excuses it by name.
Names are sequences of characters, since truncation and trimming is what they are
about; the limit of 63 is a constant.

### SidecarRouting and SidecarProxy

A path is a sequence of segments.  `SidecarRouting` has the sidecar's routing and
the server's own resolution of the same path for error messages, written apart as in
the code; both take their settings from one record, although in the code the server
reads its configuration and the pod a copy made when it was created.  `SidecarProxy` takes each request through routing, cache look-up, token
file or registry challenge, the two stores (`producer`, `cache`), and the answer.
The caches are atomic pointers: reads and writes are separate steps.  `file` is the
version in each token file, which is rotated outside; `replaced`, `issued` and
`stale` are history variables.  `start` and `main` are the goroutines of `Start`
and `Shutdown`.

### TestData

Per benchmark: the init container (`pc`, `commit`, `todo`, `dest`, `meta`), the
sidecar (`sha`), and the server's record (`stored`), joined by events on the wire
that may overtake each other.  An adapter may post an event about any benchmark of the
job, and the server records for the benchmark the event names; `reporters` (history)
has who reported on whom.  The sidecar of a Git job puts its commit into an event
posted under the events path (`RewriteEvent`, `isEventsPath`); other requests for the
API are forwarded with the body they have (`ForwardUnchanged`), and `unchanged`
(history) has the commits claimed in those.  A file of a commit is a pair, so staging from two
commits is visible.  `shared` says that a broadcast override gave all benchmarks
the same reference.

### K8sRuntime

One evaluation with `N` benchmarks.  The processes are: the goroutine of
`RunEvaluationJob` (`pc`, `bench`), with one action per API call of
`createBenchmarkResources` and of its error paths; one process per delete request
(`handler`), with the order of row update and sweep of its endpoint; the sweeps of
`DeleteEvaluationJobResources` (`sweep`: two passes, list then delete, used by the
requests and by the goroutine that notices a cancellation); and the cluster, which
is external: foreground deletion that finishes later, and garbage collection along
owner references.  Any call may be refused, or take effect with its answer lost;
storage reads may fail; somebody may delete a ConfigMap; the service may shut down.
`outcome` records what the goroutine concluded about each benchmark, `uncertain` and
`unhandled` (history) the benchmarks whose outcome it could not learn and those with a
failure it only logs: an owner that was not set, a cleanup that failed, a first create
whose answer was lost.

### LocalRuntime

One job.  Each benchmark has a goroutine with the steps of `runBenchmark` (look-up,
check for cancellation, directory, files, start, `addPID`, `cmd.Wait`, clean-up) and
its own failure path, which reports through the store.  `pids` and `cancelled` are
the job's entries in `pidTracker`; the calls of the tracker are atomic because they
hold its mutex.  The job is an evaluation or a post-processing job.  A request to
cancel or delete an evaluation changes the row, then calls `cancelJob`, then removes
the directory; the delete of a post-processing job calls `cancelJob` and removes the
directory first and deletes the row last (post_processing.go:67-75), so a launch it
breaks may still be stored as failed.  Either may come before the launch.  A killed or finished process is a
zombie until its goroutine reaps it; then its id may go to any other process
(`strangers`).  `broken` and `hit` are history variables.

### ConfigWatcher

`Watch` is one goroutine; the debounce timer, the reload goroutines its firings
start, and `main` are the others.  `tickets` is the wait group; `reload` is the step
of the goroutine that holds the mutex and `waiting` counts those that wait for it.  The contents of the two directories are version numbers: `Change`
increments one, announced by an event or not (before the watch exists), a reload
reads them one after the other and stores what it has read, all or nothing.

## Runs

| Run | Bounds | Shows |
|---|---|---|
| `store_direct` | 2 jobs with lists of their own (2 benchmarks and 1), the second a post-processing job that may read the first; 1 card | rows stay consistent and finished jobs final, whatever the order of events, cancels, failures, exports and deletions; clients see the life `JobLifecycle` describes |
| `store_collection` | 1 job; an editable and a system collection; two lists, one shorter and with another benchmark in first position; edits, empty patches, system reloads | the transactions implement the atomic store although the collection changes between their two reads; run counter |
| `handlers` | 2 jobs with experiments, one of them exported to a registry too, the other from a collection; 2 racing status events, one failed and one completed, 1 cancel or delete, 1 failed call (of the store, of MLflow or of the registry); MLflow with and without workspaces | experiments in the tenant's workspace, exported cards are final, every finished job is exported unless the row could not be read back |
| `registry` | 2 tenants, 2 concurrent requests of every kind; a user's and a system collection and provider; any number of reloads | acknowledged writes stay, tenants stay apart, read-only rows stay |
| `k8s_loop` | 2 benchmarks, 2 faults, a cancel or a post-processing delete | what the create loop leaves behind is protected, true, owned (`NothingUnowned`) and not orphaned |
| `k8s_requests` | 1 benchmark, 1 fault, a cancel and a hard delete | overlapping requests; the loop ends, Jobs of a cancelled evaluation go away |
| `job_objects` | four slices of requests (pod and credentials, hardware, fallbacks, names), 7 model Secrets (one with a URL that does not parse), 1 edit of the cluster, names of at most 11 characters | objects fit together, the adapter holds no token and no model Secret, references resolve, names agree |
| `sidecar` | 2 concurrent requests, 5 settings (each target on in one of them, a registry without credentials, local mode), 2 versions of the pod's token and 2 of the registry's, TTL 2, requests held 1 tick, 3 ticks | credentials stay home, age of tokens, error messages name the target, shutdown |
| `test_data` | 2 benchmarks, 2 commits (one with submodules when it is cloned), 2 files, 1 move of the ref, 1 failed read or write, 1 sidecar restart, 2 rewritten events about each benchmark from either pod, 1 event left unchanged | whole commits, true records, every rewritten event retries |
| `local` | 2 benchmarks, 2 process ids; an evaluation with a cancel and a hard delete, or a post-processing job with its delete | cancellation reaches every process, leaves no directory and, for an evaluation, stores no failure it caused itself; goroutines return |
| `watcher` | 2 changes per directory | no reload after the storage is closed, no announced change is lost, shutdown ends if no timer was pending |
| `watcher_shutdown` | 1 change per directory | a defect (see Findings) |

Why the bounds are enough.  Rows influence each other only through a
post-processing job's source, so two jobs show every interaction; two benchmarks
give every combination that the overall state tells apart (all completed, all
failed, mixed, one unfinished), and the theorems below cover the rest.  In the
runtime, benchmarks are created one after the other and share only the goroutine
and the sweeps: with two there is one that is finished while the next is created.
Two faults are what the deepest error path needs (a lost answer and then a failed
confirmation, or a failed call and then a failed rollback).  Without a bound on
faults the loop need not end; `MaxFaults` is that bound and the only counter.
Requests of the handlers meet in the row, in the gauges and in the probe: two
events show the race for the transition that finishes a job, two creations the
shared probe, and a cancel or delete runs between any two of their steps.  Every
property of `Registry` relates one request's check to one other request's write.
The sidecar's requests meet in one cache entry each: two show a late store that
overwrites a newer token, and with a TTL of 2 and 3 ticks an entry expires and is
replaced.  An object's construction reads three things once each, so one edit
placed anywhere separates any of the reads from the others and from the mount.
Eleven characters leave room for the longest suffix of the names and for truncation,
trimming and hashes to interact, as 63 do.  One move of a ref and two benchmarks
give two commits in one job; with two events about a benchmark and one fault, one
event fails and the next one records, and either may come from the other pod.
Benchmarks of the local runtime meet only in the tracker and the directory: with
two benchmarks and two ids one finishes, and its id is taken over by the other or
by a stranger, while the other is anywhere.  Two changes per directory give a
change before, during and after a reload that another reload waits for; the safety
properties of the watcher are proved for any number.

Deadlock is not checked: a store without requests, a finished evaluation and a
service that has shut down really stop.

Fairness (`LocalRuntime`): goroutines and accepted requests run; nothing obliges a
process to end by itself, so `CancelledJobEnds` rests on the kill.  Fairness
(`ConfigWatcher`): the goroutines, the timer and `main` after a signal run; no file
has to change and no signal has to come.  Fairness (`JobHandlers`): a request that
has begun runs to its end, and so does the probe, since every call they wait for
has a timeout; nobody has to send a request, and no request has to be given up.
Fairness (`K8sRuntime`): the goroutine, requests that have arrived, and the
cluster's controllers keep running (weak fairness), since goroutines are scheduled and API
calls have deadlines.  Nobody is obliged to send a request, to shut the service down, to fail a
call or to tamper with a ConfigMap.  The other specifications need no fairness:
their properties are safety properties.

Symmetry is used in `test_data` (benchmarks) and `sidecar` (requests) only, where
the permuted values occur in no other constant and only invariants are checked.

## Theorems

Assumptions: `ConstantsAssumption`, `RequestsAssumption` and `ListsAssumption` of
`JobRows`: sets of any size, finitely many benchmarks, requests and lists as
request validation lets them through; `LocalAssumption` of `LocalRuntime` keeps
names apart and says which three endpoints exist, and `ChangesAssumption` of `ConfigWatcher` says the bound is a number.
`SubmissionsAssumption` of `JobHandlers` gives the types of what clients send;
`RuntimeAssumption` of `K8sRuntime` says there is a benchmark and which endpoints
exist; `TreeAssumption` of `TestData` that commits have trees and that "no commit" is
none; `RegistryAssumption` of `Registry` that ids of new rows are fresh (the handlers
generate them), that a tenant is never called like the reserved owners, and that the
first rows were written by their owners; `TimeAssumption`, `SettingsAssumption` and
`TokensAssumption` of `SidecarProxy` that times are numbers, that Secrets are well
formed, and that every issuer makes tokens of its own and never the same one twice;
`ObjectsAssumption` of `JobObjects` that Secrets are well formed and that requests have
passed validation (validator.go:200: no GPU beside a DRA claim); `NamesAssumption` of
`K8sNames` that suffixes are short labels that begin with a dash, `IdsAssumption` of
`JobObjects` that the id of an execution is a UUID (job_config.go:304): a label, all of
one length, short enough that a name has room for it, for the suffix and for some of the
job id, of which nothing is assumed.  TLC evaluates all of them.

* `StoreTypeOK`: types.
* `StoreRowsOK`: every row is always consistent.  The properties are not inductive
  one by one: that the counters of `getOverallJobStatus` describe the list needs
  that only slots of the list have entries, and the score needs that statuses and
  results agree.  `RowOK`, the conjunction of the parts named in `JobRows`, is
  inductive; each row function is shown to preserve it in a lemma of its own, and
  cardinality lemmas turn "as many completed entries as the list is long" into "the
  completed entries are the list".  `StoreResultsMatchStatus`, `StoreOverallState`,
  `StoreCancelledTogether` and `StoreScoreCoversResults` follow.
* `StoreTerminalJobIsFinal`, `StoreOCIOutcomeFinal`: action properties, from the
  guards of the methods and the same invariant.
* `StoreSourceStaysCompleted`: from an invariant that the source of an existing
  post-processing job is completed or deleted, and that a completed job changes by
  deletion only.
* `StoreRunCountExact`: the number of jobs created from a collection; the step uses
  that a job id is taken once.
* `StoreFollowsLifecycle`: `JobStore` implements `JobLifecycle`.  The step of an
  event (`LifeStep`, from `EventProgress`) needs `RowOK`: that an overall state is
  finished only when some slot is follows from the counters describing the list.
  `Create` and `Delete` need that a job id that is not taken has an empty row.
* `LockedRead`: the copy a transaction holds is the row, from an invariant on open
  transactions (`OpenTxnOK`: copy equals row, the event fits the list it was
  validated against, and that list is one the atomic method may choose).
* `LockedJobStoreImplementsJobStore`: `BeginUpdate` and `RollbackUpdate` are
  stuttering steps, `CommitUpdate` is the atomic `UpdateEvaluationJob`, with the
  list of the open transaction as witness.  `TransactionsKeepPromises` carries
  the theorems about `JobStore` over, the refinement of `JobLifecycle` included: the
  chain is `LockedJobStore`, `JobStore`, `JobLifecycle`.
* `WatcherInvariant`: the tickets of the wait group are exactly the pending timer
  and the reloads under way (`TicketsExact`), the stages of `Watch` and `main` fit
  (`StagesOK`), and a reload that no later one will repeat has read what is on disk
  (`ReadsFresh`).  `WatcherTypeOK` (the wait group is never negative, which would be
  a panic), `WatcherNoReloadAfterClose` and `WatcherQuietMeansLoaded` follow.
* `LocalCancelReachesAll`: from `CancelInv`.  The property says nothing of the
  tracker, so it is not inductive: the invariant adds that the flag of the tracker
  is set once a request has passed `cancelJob`, that every running process past
  `addPID` is tracked while the flag is not set, and that nothing runs before the
  launch, so that `registerJob` forgets no process.

* `LocalCancelIsNoFailure`: a failure is stored only while the row is active, and a
  launch of an evaluation broken by a cancellation finds it is not, because the
  requests for evaluations write the row before they touch the tracker
  (`RowSignalled`); a goroutine reports once, as its last step (`ReportsOK`).  The
  delete of a post-processing job has the other order and is part of the
  specification: the property is about evaluations, and `LocalRuntime_delete.cfg`
  shows that it fails for post-processing jobs.  `LocalNoOrphanDirectory` adds that whatever is in the
  directory after a request has removed it belongs to a goroutine that has its
  clean-up ahead (`DirectoriesOK`).
* `HandlersImplementStore`: `JobHandlers` implements `JobStore`.  What a handler
  holds between its steps (`CallsOK`: an accepted submission, an event of a launched
  job) is what a storage method may be called with, so its store steps are steps of
  `JobStore` and the others stutter.  The theorems about the store hold of the
  handlers through it.
* `HandlersCardIsFinal`: from `CardInv`.  A handler builds the card from a row it
  reads after its own update; the row may be changed by another event or a delete in
  between.  The invariant says that a job that was made keeps its submission
  (`MadeOK`), that only benchmarks of its list have entries and all are done when
  results are exported (`ListedOK`), and that a card in preparation or exported has the
  statuses of the row, or the row is gone (`CardsOK`).  It uses `StoreTypeOK` and
  `StoreRowsOK` through the refinement.  Collections are not edited in `JobHandlers`;
  `LockedJobStore` has the edits.
* `HandlersExportOwed`: from `OwedInv`.  Who exports is decided by a state read before
  the update and one read after it, neither in its transaction, so two racing events
  might each take the other for the one that finished the job.  The invariant adds that
  only jobs that were made have rows (`RowsMade`) and that a request that read a finished
  state finds the row finished for good (`PrevOK`): then it cannot be the one whose
  update finished the job, and the one that was has read an unfinished state, or failed
  to read one and takes the job for unfinished (`FinishingStep`), and keeps the export
  ahead until the last target (`AheadStep`).  Excused is the request that cannot read the
  row back after its update: the code gives the export up, and the invariant says that
  such a job stays in `abandoned` (`AbandonedKept`).  It is
  the safety core of `FinishedJobIsExported`: what fairness adds is that requests end.
  `HandlersQuietMeansExported` follows: when no request is in progress nothing is left but
  the jobs that were given up like this.
* `HandlersKeepPromises`: the theorems about the store, carried over to the handlers
  through `HandlersImplementStore`; the chain is `JobHandlers`, `JobStore`,
  `JobLifecycle`.
* `HandlersMLflowOK`: the registered call is the one whose goroutine runs and a caller
  goes on only with the capability resolved (`ProbeOK`, `ClientsOK`); a capability
  that is resolved, or a workspace that was made, stays.  `HandlersOneProbe` and
  `HandlersExperimentPlace` follow.
* `K8sInvariant`: seven parts.  `ProtectedJobs` is not inductive because of the order
  of owners: the invariant says that the policy of a live Job is the Job's own or that
  of a ConfigMap that still exists (`PolicyHeld`), and that a benchmark whose Job was
  not asked for, or whose ConfigMap the rollback is about to delete, has none
  (`NotYetCreated`).  For `OutcomesAreTrue`, `ConclusionsOK` says at each stage of
  `createBenchmarkResources` what is known of the current benchmark.  For
  `NoOrphanJobs`, `LiveJobsCovered` says that every live Job of an evaluation that has
  ended will be found: the loop looks at the evaluation again, or a sweep under way
  has yet to list, has listed the Job, or is followed by the second one.
  `K8sProtectedJobs`, `K8sOutcomesAreTrue` and `K8sNoOrphanJobs` follow, for every
  number of benchmarks and of faults.  `K8sTypeOK` gives the types.
* `K8sNothingUnowned`: from `OwnersOK` and `SecretsOK`.  A ConfigMap or secret without an
  owner is one of the current benchmark, and while the rollback runs it is on the list of
  what is still to be undone; a secret waits without an owner until its Job is confirmed
  and belongs to the Job from then on.  Excused are exactly the cases the code does not
  handle: an outcome it cannot learn (`uncertain`), a failure it only logs (`unhandled`)
  and a shutdown (`closed`).
* `K8sLoopBounded`: `LoopAhead` counts what is ahead of the goroutine at most: the later
  stages of this benchmark, the next benchmarks, what is to be undone, its two sweeps and
  the calls that may still fail.  A wait that starts over costs a fault, every other step
  a stage, and no request, sweep or controller adds to it; so the goroutine takes at most
  `23 * N + 22 + MaxFaults` steps.  It is the safety core of `LoopEnds`: what fairness adds
  is that the next step comes.
* `RegistryInvariant`: every row shows only what its owner may see, and a request in
  progress carries its tenant's own texts and what it has read of rows the tenant may
  see; so a write can only put such texts into a row.  `RegistryTenantsApart` follows.
  `RegistryAcknowledgedWriteKept`: each commit writes exactly the fields it
  acknowledges over the locked row (`AckedOK`).  `RegistryReadOnlyHolds`: an action
  property; system rows are configured rows and the row a request is to create is not
  there yet (`PlacesOK`), so the only steps that touch a read-only row are a reload and
  a deletion.
* `TestDataInvariant`: stage by stage, what has been copied is of the resolved commit
  (`StagedOK`), a commit that a sidecar holds is the one its pod wrote down, and one that
  an event or the row has comes from a pod that reported on the benchmark or from an
  event that was not rewritten (`KnownOK`, `Source`).  `TestDataStagedWholeCommit` and
  `TestDataRecordedIsStaged` follow.  `TestDataRetriesRecord` counts: while the row has
  no commit, the rewritten events are those on their way that carry one and at most one
  for each fault
  (`CountOK`), which needs that the set of events on their way is finite and that no
  event is posted twice.
* `ObjectsRefsResolve`: from `RefsInv`.  The Secret may change between its inspection
  and the start of the pod, so the invariant ties the flag of the configuration and the
  adapter's Secret to the content that was inspected, and that content to the cluster
  while nothing was edited.  `RefResolves` is the contract itself: both sides classify
  keys alike.
* `ObjectsAdapterHoldsNoCredential`, `ObjectsPodWellFormed`: from `PodInv`, which says
  what the configuration keeps of the request and that the pod was built from it.
  Lemmas turn the sequences of the three builders into sets (`AdapterVolumes`,
  `SidecarVolumes`, `InitVolumes`), show that a name stands for one source whichever
  builder declares it (`OneSource`), that the merge keeps every name, and that claims of
  post-processors get volumes of their own (`ClaimVolumes`, by counting the claims that
  come first).  `HardwareMerged` follows an accelerator through provider, profile,
  `hardware_config` and queue.  What is named and not mounted is the configured CA path
  alone, and the theorem says so.
* `ObjectsNamesAgree`: a name is the head of the job id, a dash, the execution's id and
  the suffix, and only the head is ever cut.  Lemmas say what the sanitizer, the trimming
  and the cut do to a text of any length: what they return is a label, and a label they
  leave alone.  Equal names then have equal ids at equal distances from their ends.
* `SidecarNoListener`, `SidecarMessageNamesTarget`: from `LifecycleOK`, which follows
  `Start`, its server pointer and `main` through each other's steps.  The rules of the
  server and of the sidecar differ for a registry without credentials only
  (`RulesAgree`), and that setting keeps the sidecar from starting.
* `SidecarCredentialStaysHome`: from `HomeInv`.  Requests share the caches and the token
  producer, so the property is not inductive: each cache holds tokens of its own
  target's issuers (`CachesOK`), and a request carries, at every step between the
  look-up and the store, a token that its slot may hold (`RequestsOK`).  A Secret's
  values reach the model hosts only (`ResolvedHome`).
* `SidecarTokenAgeBounded`: from `AgeInv`.  A token that a request has read was current
  at some moment since the request began, a cached one was stored by such a request and
  expires `TTL` later (`CacheAge`, `RequestAge`).  A token of the registry may pass
  through the producer from one request to another that overlaps it, so its bound has
  `2 * MaxHold` where a file's has one.

Only model-checked: all liveness (`FinishedJobIsExported`, `LoopEnds`, `JobsGoAway`,
`CancelledJobEnds`, `ChangesSettle`, `ShutdownEnds`), since the prover handles neither
fairness nor `ENABLED`.  Every invariant and every action property of the runs is proved.
Three more are stated as theorems alone, where a run checks something that rests on
them: `ExportOwed` (`FinishedJobIsExported`), `LoopBounded` (`LoopEnds`) and
`OneProbeAtATime` (`ExperimentInTenantWorkspace`); they hold on the instances of those
runs too.

## Findings

A debounce timer that is pending at shutdown keeps its wait group ticket, so the
service never gets to closing its storage (`watcher_shutdown`).

### Counterexample configurations

These configurations check a sentence of the repository that the code does not
keep; each ends with a short counterexample (`tlc -config X.cfg Module`).

| Configuration | Module | Property | What the code does, and the sentence |
|---|---|---|---|
| `MCLockedJobStore_overwrite.cfg` | `MCLockedJobStore` | `TerminalBenchmarkNotOverwritten` | a later terminal event replaces a terminal status; pkg/api/evaluations.go:41: a terminal state "should not be overwritten" |
| `MCLockedJobStore_shrunk.cfg` | `MCLockedJobStore` | `CompletedJobHasNoUnfinishedBenchmark` | a collection shortened while a job runs lets it complete with a benchmark still running; tests/features/evaluation_jobs_for_curated_collections.feature:35 |
| `MCK8sRuntime_orphan.cfg` | `MCK8sRuntime` | `NoOrphanPostProcessingJobs` | deleting a post-processing job sweeps before the row goes, so a Job created in between stays; k8s_runtime.go:374 |
| `MCK8sRuntime_secret.cfg` | `MCK8sRuntime` | `CreatedBenchmarkHasSecret` | a failed owner update deletes the secret the new Job has to mount; k8s_runtime.go:572 |
| `LocalRuntime_stranger.cfg` | `LocalRuntime` | `OnlyOwnProcessesKilled` | ids of reaped processes stay tracked, so a later cancel kills whoever has the id then; local_runtime.go:42 |
| `LocalRuntime_delete.cfg` | `LocalRuntime` | `DeleteIsNoFailure` | deleting a post-processing job removes its directory before the row goes, so a launch that this breaks is stored as failed; handlers/evaluations.go:800: "signal cancel/delete in storage BEFORE K8s cleanup" |
| `MCJobObjects_queue.cfg` | `MCJobObjects` | `DeprecatedQueueOnlyAlone` | the deprecated queue is applied beside a `hardware_config` that names none (job_config.go:370); pkg/api/evaluations.go:463: "Used only when neither hardware_config is set" |
| `MCJobObjects_ca.cfg` | `MCJobObjects` | `NamedCAMounted` | the service's own `mlflow.ca_cert_path` is handed to the containers of a job, where nothing mounts it; sidecar_config_json.go:75: "the PEM CA path job containers should use for MLflow TLS" |
| `MCTestData_shared.cfg` | `MCTestData` | `RecordedForItsOwnBenchmark` | benchmarks of a broadcast override share one reference, so the commit of one is recorded for all; evaluations_status.go:344 |
| `MCJobHandlers_gauge.cfg` | `MCJobHandlers` | `ActiveGaugeIsExact` | two events that race both count the transition that finished the job; metrics/evaluation.go:36,44 |
| `MCRegistry_curation.cfg` | `MCRegistry` | `CurationIsAdminOnly` | creating and replacing a collection take `curation_order` from the body; pkg/api/collections.go: "Admin-only via YAML; the server rejects writes from tenant API consumers." |

## Not modelled, and why

* In the store: a collection that is emptied between the handler's check and the
  creation of a job from it, messages and timestamps (data), the retry of serialization
  failures (a retried transaction is a new one), list queries and their filters
  (they change nothing).  The merge of benchmark parameters is data.
* In the handlers: get, list, logs and the cards endpoint change nothing; the
  queue-depth gauge moves with the active one; a restart between the update and
  the export has no recovery in the code.  A store call that fails has changed
  nothing: a commit whose answer is lost is not modelled.  Runs, artifacts and tags of MLflow are
  calls that succeed or fail.
* In the registry: a provider's patch is written over a copy read without a lock
  (storage/sql/providers.go:169) and validated against an earlier one
  (handlers/providers.go:330); the model has these steps, but no sentence of the
  repository promises that a provider's concurrent updates are kept, so no property
  says so.
* In the runtime: a create that lands after the confirming read answered
  NotFound (a lost answer takes effect at once here; the client cannot exclude it);
  two evaluations with colliding resource names (`NamesAgree` covers the names);
  jobs without credentials (the secret is always created); phase labels and
  Kubernetes events, which are best effort and read by nobody; a restart of the
  service beyond shutdown, since nothing resumes a loop.
* In the objects: quantities other than the CPU request, wording of annotations,
  security contexts, which are constant.
* In the sidecar: bodies and headers other than the credential, TLS settings, settings
  of the server that differ from those a running pod was given.  In `TestData`, events
  about a job that come from elsewhere than its own pods, and a job whose benchmarks
  have different kinds of source.  In
  the init container: path filters and size limits, which end it as other failures.
* In the local runtime: log streaming, environment variables and the job
  specification's contents (data), a removal of the directory that fails silently in
  the clean-up of a goroutine, and several jobs (they share only the tracker's map).
* In the watcher: file events that are ignored (other names, other operations), and
  the contents of the files; the configuration loader parses them and may fail.
* HTTP server and middleware, REST and OCI clients, telemetry, logging and TLS
  helpers are plumbing; the MCP server translates tool calls to REST requests and
  keeps no state of the domain, and the collection design it offers only reads the
  catalog.  The REST client (pkg/evalhubclient/client.go, doRequest) repeats any
  request after a transport failure or a server error, a submission too, so one
  submission may leave several jobs: each is a job of its own in the models.
* The endpoints of post-processing jobs are modelled where they meet the store and
  the runtimes (`JobStore`, `K8sRuntime`, `LocalRuntime`), not as handlers of `JobHandlers`.

## Plan

Done: the store with its transactions and its abstract life of a job, the handlers
with MLflow, the registry, the Kubernetes runtime and its objects, the sidecar, test
data, the local runtime, the configuration watcher, with the theorems above.  Next:

1. The merge of benchmark parameters and overrides against a reference definition.
2. The retry of serialization failures in the transactions.
