------------------------------- MODULE JobRows -------------------------------
(***************************************************************************)
(* The evaluation-job row of eval-hub's SQL store and the pure functions   *)
(* that compute its next contents (internal/eval_hub/storage/sql).         *)
(*                                                                         *)
(* A benchmark of a job is identified, in status and result entries alike, *)
(* by provider id, benchmark id and position in the job's benchmark list.  *)
(* Benchmarks abstracts the (provider, id) pair, a slot is that pair and a *)
(* position, and a benchmark list is the set of its slots.                 *)
(***************************************************************************)
EXTENDS Naturals, FiniteSets

CONSTANTS
    Jobs,            \* job ids: GUIDs, never reused
    Collections,     \* collection ids
    Benchmarks,      \* (provider_id, id) pairs
    MaxBenchmarks,   \* bound on the length of a benchmark list
    Cards,           \* references to pushed evaluation cards
    NoJob, NoCollection, NoCard,
    Requests,        \* job configurations clients may post
    BenchmarkLists,  \* benchmark lists a collection may hold
    CollectionKind   \* who owns each collection

Slots == Benchmarks \X (0 .. MaxBenchmarks - 1)

LiveStates        == {"pending", "running"}
TerminalStates    == {"completed", "failed", "partially_failed", "cancelled"}
OverallStates     == LiveStates \cup TerminalStates
EventStates       == {"pending", "running", "completed", "failed"}
BenchmarkTerminal == {"completed", "failed", "cancelled"}
BenchmarkStates   == EventStates \cup {"cancelled"}
OCITerminal       == {"completed", "failed"}
OCIStates         == OCITerminal \cup {"running"}

\* What a job is created with: its own list or a collection, the evaluation a
\* post-processing job reads, and whether OCI export is configured.
JobConfigs == [workload   : {"evaluation", "post_processing"},
               benchmarks : SUBSET Slots,
               collection : Collections \cup {NoCollection},
               source     : Jobs \cup {NoJob},
               oci        : BOOLEAN]

EmptyConfig == [workload |-> "evaluation", benchmarks |-> {},
                collection |-> NoCollection, source |-> NoJob, oci |-> FALSE]

\* A status event of the events API; tested says whether its metrics yield a
\* test section (computeBenchmarkTestResult found a score and a threshold).
Events == [slot : Slots, status : EventStates, tested : BOOLEAN]

Results  == [status : {"none", "completed", "failed"}, tested : BOOLEAN]
NoResult == [status |-> "none", tested |-> FALSE]

\* A row of the evaluations table. State "none": no such row yet; "deleted":
\* the row is gone (its configuration is kept here as history only).
Rows == [state   : OverallStates \cup {"none", "deleted"},
         config  : JobConfigs,
         status  : [Slots -> BenchmarkStates \cup {"none"}],
         results : [Slots -> Results],
         score   : SUBSET Slots,     \* slots averaged into results.test
         oci     : OCIStates \cup {"none"},
         card    : Cards \cup {NoCard}]

EmptyRow == [state   |-> "none",
             config  |-> EmptyConfig,
             status  |-> [s \in Slots |-> "none"],
             results |-> [s \in Slots |-> NoResult],
             score   |-> {},
             oci     |-> "none",
             card    |-> NoCard]

IsDirect(c)         == c.collection = NoCollection
IsPostProcessing(c) == c.workload = "post_processing"

ASSUME ConstantsAssumption ==
    /\ MaxBenchmarks \in Nat
    /\ IsFiniteSet(Benchmarks)
    /\ NoJob \notin Jobs /\ NoCollection \notin Collections /\ NoCard \notin Cards
    /\ CollectionKind \in [Collections -> {"user", "curated", "system"}]

\* The slots of a non-empty list: one benchmark at each position from 0 on.
IsList(l) == /\ l \in (SUBSET Slots) \ {{}}
             /\ {s[2] : s \in l} = 0 .. Cardinality(l) - 1

\* Request validation (evaluationJobConfigBenchmarksMin): a job names a
\* non-empty list or a collection; only post-processing jobs name a source.
ASSUME RequestsAssumption ==
    /\ Requests \subseteq JobConfigs
    /\ \A r \in Requests :
          /\ IF IsDirect(r) THEN IsList(r.benchmarks) ELSE r.benchmarks = {}
          /\ r.source # NoJob => IsPostProcessing(r) /\ IsDirect(r)

ASSUME ListsAssumption == \A l \in BenchmarkLists : IsList(l)

Exists(row)     == row.state \in OverallStates
IsTerminal(row) == row.state \in TerminalStates

-----------------------------------------------------------------------------
(* Row functions.  A definition that directly precedes a row function and  *)
(* has its parameters is a mutant of it: the function with a plausible bug, *)
(* kept to show which property notices.                                    *)

\* checkEvaluationJobState: a job in a terminal state accepts no other state.
UpdatableWhenCompleted(row) == row.state \in LiveStates \cup {"completed"}
Updatable(row) == row.state \in LiveStates

\* updateBenchmarkStatus: insert or replace the slot's entry, except that a
\* terminal entry ignores a later non-terminal event.
DowngradedBenchmarkStatus(status, e) == [status EXCEPT ![e.slot] = e.status]
UpdateBenchmarkStatus(status, e) ==
    IF status[e.slot] \in BenchmarkTerminal /\ e.status \notin BenchmarkTerminal
    THEN status
    ELSE [status EXCEPT ![e.slot] = e.status]

\* updateBenchmarkResults, called for terminal events only.
UpdateBenchmarkResults(results, e) ==
    IF e.status \in BenchmarkTerminal
    THEN [results EXCEPT ![e.slot] = [status |-> e.status, tested |-> e.tested]]
    ELSE results

InState(status, st) == {s \in Slots : status[s] = st}

\* getOverallJobStatus: the entries are counted by state, whatever slot they
\* are for, and compared with the length of the job's list as it is now.
EagerOverallStatus(status, list) ==
    LET completed == Cardinality(InState(status, "completed"))
        failed    == Cardinality(InState(status, "failed"))
        total     == Cardinality(list)
    IN  IF completed > 0 /\ completed + failed >= total - 1 THEN "completed"
        ELSE IF failed = total THEN "failed" ELSE "running"
GetOverallJobStatus(status, list) ==
    LET completed == Cardinality(InState(status, "completed"))
        failed    == Cardinality(InState(status, "failed"))
        running   == Cardinality(InState(status, "running"))
        cancelled == Cardinality(InState(status, "cancelled"))
        total     == Cardinality(list)
    IN  IF completed = total                          THEN "completed"
        ELSE IF failed = total                        THEN "failed"
        ELSE IF completed + failed = total            THEN "partially_failed"
        ELSE IF cancelled = total                     THEN "cancelled"
        ELSE IF completed + failed + cancelled = total THEN "partially_failed"
        ELSE IF running + completed + failed + cancelled > 0 THEN "running"
        ELSE "pending"

\* computeJobTestResult: the weighted average runs over the results that have
\* a test section and a position inside the list; without one the test
\* section of the row stays as it was.
StaleJobTestResult(row, list) == row.score
ComputeJobTestResult(row, list) ==
    LET scored == {s \in Slots : row.results[s].tested /\ s[2] < Cardinality(list)}
    IN  IF scored = {} THEN row.score ELSE scored

\* The row UpdateEvaluationJob writes for event e. listRead is the list the
\* event was validated against; list is the one read again for the overall
\* state (the two reads of the collection are separate statements).
ApplyEvent(row, e, listRead, list) ==
    LET reported == [row EXCEPT !.status  = UpdateBenchmarkStatus(@, e),
                                !.results = UpdateBenchmarkResults(@, e)]
        overall  == GetOverallJobStatus(reported.status, list)
    IN  [reported EXCEPT
            !.state = overall,
            !.score = IF overall = "completed"
                      THEN ComputeJobTestResult(reported, listRead)
                      ELSE @]

\* UpdateEvaluationJobStatus: cancelling a job cancels the benchmarks that
\* have reported and are not finished; any other state leaves them alone.
NoCascade(status) == status
CancelBenchmarks(status) ==
    [s \in Slots |-> IF status[s] \in BenchmarkTerminal \cup {"none"}
                     THEN status[s] ELSE "cancelled"]
SetState(row, state) ==
    [row EXCEPT !.state  = state,
                !.status = IF state = "cancelled" THEN CancelBenchmarks(@) ELSE @]

\* UpdateEvaluationJobOCI: eligibility, and the rule that a terminal outcome
\* of the OCI workflow takes no other state.
AnyOCIUpdate(row, state) ==
    row.state \in {"completed", "partially_failed"} /\ row.config.oci
OCIUpdatable(row, state) ==
    /\ row.state \in {"completed", "partially_failed"}
    /\ row.config.oci
    /\ row.oci \in OCITerminal => state = row.oci
SetOCI(row, state, card) ==
    [row EXCEPT !.oci = state, !.card = IF card = NoCard THEN @ ELSE card]

-----------------------------------------------------------------------------
(* What makes a row consistent                                             *)

\* A benchmark has a result exactly when its status entry is completed or
\* failed, and the result has that outcome.
ResultsMatch(row) ==
    \A s \in Slots :
        LET outcome == row.results[s].status IN
        /\ outcome = IF row.status[s] \in {"completed", "failed"}
                     THEN row.status[s] ELSE "none"
        /\ row.results[s].tested => outcome # "none"

\* Cancelled benchmarks are in cancelled jobs, and a cancelled job has no
\* benchmark left that claims to be pending or running.
CancelledWhole(row) ==
    \A s \in Slots :
        /\ row.status[s] = "cancelled" => row.state = "cancelled"
        /\ row.state = "cancelled" => row.status[s] \notin {"pending", "running"}

\* The state of a job with its own list means what it says of the list.
StateMatchesList(row) ==
    LET list      == row.config.benchmarks
        completed == InState(row.status, "completed")
        failed    == InState(row.status, "failed")
    IN  IsDirect(row.config) =>
        /\ \A s \in Slots : row.status[s] # "none" => s \in list
        /\ row.state = "completed" => completed = list
        /\ row.state = "partially_failed" =>
              completed \cup failed = list /\ completed # {} /\ failed # {}
        /\ row.state \in LiveStates => completed \cup failed # list
        /\ row.state = "pending" => completed \cup failed = {}

\* The score of a job with its own list is computed from all its results.
ScoreCovers(row) ==
    IsDirect(row.config) =>
        row.score = IF row.state = "completed"
                    THEN {s \in Slots : row.results[s].tested} ELSE {}

\* The OCI workflow reports only on jobs with exportable results.
ExportFollowsResults(row) ==
    row.oci # "none" => row.state \in {"completed", "partially_failed"}
=============================================================================
