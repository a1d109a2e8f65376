---------------------------- MODULE JobStoreProofs ----------------------------
(***************************************************************************)
(* Proofs about the store and its transactions, for every set of jobs,     *)
(* collections, benchmarks and requests.                                   *)
(***************************************************************************)
EXTENDS LockedJobStore, FiniteSetTheorems, TLAPS

\* Slots, and with them every benchmark list, are finite.
LEMMA SlotsFinite == IsFiniteSet(Slots)
  <1>1. 0 .. MaxBenchmarks - 1 \in SUBSET Int /\ IsFiniteSet(0 .. MaxBenchmarks - 1)
    BY FS_Interval, ConstantsAssumption
  <1>2. QED
    BY <1>1, FS_Product, ConstantsAssumption DEF Slots

\* Whatever it counts, getOverallJobStatus returns an overall state.
LEMMA OverallStatusType ==
  ASSUME NEW status, NEW list
  PROVE  GetOverallJobStatus(status, list) \in OverallStates
  BY DEF GetOverallJobStatus, OverallStates, LiveStates, TerminalStates

\* Merging an event into a row yields a row with the same configuration.
LEMMA ApplyEventType ==
  ASSUME NEW row \in Rows, NEW e \in Events, NEW listRead, NEW list
  PROVE  /\ ApplyEvent(row, e, listRead, list) \in Rows
         /\ ApplyEvent(row, e, listRead, list).config = row.config
  <1> DEFINE st  == UpdateBenchmarkStatus(row.status, e)
             res == UpdateBenchmarkResults(row.results, e)
             rep == [row EXCEPT !.status = st, !.results = res]
             ov  == GetOverallJobStatus(st, list)
             sc  == IF ov = "completed" THEN ComputeJobTestResult(rep, listRead) ELSE row.score
  <1>1. st \in [Slots -> BenchmarkStates \cup {"none"}]
    BY DEF Rows, Events, UpdateBenchmarkStatus, BenchmarkStates
  <1>2. res \in [Slots -> Results]
    BY DEF Rows, Events, UpdateBenchmarkResults, Results, EventStates, BenchmarkTerminal
  <1>3. ov \in OverallStates
    BY OverallStatusType
  <1>4. rep \in Rows /\ rep.status = st /\ rep.config = row.config /\ rep.score = row.score
    BY <1>1, <1>2 DEF Rows
  <1>5. sc \in SUBSET Slots
    BY <1>4 DEF ComputeJobTestResult, Rows
  <1>6. ApplyEvent(row, e, listRead, list) = [rep EXCEPT !.state = ov, !.score = sc]
    BY <1>4 DEF ApplyEvent, Rows
  <1> HIDE DEF st, res, rep, ov, sc
  <1>7. QED
    BY <1>3, <1>4, <1>5, <1>6 DEF Rows

\* A missing row is a row.
LEMMA EmptyRowType == EmptyRow \in Rows
  BY DEF EmptyRow, Rows, EmptyConfig, JobConfigs, NoResult, Results

\* Cancelling, failing, creating, deleting and the OCI update yield rows.
LEMMA RowFunctionsType ==
  ASSUME NEW row \in Rows
  PROVE  /\ \A r \in Requests : NewRow(r) \in Rows
         /\ \A st \in {"cancelled", "failed"} : SetState(row, st) \in Rows
         /\ \A st \in OCIStates, card \in Cards \cup {NoCard} : SetOCI(row, st, card) \in Rows
         /\ [EmptyRow EXCEPT !.state = "deleted", !.config = row.config] \in Rows
  <1>1. EmptyRow \in Rows
    BY EmptyRowType
  <1>2. CancelBenchmarks(row.status) \in [Slots -> BenchmarkStates \cup {"none"}]
    BY DEF CancelBenchmarks, Rows, BenchmarkStates
  <1>3. ASSUME NEW r \in Requests PROVE NewRow(r) \in Rows
    BY <1>1, RequestsAssumption DEF Rows, NewRow, OverallStates, LiveStates
  <1>4. ASSUME NEW st \in {"cancelled", "failed"} PROVE SetState(row, st) \in Rows
    <2>1. st \in OverallStates
      BY DEF OverallStates, TerminalStates
    <2>2. QED
      BY <1>2, <2>1 DEF Rows, SetState
  <1>5. ASSUME NEW st \in OCIStates, NEW card \in Cards \cup {NoCard}
        PROVE  SetOCI(row, st, card) \in Rows
    BY DEF Rows, SetOCI
  <1>6. [EmptyRow EXCEPT !.state = "deleted", !.config = row.config] \in Rows
    BY <1>1 DEF Rows
  <1>7. QED
    BY <1>3, <1>4, <1>5, <1>6

\* The store starts with well-formed tables.
LEMMA StoreInitType ==
  ASSUME StoreInit
  PROVE  TypeOK
  <1>1. EmptyRow \in Rows
    BY EmptyRowType
  <1>2. ASSUME NEW l \in BenchmarkLists
        PROVE  [exists |-> TRUE, list |-> l, runCount |-> 0] \in CollectionRows
    BY DEF CollectionRows
  <1>3. QED
    BY <1>1, <1>2 DEF StoreInit, TypeOK

\* Every operation of the store keeps every row and collection well formed.
LEMMA StoreTypeStep ==
  ASSUME TypeOK, [StoreNext]_storeVars
  PROVE  TypeOK'
  <1> USE DEF TypeOK
  <1>1. ASSUME NEW j \in Jobs, NEW r \in Requests, CreateEvaluationJob(j, r)
        PROVE  TypeOK'
    BY <1>1, RowFunctionsType DEF CreateEvaluationJob
  <1>2. ASSUME NEW j \in Jobs, NEW r \in Requests,
               CreateEvaluationJobAndUpdateCollection(j, r)
        PROVE  TypeOK'
    <2>1. r.collection \in Collections
      BY RequestsAssumption, <1>2
         DEF CreateEvaluationJobAndUpdateCollection, JobConfigs, IsDirect
    <2>2. NextRunCount(r.collection) \in Nat
      BY <2>1 DEF NextRunCount, CollectionRows
    <2>3. QED
      BY <1>2, <2>1, <2>2, RowFunctionsType
         DEF CreateEvaluationJobAndUpdateCollection, CollectionRows
  <1>3. ASSUME NEW j \in Jobs, NEW e \in Events, UpdateEvaluationJob(j, e)
        PROVE  TypeOK'
    BY <1>3, ApplyEventType DEF UpdateEvaluationJob
  <1>4. ASSUME NEW j \in Jobs, NEW st \in {"cancelled", "failed"},
               UpdateEvaluationJobStatus(j, st)
        PROVE  TypeOK'
    BY <1>4, RowFunctionsType DEF UpdateEvaluationJobStatus
  <1>5. ASSUME NEW j \in Jobs, NEW st \in OCIStates, NEW card \in Cards \cup {NoCard},
               UpdateEvaluationJobOCI(j, st, card)
        PROVE  TypeOK'
    BY <1>5, RowFunctionsType DEF UpdateEvaluationJobOCI
  <1>6. ASSUME NEW j \in Jobs, DeleteEvaluationJob(j)
        PROVE  TypeOK'
    BY <1>6, RowFunctionsType DEF DeleteEvaluationJob
  <1>7. ASSUME NEW c \in Collections, NEW l \in BenchmarkLists \cup {{}},
               UpdateCollection(c, l) \/ PatchCollection(c, l)
        PROVE  TypeOK'
    BY <1>7 DEF UpdateCollection, PatchCollection, WithConfig, CollectionRows
  <1>8. ASSUME NEW c \in Collections, DeleteCollection(c)
        PROVE  TypeOK'
    BY <1>8 DEF DeleteCollection, CollectionRows
  <1>9. ASSUME NEW lists \in [SystemCollections -> BenchmarkLists \cup {{}}],
               LoadSystemResources(lists)
        PROVE  TypeOK'
    BY <1>9 DEF LoadSystemResources, SystemCollections, CollectionRows
  <1>10. CASE UNCHANGED storeVars
    BY <1>10 DEF storeVars
  <1>11. QED
    BY <1>1, <1>2, <1>3, <1>4, <1>5, <1>6, <1>7, <1>8, <1>9, <1>10 DEF StoreNext

\* Type correctness: every row and every collection the store serialises is
\* well formed, whatever the sets of jobs, benchmarks and requests.
THEOREM StoreTypeOK == StoreSpec => []TypeOK
  BY StoreInitType, StoreTypeStep, PTL DEF StoreSpec

-----------------------------------------------------------------------------
(* The consistency of rows                                                 *)

\* Without a cancelled entry the counters cannot add up to "cancelled": the
\* list a job is compared with has at least one benchmark.
LEMMA EventsDoNotCancel ==
  ASSUME NEW status, NEW list \in SUBSET Slots, list # {},
         \A s \in Slots : status[s] # "cancelled"
  PROVE  GetOverallJobStatus(status, list) # "cancelled"
  <1>1. InState(status, "cancelled") = {}
    BY DEF InState
  <1>2. Cardinality(InState(status, "cancelled")) = 0
    BY <1>1, FS_EmptySet
  <1>3. Cardinality(list) # 0
    BY SlotsFinite, FS_Subset, FS_EmptySet
  <1>4. QED
    BY <1>2, <1>3 DEF GetOverallJobStatus

\* When every entry is for a slot of the list and none is cancelled, comparing
\* counters with the length of the list is the same as comparing the sets.
LEMMA OverallStatusMeaning ==
  ASSUME NEW status, NEW list \in SUBSET Slots, list # {},
         \A s \in Slots : status[s] # "cancelled",
         \A s \in Slots : status[s] # "none" => s \in list,
         NEW c, c = InState(status, "completed"),
         NEW f, f = InState(status, "failed"),
         NEW st, st = GetOverallJobStatus(status, list)
  PROVE  /\ st = "completed" => c = list
         /\ st = "partially_failed" => c \cup f = list /\ c # {} /\ f # {}
         /\ st \in LiveStates => c \cup f # list
         /\ st = "pending" => c \cup f = {}
  <1> DEFINE cn == Cardinality(c)
             fn == Cardinality(f)
             rn == Cardinality(InState(status, "running"))
             xn == Cardinality(InState(status, "cancelled"))
             n  == Cardinality(list)
  <1>1. c \in SUBSET list /\ f \in SUBSET list /\ c \cap f = {}
    BY DEF InState
  <1>2. IsFiniteSet(list) /\ IsFiniteSet(c) /\ IsFiniteSet(f)
    BY <1>1, SlotsFinite, FS_Subset
  <1>3. cn \in Nat /\ fn \in Nat /\ n \in Nat
    BY <1>2, FS_CardinalityType
  <1>4. IsFiniteSet(InState(status, "running")) /\ rn \in Nat
    BY SlotsFinite, FS_Subset, FS_CardinalityType DEF InState
  <1>5. InState(status, "cancelled") = {}
    BY DEF InState
  <1>6. xn = 0
    BY <1>5, FS_EmptySet
  <1>7. Cardinality(c \cup f) = cn + fn
    <2>1. Cardinality(c \cap f) = 0
      BY <1>1, FS_EmptySet
    <2>2. Cardinality(c \cup f) = cn + fn - Cardinality(c \cap f)
      BY <1>2, FS_Union
    <2>3. QED
      BY <1>3, <2>1, <2>2
  <1>8. cn = n => c = list
    BY <1>1, <1>2, FS_Subset
  <1>9. cn + fn = n <=> c \cup f = list
    <2>1. c \cup f \in SUBSET list
      BY <1>1
    <2>2. Cardinality(list) = Cardinality(c \cup f) => list = c \cup f
      BY <2>1, <1>2, FS_Subset
    <2>3. QED
      BY <2>2, <1>7
  <1>10. (cn = 0 <=> c = {}) /\ (fn = 0 <=> f = {}) /\ n # 0
    BY <1>2, FS_EmptySet
  <1>11. st = IF cn = n THEN "completed"
              ELSE IF fn = n THEN "failed"
              ELSE IF cn + fn = n THEN "partially_failed"
              ELSE IF xn = n THEN "cancelled"
              ELSE IF cn + fn + xn = n THEN "partially_failed"
              ELSE IF rn + cn + fn + xn > 0 THEN "running"
              ELSE "pending"
    BY DEF GetOverallJobStatus
  <1> HIDE DEF cn, fn, rn, xn, n
  <1>12. /\ st = "completed" => cn = n
         /\ st = "partially_failed" => cn + fn = n /\ cn # 0 /\ fn # 0
         /\ st \in LiveStates => cn + fn # n
         /\ st = "pending" => cn = 0 /\ fn = 0
    BY <1>3, <1>4, <1>6, <1>10, <1>11 DEF LiveStates
  <1>13. QED
    BY <1>8, <1>9, <1>10, <1>12

\* The inductive invariant of a row.  The properties rest on one another: the
\* counters mean something only because no entry of a live job is cancelled,
\* and the score is complete only because results follow status entries.
RowOK(row) ==
    /\ row \in Rows
    /\ ResultsMatch(row)
    /\ CancelledWhole(row)
    /\ StateMatchesList(row)
    /\ ScoreCovers(row)
    /\ ExportFollowsResults(row)
    /\ Exists(row) /\ IsDirect(row.config) => IsList(row.config.benchmarks)

\* An event of a benchmark of the job keeps a live row consistent.
LEMMA ApplyEventKeepsRow ==
  ASSUME NEW row, RowOK(row), Updatable(row), NEW e \in Events,
         NEW listRead \in SUBSET Slots, NEW list \in SUBSET Slots, list # {},
         e.slot \in listRead,
         IsDirect(row.config) => listRead = row.config.benchmarks /\ list = listRead
  PROVE  RowOK(ApplyEvent(row, e, listRead, list))
  <1> DEFINE st  == UpdateBenchmarkStatus(row.status, e)
             res == UpdateBenchmarkResults(row.results, e)
             rep == [row EXCEPT !.status = st, !.results = res]
             ov  == GetOverallJobStatus(st, list)
             new == ApplyEvent(row, e, listRead, list)
  <1>1. new \in Rows /\ new.config = row.config
    BY ApplyEventType DEF RowOK
  <1>2. rep.results = res /\ rep.status = st /\ rep.score = row.score
    BY DEF RowOK, Rows
  <1>3. /\ new.state = ov /\ new.status = st /\ new.results = res
        /\ new.score = IF ov = "completed" THEN ComputeJobTestResult(rep, listRead)
                       ELSE row.score
    BY DEF ApplyEvent, RowOK, Rows
  <1>4. \A s \in Slots : row.status[s] # "cancelled"
    BY DEF RowOK, CancelledWhole, Updatable, LiveStates
  <1>5. e.slot \in Slots /\ e.status \in EventStates /\ e.tested \in BOOLEAN
    BY DEF Events
  <1>6. /\ row.status \in [Slots -> BenchmarkStates \cup {"none"}]
        /\ row.results \in [Slots -> Results]
        /\ row.score \in SUBSET Slots
    BY DEF RowOK, Rows
  <1>7. \A s \in Slots : st[s] = IF s = e.slot THEN st[e.slot] ELSE row.status[s]
    BY <1>5, <1>6 DEF UpdateBenchmarkStatus
  <1>8. st[e.slot] \in EventStates
    BY <1>4, <1>5, <1>6 DEF UpdateBenchmarkStatus, EventStates, BenchmarkTerminal
  <1>9. \A s \in Slots : st[s] # "cancelled"
    BY <1>4, <1>7, <1>8 DEF EventStates
  <1>10. ov # "cancelled"
    BY <1>9, EventsDoNotCancel
  <1>11. ResultsMatch(new)
    <2>1. SUFFICES ASSUME NEW s \in Slots
                   PROVE  /\ res[s].status = IF st[s] \in {"completed", "failed"}
                                             THEN st[s] ELSE "none"
                          /\ res[s].tested => res[s].status # "none"
      BY <1>3 DEF ResultsMatch
    <2>2. ResultsMatch(row)
      BY DEF RowOK
    <2>3. CASE s # e.slot
      BY <2>2, <2>3, <1>5, <1>6 DEF ResultsMatch, UpdateBenchmarkStatus, UpdateBenchmarkResults
    <2>4. CASE s = e.slot /\ e.status \in BenchmarkTerminal
      <3>1. st[s] = e.status
        BY <2>4, <1>5, <1>6 DEF UpdateBenchmarkStatus
      <3>2. res[s] = [status |-> e.status, tested |-> e.tested]
        BY <2>4, <1>5, <1>6 DEF UpdateBenchmarkResults
      <3>3. e.status \in {"completed", "failed"}
        BY <2>4, <1>5 DEF EventStates, BenchmarkTerminal
      <3>4. QED
        BY <3>1, <3>2, <3>3
    <2>5. CASE s = e.slot /\ e.status \notin BenchmarkTerminal
      <3>1. res = row.results
        BY <2>5 DEF UpdateBenchmarkResults
      <3>2. st[s] = IF row.status[s] \in BenchmarkTerminal THEN row.status[s] ELSE e.status
        BY <2>5, <1>5, <1>6 DEF UpdateBenchmarkStatus
      <3>3. row.status[s] # "cancelled" /\ e.status \notin {"completed", "failed"}
        BY <2>5, <1>4 DEF BenchmarkTerminal
      <3>4. QED
        BY <2>2, <3>1, <3>2, <3>3 DEF ResultsMatch, BenchmarkTerminal
    <2>6. QED
      BY <2>3, <2>4, <2>5
  <1>12. CancelledWhole(new)
    BY <1>3, <1>9, <1>10 DEF CancelledWhole
  <1>13. ASSUME IsDirect(row.config)
         PROVE  \A s \in Slots : st[s] # "none" => s \in list
    <2>1. \A s \in Slots : row.status[s] # "none" => s \in row.config.benchmarks
      BY <1>13 DEF RowOK, StateMatchesList
    <2>2. QED
      BY <2>1, <1>7, <1>13
  <1>14. StateMatchesList(new)
    <2>1. SUFFICES ASSUME IsDirect(row.config) PROVE StateMatchesList(new)
      BY <1>1 DEF StateMatchesList
    <2>2. list = new.config.benchmarks
      BY <1>1, <2>1
    <2>3. /\ ov = "completed" => InState(st, "completed") = list
          /\ ov = "partially_failed" =>
                /\ InState(st, "completed") \cup InState(st, "failed") = list
                /\ InState(st, "completed") # {} /\ InState(st, "failed") # {}
          /\ ov \in LiveStates =>
                InState(st, "completed") \cup InState(st, "failed") # list
          /\ ov = "pending" => InState(st, "completed") \cup InState(st, "failed") = {}
      BY <1>9, <1>13, <2>1, OverallStatusMeaning
    <2> HIDE DEF st, ov, new
    <2>4. QED
      BY <1>3, <1>13, <2>1, <2>2, <2>3 DEF StateMatchesList
  <1>15. ScoreCovers(new)
    <2>1. SUFFICES ASSUME IsDirect(row.config) PROVE ScoreCovers(new)
      BY <1>1 DEF ScoreCovers
    <2>2. row.score = {}
      BY <2>1 DEF RowOK, ScoreCovers, Updatable, LiveStates
    <2>3. \A s \in Slots : res[s].tested => s \in list
      BY <1>3, <1>11, <1>13, <2>1 DEF ResultsMatch
    <2>4. IsList(listRead) /\ list = listRead
      BY <2>1 DEF RowOK, Updatable, Exists, OverallStates
    <2>5. \A s \in list : s[2] < Cardinality(listRead)
      <3>1. SUFFICES ASSUME NEW s \in list PROVE s[2] < Cardinality(listRead)
        OBVIOUS
      <3>2. s[2] \in 0 .. Cardinality(listRead) - 1
        BY <2>4 DEF IsList
      <3>3. Cardinality(listRead) \in Nat
        BY SlotsFinite, FS_Subset, FS_CardinalityType
      <3>4. QED
        BY <3>2, <3>3
    <2>6. {s \in Slots : res[s].tested /\ s[2] < Cardinality(listRead)}
             = {s \in Slots : res[s].tested}
      BY <2>3, <2>5
    <2>7. ComputeJobTestResult(rep, listRead) = {s \in Slots : res[s].tested}
      BY <1>2, <2>2, <2>6 DEF ComputeJobTestResult
    <2> HIDE DEF st, res, rep, ov, new
    <2>8. QED
      BY <1>3, <2>2, <2>7 DEF ScoreCovers
  <1>16. Exists(new) /\ IsDirect(new.config) => IsList(new.config.benchmarks)
    BY <1>1 DEF RowOK, Updatable, Exists, OverallStates
  <1>17. ExportFollowsResults(new)
    <2>1. row.oci = "none"
      BY DEF RowOK, ExportFollowsResults, Updatable, LiveStates
    <2>2. new.oci = row.oci
      BY DEF ApplyEvent, RowOK, Rows
    <2>3. QED
      BY <2>1, <2>2 DEF ExportFollowsResults
  <1> HIDE DEF st, res, rep, ov, new
  <1>18. RowOK(new)
    BY <1>1, <1>11, <1>12, <1>14, <1>15, <1>16, <1>17 DEF RowOK
  <1>19. QED
    BY <1>18 DEF new

\* A row nothing has been reported to yet is consistent.
LEMMA FreshRowOK ==
  ASSUME NEW r \in Rows,
         r.status = EmptyRow.status, r.results = EmptyRow.results,
         r.score = {}, r.oci = "none",
         r.state \in {"none", "deleted", "pending"},
         r.state = "pending" /\ IsDirect(r.config) => IsList(r.config.benchmarks)
  PROVE  RowOK(r)
  <1>1. \A s \in Slots : r.status[s] = "none" /\ r.results[s] = NoResult
    BY DEF EmptyRow
  <1>2. InState(r.status, "completed") = {} /\ InState(r.status, "failed") = {}
    BY <1>1 DEF InState
  <1>3. ResultsMatch(r)
    BY <1>1 DEF ResultsMatch, NoResult
  <1>4. CancelledWhole(r)
    BY <1>1 DEF CancelledWhole
  <1>5. StateMatchesList(r)
    BY <1>1, <1>2 DEF StateMatchesList, LiveStates, IsList
  <1>6. ScoreCovers(r)
    BY DEF ScoreCovers
  <1>7. Exists(r) => r.state = "pending"
    BY DEF Exists, OverallStates, LiveStates, TerminalStates
  <1>8. QED
    BY <1>3, <1>4, <1>5, <1>6, <1>7 DEF RowOK, ExportFollowsResults

\* So is the row of a job that does not exist.
LEMMA EmptyRowOK == RowOK(EmptyRow)
  <1>1. EmptyRow.score = {} /\ EmptyRow.oci = "none" /\ EmptyRow.state = "none"
    BY DEF EmptyRow
  <1>2. QED
    BY <1>1, EmptyRowType, FreshRowOK

\* Creation, the status update, the OCI update and deletion keep rows
\* consistent.
LEMMA RowFunctionsKeepRow ==
  ASSUME NEW row, RowOK(row)
  PROVE  /\ \A r \in Requests : RowOK(NewRow(r))
         /\ Updatable(row) =>
               \A st \in {"cancelled", "failed"} : RowOK(SetState(row, st))
         /\ \A st \in OCIStates, card \in Cards \cup {NoCard} :
               OCIUpdatable(row, st) => RowOK(SetOCI(row, st, card))
         /\ RowOK([EmptyRow EXCEPT !.state = "deleted", !.config = row.config])
  <1>1. row \in Rows
    BY DEF RowOK
  <1>2. ASSUME NEW r \in Requests PROVE RowOK(NewRow(r))
    <2>1. NewRow(r) \in Rows
      BY <1>1, RowFunctionsType
    <2>2. /\ NewRow(r).status = EmptyRow.status /\ NewRow(r).results = EmptyRow.results
          /\ NewRow(r).score = {} /\ NewRow(r).oci = "none"
          /\ NewRow(r).state = "pending" /\ NewRow(r).config = r
      BY DEF NewRow, EmptyRow
    <2>3. IsDirect(r) => IsList(r.benchmarks)
      BY RequestsAssumption
    <2>4. QED
      BY <2>1, <2>2, <2>3, FreshRowOK
  <1>3. ASSUME Updatable(row), NEW st \in {"cancelled", "failed"}
         PROVE  RowOK(SetState(row, st))
    <2> DEFINE new == SetState(row, st)
    <2>1. new \in Rows
      BY <1>1, <1>3, RowFunctionsType
    <2>2. /\ new.state = st /\ new.results = row.results /\ new.config = row.config
          /\ new.score = row.score /\ new.oci = row.oci
          /\ new.status = IF st = "cancelled" THEN CancelBenchmarks(row.status) ELSE row.status
      BY <1>1 DEF SetState, Rows
    <2>3. \A s \in Slots : row.status[s] # "cancelled"
      BY <1>3 DEF RowOK, CancelledWhole, Updatable, LiveStates
    <2>4. row.status \in [Slots -> BenchmarkStates \cup {"none"}]
      BY <1>1 DEF Rows
    <2>5. \A s \in Slots :
            /\ new.status[s] = row.status[s] \/ new.status[s] = "cancelled"
            /\ new.status[s] = "none" <=> row.status[s] = "none"
            /\ \A o \in {"completed", "failed"} : new.status[s] = o <=> row.status[s] = o
            /\ st = "cancelled" => new.status[s] \notin {"pending", "running"}
            /\ st # "cancelled" => new.status[s] = row.status[s]
      BY <2>2, <2>4 DEF CancelBenchmarks, BenchmarkTerminal, BenchmarkStates, EventStates
    <2> HIDE DEF new
    <2>6. ResultsMatch(new)
      BY <2>2, <2>5 DEF RowOK, ResultsMatch
    <2>7. CancelledWhole(new)
      BY <2>2, <2>3, <2>5 DEF CancelledWhole
    <2>8. StateMatchesList(new)
      <3>1. st \notin {"completed", "partially_failed", "pending"} \cup LiveStates
        BY DEF LiveStates
      <3>2. StateMatchesList(row)
        BY DEF RowOK
      <3>3. IsDirect(new.config) =>
               \A s \in Slots : new.status[s] # "none" => s \in new.config.benchmarks
        BY <2>2, <2>5, <3>2 DEF StateMatchesList
      <3>4. QED
        BY <2>2, <3>1, <3>3 DEF StateMatchesList
    <2>9. ScoreCovers(new)
      BY <1>3, <2>2 DEF RowOK, ScoreCovers, Updatable, LiveStates
    <2>10. IsDirect(new.config) => IsList(new.config.benchmarks)
      BY <1>3, <2>2 DEF RowOK, Updatable, Exists, OverallStates
    <2>11. ExportFollowsResults(new)
      BY <1>3, <2>2 DEF RowOK, ExportFollowsResults, Updatable, LiveStates
    <2>12. RowOK(new)
      BY <2>1, <2>6, <2>7, <2>8, <2>9, <2>10, <2>11 DEF RowOK
    <2>13. QED
      BY <2>12 DEF new
  <1>4. ASSUME NEW st \in OCIStates, NEW card \in Cards \cup {NoCard},
               OCIUpdatable(row, st)
        PROVE  RowOK(SetOCI(row, st, card))
    <2> DEFINE new == SetOCI(row, st, card)
    <2>1. new \in Rows
      BY <1>1, RowFunctionsType
    <2>2. /\ new.state = row.state /\ new.status = row.status /\ new.results = row.results
          /\ new.score = row.score /\ new.config = row.config
      BY <1>1 DEF SetOCI, Rows
    <2> HIDE DEF new
    <2>3. RowOK(new)
      BY <1>4, <2>1, <2>2 DEF RowOK, ResultsMatch, CancelledWhole, StateMatchesList,
                              ScoreCovers, ExportFollowsResults, OCIUpdatable, Exists
    <2>4. QED
      BY <2>3 DEF new
  <1>5. RowOK([EmptyRow EXCEPT !.state = "deleted", !.config = row.config])
    <2> DEFINE new == [EmptyRow EXCEPT !.state = "deleted", !.config = row.config]
    <2>1. new \in Rows
      BY <1>1, RowFunctionsType
    <2>2. /\ new.status = EmptyRow.status /\ new.results = EmptyRow.results
          /\ new.score = {} /\ new.oci = "none" /\ new.state = "deleted"
      BY DEF EmptyRow
    <2> HIDE DEF new
    <2>3. RowOK(new)
      BY <2>1, <2>2, FreshRowOK
    <2>4. QED
      BY <2>3 DEF new
  <1>6. QED
    BY <1>2, <1>3, <1>4, <1>5

\* Every benchmark list the store reads is a set of slots.
LEMMA ListsAreSlots ==
  ASSUME TypeOK, NEW row \in Rows
  PROVE  /\ JobBenchmarks(row.config) \in SUBSET Slots
         /\ \A l \in ListsRead(row.config) : l \in SUBSET Slots
         /\ IsDirect(row.config) =>
               /\ JobBenchmarks(row.config) = row.config.benchmarks
               /\ ListsRead(row.config) = {row.config.benchmarks}
  <1>1. row.config.benchmarks \in SUBSET Slots /\ row.config \in JobConfigs
    BY DEF Rows, JobConfigs
  <1>2. \A l \in BenchmarkLists : l \in SUBSET Slots
    BY ListsAssumption DEF IsList
  <1>3. ~IsDirect(row.config) => row.config.collection \in Collections
    BY <1>1 DEF JobConfigs, IsDirect
  <1>4. \A c \in Collections : collections[c].list \in SUBSET Slots
    BY <1>2 DEF TypeOK, CollectionRows
  <1>5. QED
    BY <1>1, <1>2, <1>3, <1>4 DEF JobBenchmarks, ListsRead

RowsOK == \A j \in Jobs : RowOK(jobs[j])

\* The inductive invariant holds in every state of the store.
THEOREM StoreRowsOK == StoreSpec => []RowsOK
  <1>1. StoreInit => RowsOK
    BY EmptyRowOK DEF StoreInit, RowsOK
  <1>2. TypeOK /\ RowsOK /\ [StoreNext]_storeVars => RowsOK'
    <2> SUFFICES ASSUME TypeOK, RowsOK, [StoreNext]_storeVars PROVE RowsOK'
      OBVIOUS
    <2>0. ASSUME NEW j \in Jobs, NEW row, RowOK(row), jobs' = [jobs EXCEPT ![j] = row]
          PROVE  RowsOK'
      BY <2>0 DEF RowsOK, TypeOK
    <2>1. ASSUME NEW j \in Jobs, NEW r \in Requests,
                 CreateEvaluationJob(j, r) \/ CreateEvaluationJobAndUpdateCollection(j, r)
          PROVE  RowsOK'
      <3>1. RowOK(NewRow(r))
        BY RowFunctionsKeepRow DEF RowsOK
      <3>2. QED
        BY <2>0, <2>1, <3>1 DEF CreateEvaluationJob, CreateEvaluationJobAndUpdateCollection
    <2>2. ASSUME NEW j \in Jobs, NEW e \in Events, UpdateEvaluationJob(j, e)
          PROVE  RowsOK'
      <3> DEFINE list == JobBenchmarks(jobs[j].config)
      <3>1. RowOK(jobs[j]) /\ jobs[j] \in Rows
        BY DEF RowsOK, TypeOK
      <3>2. PICK listRead \in ListsRead(jobs[j].config) :
                /\ e.slot \in listRead
                /\ jobs' = [jobs EXCEPT ![j] = ApplyEvent(jobs[j], e, listRead, list)]
        BY <2>2 DEF UpdateEvaluationJob
      <3>3. Updatable(jobs[j]) /\ list # {}
        BY <2>2 DEF UpdateEvaluationJob
      <3>4. /\ list \in SUBSET Slots /\ listRead \in SUBSET Slots
            /\ IsDirect(jobs[j].config) => listRead = jobs[j].config.benchmarks /\ list = listRead
        BY <3>1, <3>2, ListsAreSlots
      <3> HIDE DEF list
      <3>5. RowOK(ApplyEvent(jobs[j], e, listRead, list))
        BY <3>1, <3>2, <3>3, <3>4, ApplyEventKeepsRow
      <3>6. QED
        BY <2>0, <3>2, <3>5
    <2>3. ASSUME NEW j \in Jobs, NEW st \in {"cancelled", "failed"},
                 UpdateEvaluationJobStatus(j, st)
          PROVE  RowsOK'
      <3>1. RowOK(SetState(jobs[j], st))
        BY <2>3, RowFunctionsKeepRow DEF RowsOK, UpdateEvaluationJobStatus
      <3>2. QED
        BY <2>0, <2>3, <3>1 DEF UpdateEvaluationJobStatus
    <2>4. ASSUME NEW j \in Jobs, NEW st \in OCIStates, NEW card \in Cards \cup {NoCard},
                 UpdateEvaluationJobOCI(j, st, card)
          PROVE  RowsOK'
      <3>1. RowOK(SetOCI(jobs[j], st, card))
        BY <2>4, RowFunctionsKeepRow DEF RowsOK, UpdateEvaluationJobOCI
      <3>2. QED
        BY <2>0, <2>4, <3>1 DEF UpdateEvaluationJobOCI
    <2>5. ASSUME NEW j \in Jobs, DeleteEvaluationJob(j)
          PROVE  RowsOK'
      <3>1. RowOK([EmptyRow EXCEPT !.state = "deleted", !.config = jobs[j].config])
        BY RowFunctionsKeepRow DEF RowsOK
      <3>2. QED
        BY <2>0, <2>5, <3>1 DEF DeleteEvaluationJob
    <2>6. ASSUME UNCHANGED jobs
          PROVE  RowsOK'
      BY <2>6 DEF RowsOK
    <2>7. ASSUME NEW c, NEW l,
                 \/ UpdateCollection(c, l) \/ PatchCollection(c, l)
                 \/ DeleteCollection(c) \/ LoadSystemResources(l)
          PROVE  RowsOK'
      BY <2>6, <2>7 DEF UpdateCollection, PatchCollection, DeleteCollection,
                        LoadSystemResources
    <2>8. CASE UNCHANGED storeVars
      BY <2>6, <2>8 DEF storeVars
    <2>9. QED
      BY <2>1, <2>2, <2>3, <2>4, <2>5, <2>7, <2>8 DEF StoreNext
  <1>3. QED
    BY <1>1, <1>2, StoreTypeOK, PTL DEF StoreSpec

\* In every state of the store, whatever the sets of jobs and benchmarks:
\* results follow status entries (updateBenchmarkResults beside
\* updateBenchmarkStatus).
THEOREM StoreResultsMatchStatus == StoreSpec => []ResultsMatchStatus
  <1>1. RowsOK => ResultsMatchStatus
    BY DEF RowsOK, RowOK, ResultsMatchStatus
  <1>2. QED
    BY <1>1, StoreRowsOK, PTL

\* In every state of the store: the counters of getOverallJobStatus give a
\* direct job the state its benchmarks are in.
THEOREM StoreOverallState == StoreSpec => []OverallStateMatchesBenchmarks
  <1>1. RowsOK => OverallStateMatchesBenchmarks
    BY DEF RowsOK, RowOK, OverallStateMatchesBenchmarks
  <1>2. QED
    BY <1>1, StoreRowsOK, PTL

\* In every state of the store: cancelled benchmarks are exactly those the
\* cascade of UpdateEvaluationJobStatus found unfinished.
THEOREM StoreCancelledTogether == StoreSpec => []CancelledTogether
  <1>1. RowsOK => CancelledTogether
    BY DEF RowsOK, RowOK, CancelledTogether
  <1>2. QED
    BY <1>1, StoreRowsOK, PTL

\* In every state of the store: the score of a completed direct job averages
\* all and only its tested results (computeJobTestResult).
THEOREM StoreScoreCoversResults == StoreSpec => []ScoreCoversResults
  <1>1. RowsOK => ScoreCoversResults
    BY DEF RowsOK, RowOK, ScoreCoversResults
  <1>2. QED
    BY <1>1, StoreRowsOK, PTL

-----------------------------------------------------------------------------
(* What steps may not do                                                   *)

\* No step writes a finished row, except to delete it.
LEMMA FinishedRowStep ==
  ASSUME TypeOK, RowsOK, [StoreNext]_storeVars, NEW j \in Jobs
  PROVE  /\ KeepsTerminal(j)
         /\ KeepsOutcome(j)
         /\ Exists(jobs[j]) => jobs'[j].config = jobs[j].config
         /\ Exists(jobs[j]) => jobs'[j].state # "none"
         /\ jobs[j].state = "deleted" => jobs'[j] = jobs[j]
  <1> DEFINE Goal == /\ KeepsTerminal(j)
                     /\ KeepsOutcome(j)
                     /\ Exists(jobs[j]) => jobs'[j].config = jobs[j].config
                     /\ Exists(jobs[j]) => jobs'[j].state # "none"
                     /\ jobs[j].state = "deleted" => jobs'[j] = jobs[j]
  <1>1. jobs[j] \in Rows
    BY DEF TypeOK
  <1>2. /\ LiveStates \cap TerminalStates = {} /\ OCITerminal \subseteq OCIStates
        /\ OverallStates = LiveStates \cup TerminalStates
        /\ "none" \notin OverallStates /\ "deleted" \notin OverallStates
    BY DEF LiveStates, TerminalStates, OCITerminal, OCIStates, OverallStates
  <1>3. ASSUME jobs'[j] = jobs[j] PROVE Goal
    BY <1>2, <1>3 DEF KeepsTerminal, KeepsOutcome, Exists
  <1>4. ASSUME NEW row \in Rows, jobs' = [jobs EXCEPT ![j] = row],
               Updatable(jobs[j]), row.config = jobs[j].config, row.oci = jobs[j].oci,
               row.state \in OverallStates
        PROVE  Goal
    BY <1>2, <1>4 DEF KeepsTerminal, KeepsOutcome, Exists, IsTerminal, Updatable, TypeOK
  <1>5. ASSUME NEW i \in Jobs, NEW row, jobs' = [jobs EXCEPT ![i] = row], i # j
        PROVE  Goal
    BY <1>3, <1>5 DEF TypeOK
  <1>6. ASSUME NEW i \in Jobs, NEW r \in Requests,
               CreateEvaluationJob(i, r) \/ CreateEvaluationJobAndUpdateCollection(i, r)
        PROVE  Goal
    <2>1. jobs' = [jobs EXCEPT ![i] = NewRow(r)] /\ jobs[i].state = "none"
      BY <1>6 DEF CreateEvaluationJob, CreateEvaluationJobAndUpdateCollection
    <2>2. CASE i = j
      <3>1. ~IsTerminal(jobs[j]) /\ ~Exists(jobs[j])
        BY <1>2, <2>1, <2>2 DEF IsTerminal, Exists
      <3>2. jobs[j].oci \notin OCITerminal
        BY <2>1, <2>2 DEF RowsOK, RowOK, ExportFollowsResults, OCITerminal
      <3>3. QED
        BY <2>1, <2>2, <3>1, <3>2 DEF KeepsTerminal, KeepsOutcome
    <2>3. QED
      BY <1>5, <2>1, <2>2
  <1>7. ASSUME NEW i \in Jobs, NEW e \in Events, UpdateEvaluationJob(i, e)
        PROVE  Goal
    <2>1. PICK listRead, list :
              /\ jobs' = [jobs EXCEPT ![i] = ApplyEvent(jobs[i], e, listRead, list)]
              /\ Updatable(jobs[i])
      BY <1>7 DEF UpdateEvaluationJob
    <2>2. CASE i = j
      <3> DEFINE row == ApplyEvent(jobs[j], e, listRead, list)
      <3>1. row \in Rows /\ row.config = jobs[j].config
        BY <1>1, ApplyEventType
      <3>2. row.oci = jobs[j].oci /\ row.state \in OverallStates
        BY <1>1, OverallStatusType DEF ApplyEvent, Rows
      <3>3. QED
        BY <1>4, <2>1, <2>2, <3>1, <3>2
    <2>3. QED
      BY <1>5, <2>1, <2>2
  <1>8. ASSUME NEW i \in Jobs, NEW st \in {"cancelled", "failed"},
               UpdateEvaluationJobStatus(i, st)
        PROVE  Goal
    <2>1. jobs' = [jobs EXCEPT ![i] = SetState(jobs[i], st)] /\ Updatable(jobs[i])
      BY <1>8 DEF UpdateEvaluationJobStatus
    <2>2. CASE i = j
      <3>1. SetState(jobs[j], st) \in Rows
        BY <1>1, RowFunctionsType
      <3>2. /\ SetState(jobs[j], st).config = jobs[j].config
            /\ SetState(jobs[j], st).oci = jobs[j].oci
            /\ SetState(jobs[j], st).state \in OverallStates
        BY <1>1 DEF SetState, Rows, OverallStates, TerminalStates
      <3>3. QED
        BY <1>4, <2>1, <2>2, <3>1, <3>2
    <2>3. QED
      BY <1>5, <2>1, <2>2
  <1>9. ASSUME NEW i \in Jobs, NEW st \in OCIStates, NEW card \in Cards \cup {NoCard},
               UpdateEvaluationJobOCI(i, st, card)
        PROVE  Goal
    <2>1. jobs' = [jobs EXCEPT ![i] = SetOCI(jobs[i], st, card)] /\ OCIUpdatable(jobs[i], st)
      BY <1>9 DEF UpdateEvaluationJobOCI
    <2>2. CASE i = j
      <3> DEFINE row == SetOCI(jobs[j], st, card)
      <3>1. /\ row.state = jobs[j].state /\ row.status = jobs[j].status
            /\ row.results = jobs[j].results /\ row.score = jobs[j].score
            /\ row.config = jobs[j].config /\ row.oci = st
        BY <1>1 DEF SetOCI, Rows
      <3>2. jobs'[j] = row
        BY <2>1, <2>2 DEF TypeOK
      <3>3. /\ jobs[j].oci \in OCITerminal => st = jobs[j].oci
            /\ jobs[j].state \in {"completed", "partially_failed"}
        BY <2>1, <2>2 DEF OCIUpdatable
      <3> HIDE DEF row
      <3>4. QED
        BY <1>2, <3>1, <3>2, <3>3 DEF KeepsTerminal, KeepsOutcome
    <2>3. QED
      BY <1>5, <2>1, <2>2
  <1>10. ASSUME NEW i \in Jobs, DeleteEvaluationJob(i)
         PROVE  Goal
    <2> DEFINE row == [EmptyRow EXCEPT !.state = "deleted", !.config = jobs[i].config]
    <2>1. jobs' = [jobs EXCEPT ![i] = row] /\ Exists(jobs[i])
      BY <1>10 DEF DeleteEvaluationJob
    <2>2. CASE i = j
      <3>1. row.state = "deleted" /\ row.config = jobs[j].config
        BY <2>2 DEF EmptyRow
      <3>2. jobs'[j] = row
        BY <2>1, <2>2 DEF TypeOK
      <3> HIDE DEF row
      <3>3. QED
        BY <1>2, <2>1, <2>2, <3>1, <3>2 DEF KeepsTerminal, KeepsOutcome, Exists
    <2> HIDE DEF row
    <2>3. QED
      BY <1>5, <2>1, <2>2
  <1>11. ASSUME NEW c, NEW l,
                \/ UpdateCollection(c, l) \/ PatchCollection(c, l)
                \/ DeleteCollection(c) \/ LoadSystemResources(l)
         PROVE  Goal
    BY <1>3, <1>11 DEF UpdateCollection, PatchCollection, DeleteCollection,
                       LoadSystemResources
  <1>12. ASSUME UNCHANGED storeVars
         PROVE  Goal
    BY <1>3, <1>12 DEF storeVars
  <1> HIDE DEF Goal
  <1>13. Goal
    BY <1>6, <1>7, <1>8, <1>9, <1>10, <1>11, <1>12 DEF StoreNext
  <1>14. QED
    BY <1>13 DEF Goal

\* For every set of jobs and benchmarks: no late event, cancellation or runtime
\* failure changes a finished job (checkEvaluationJobState).
THEOREM StoreTerminalJobIsFinal == StoreSpec => TerminalJobIsFinal
  <1>1. TypeOK /\ RowsOK /\ [StoreNext]_storeVars => [\A j \in Jobs : KeepsTerminal(j)]_storeVars
    BY FinishedRowStep
  <1>2. QED
    BY <1>1, StoreTypeOK, StoreRowsOK, PTL DEF StoreSpec, TerminalJobIsFinal

\* For every set of jobs: the OCI workflow reports only on exportable results
\* and its terminal outcome stays (UpdateEvaluationJobOCI).
THEOREM StoreOCIOutcomeFinal == StoreSpec => OCIOutcomeFinal
  <1>1. TypeOK /\ RowsOK /\ RowsOK' /\ [StoreNext]_storeVars =>
           [\A j \in Jobs : ExportFollowsResults(jobs[j])' /\ KeepsOutcome(j)]_storeVars
    <2> SUFFICES ASSUME TypeOK, RowsOK, RowsOK', [StoreNext]_storeVars
                 PROVE  \A j \in Jobs : ExportFollowsResults(jobs[j])' /\ KeepsOutcome(j)
      OBVIOUS
    <2>1. \A j \in Jobs : ExportFollowsResults(jobs[j])'
      BY DEF RowsOK, RowOK
    <2>2. QED
      BY <2>1, FinishedRowStep
  <1>2. QED
    BY <1>1, StoreTypeOK, StoreRowsOK, PTL DEF StoreSpec, OCIOutcomeFinal

\* A job comes into existence only by being created from a request, with a
\* valid source if it has one.
LEMMA CreationStep ==
  ASSUME TypeOK, [StoreNext]_storeVars, NEW j \in Jobs,
         ~Exists(jobs[j]), Exists(jobs'[j])
  PROVE  \E r \in Requests : jobs'[j] = NewRow(r) /\ ValidSource(r)
  <1> DEFINE Goal == \E r \in Requests : jobs'[j] = NewRow(r) /\ ValidSource(r)
  <1>1. jobs'[j] # jobs[j]
    OBVIOUS
  <1>2. ASSUME NEW i \in Jobs, NEW row, jobs' = [jobs EXCEPT ![i] = row]
        PROVE  i = j
    BY <1>1, <1>2 DEF TypeOK
  <1>3. ASSUME NEW i \in Jobs, NEW r \in Requests, CreateEvaluationJob(i, r)
        PROVE  Goal
    BY <1>2, <1>3 DEF CreateEvaluationJob, TypeOK
  <1>4. ASSUME NEW i \in Jobs, NEW r \in Requests,
               CreateEvaluationJobAndUpdateCollection(i, r)
        PROVE  Goal
    <2>1. ValidSource(r)
      BY <1>4, RequestsAssumption DEF CreateEvaluationJobAndUpdateCollection, ValidSource
    <2>2. QED
      BY <1>2, <1>4, <2>1 DEF CreateEvaluationJobAndUpdateCollection, TypeOK
  <1>5. \A row : Updatable(row) => Exists(row)
    BY DEF Updatable, Exists, OverallStates
  <1>6. ASSUME NEW i \in Jobs, NEW e \in Events, UpdateEvaluationJob(i, e) PROVE FALSE
    BY <1>2, <1>5, <1>6 DEF UpdateEvaluationJob
  <1>7. ASSUME NEW i \in Jobs, NEW st, UpdateEvaluationJobStatus(i, st) PROVE FALSE
    BY <1>2, <1>5, <1>7 DEF UpdateEvaluationJobStatus
  <1>8. ASSUME NEW i \in Jobs, NEW st, NEW card, UpdateEvaluationJobOCI(i, st, card)
        PROVE  FALSE
    <2>1. Exists(jobs[i])
      BY <1>8 DEF UpdateEvaluationJobOCI, OCIUpdatable, Exists, OverallStates, TerminalStates
    <2>2. QED
      BY <1>2, <1>8, <2>1 DEF UpdateEvaluationJobOCI
  <1>9. ASSUME NEW i \in Jobs, DeleteEvaluationJob(i) PROVE FALSE
    BY <1>2, <1>9 DEF DeleteEvaluationJob
  <1>10. ASSUME NEW c, NEW l,
                \/ UpdateCollection(c, l) \/ PatchCollection(c, l)
                \/ DeleteCollection(c) \/ LoadSystemResources(l)
         PROVE  FALSE
    BY <1>1, <1>10 DEF UpdateCollection, PatchCollection, DeleteCollection,
                       LoadSystemResources
  <1>11. ~UNCHANGED storeVars
    BY <1>1 DEF storeVars
  <1> HIDE DEF Goal
  <1>12. Goal
    BY <1>3, <1>4, <1>6, <1>7, <1>8, <1>9, <1>10, <1>11 DEF StoreNext
  <1>13. QED
    BY <1>12 DEF Goal

\* For every set of jobs: a post-processing job's source stays completed until
\* it is deleted, so the check at its completion
\* (validatePostProcessingSourceCompletion) is never the one to fail it.
THEOREM StoreSourceStaysCompleted == StoreSpec => []SourceStaysCompleted
  <1>1. StoreInit => SourceStaysCompleted
    <2>1. ~Exists(EmptyRow)
      BY DEF EmptyRow, Exists, OverallStates, LiveStates, TerminalStates
    <2>2. QED
      BY <2>1 DEF StoreInit, SourceStaysCompleted
  <1>2. TypeOK /\ TypeOK' /\ RowsOK /\ SourceStaysCompleted /\ [StoreNext]_storeVars
           => SourceStaysCompleted'
    <2> SUFFICES ASSUME TypeOK, TypeOK', RowsOK, SourceStaysCompleted, [StoreNext]_storeVars,
                        NEW j \in Jobs, Exists(jobs'[j]), jobs'[j].config.source # NoJob
                 PROVE  jobs'[jobs'[j].config.source].state \in {"completed", "deleted"}
      BY DEF SourceStaysCompleted
    <2> DEFINE s == jobs'[j].config.source
    <2>1. s \in Jobs
      BY DEF TypeOK, Rows, JobConfigs
    <2>2. ASSUME jobs[s].state \in {"completed", "deleted"}
          PROVE  jobs'[s].state \in {"completed", "deleted"}
      BY <2>1, <2>2, FinishedRowStep DEF KeepsTerminal, IsTerminal, TerminalStates
    <2>3. CASE Exists(jobs[j])
      <3>1. jobs'[j].config = jobs[j].config
        BY <2>3, FinishedRowStep
      <3>2. QED
        BY <2>2, <2>3, <3>1 DEF SourceStaysCompleted
    <2>4. CASE ~Exists(jobs[j])
      <3>1. PICK r \in Requests : jobs'[j] = NewRow(r) /\ ValidSource(r)
        BY <2>4, CreationStep
      <3>2. jobs'[j].config = r
        BY <3>1 DEF NewRow, EmptyRow
      <3>3. jobs[s].state \in {"completed", "deleted"}
        BY <3>1, <3>2 DEF ValidSource
      <3>4. QED
        BY <2>2, <3>3
    <2>5. QED
      BY <2>3, <2>4
  <1>3. QED
    BY <1>1, <1>2, StoreTypeOK, StoreRowsOK, PTL DEF StoreSpec

-----------------------------------------------------------------------------
(* Run counts                                                              *)

\* The strengthening of RunCountExact: unused ids name no collection, and only
\* finitely many jobs have been created.
RunsOK ==
    /\ \A j \in Jobs : jobs[j].state = "none" => jobs[j].config = EmptyConfig
    /\ \A c \in Collections : IsFiniteSet(RunsOf(c))
    /\ RunCountExact

\* A step that creates a job.
Creates ==
    \E j \in Jobs, r \in Requests :
        CreateEvaluationJob(j, r) \/ CreateEvaluationJobAndUpdateCollection(j, r)

ConfigsKept ==
    /\ \A j \in Jobs : /\ jobs'[j].config = jobs[j].config
                       /\ jobs'[j].state = "none" => jobs[j].state = "none"
    /\ \A c \in Collections : collections'[c].runCount = collections[c].runCount

\* A step that creates no job changes neither the configuration of a row nor
\* a run count.
LEMMA OtherSteps ==
  ASSUME TypeOK, RunsOK, [StoreNext]_storeVars, ~Creates
  PROVE  ConfigsKept
  <1>1. ASSUME NEW i \in Jobs, NEW row, row.config = jobs[i].config, row.state # "none",
               jobs' = [jobs EXCEPT ![i] = row], UNCHANGED collections
        PROVE  ConfigsKept
    BY <1>1 DEF TypeOK, ConfigsKept
  <1>2. ASSUME NEW i \in Jobs, NEW e \in Events, UpdateEvaluationJob(i, e)
        PROVE  ConfigsKept
    <2>1. PICK listRead, list :
              /\ jobs' = [jobs EXCEPT ![i] = ApplyEvent(jobs[i], e, listRead, list)]
              /\ UNCHANGED collections
      BY <1>2 DEF UpdateEvaluationJob
    <2>2. ApplyEvent(jobs[i], e, listRead, list).config = jobs[i].config
      BY ApplyEventType DEF TypeOK
    <2>3. ApplyEvent(jobs[i], e, listRead, list).state # "none"
      BY OverallStatusType DEF ApplyEvent, TypeOK, Rows, OverallStates, LiveStates, TerminalStates
    <2>4. QED
      BY <1>1, <2>1, <2>2, <2>3
  <1>3. ASSUME NEW i \in Jobs, NEW st \in {"cancelled", "failed"},
               UpdateEvaluationJobStatus(i, st)
        PROVE  ConfigsKept
    <2>1. SetState(jobs[i], st).config = jobs[i].config /\ SetState(jobs[i], st).state # "none"
      BY DEF SetState, TypeOK, Rows
    <2>2. QED
      BY <1>1, <1>3, <2>1 DEF UpdateEvaluationJobStatus
  <1>4. ASSUME NEW i \in Jobs, NEW st \in OCIStates, NEW card \in Cards \cup {NoCard},
               UpdateEvaluationJobOCI(i, st, card)
        PROVE  ConfigsKept
    <2>1. /\ SetOCI(jobs[i], st, card).config = jobs[i].config
          /\ SetOCI(jobs[i], st, card).state = jobs[i].state
      BY DEF SetOCI, TypeOK, Rows
    <2>2. jobs[i].state # "none"
      BY <1>4 DEF UpdateEvaluationJobOCI, OCIUpdatable
    <2>3. QED
      BY <1>1, <1>4, <2>1, <2>2 DEF UpdateEvaluationJobOCI
  <1>5. ASSUME NEW i \in Jobs, DeleteEvaluationJob(i)
        PROVE  ConfigsKept
    <2> DEFINE row == [EmptyRow EXCEPT !.state = "deleted", !.config = jobs[i].config]
    <2>1. row.config = jobs[i].config /\ row.state # "none"
      BY DEF EmptyRow
    <2>2. jobs' = [jobs EXCEPT ![i] = row] /\ UNCHANGED collections
      BY <1>5 DEF DeleteEvaluationJob
    <2> HIDE DEF row
    <2>3. QED
      BY <1>1, <2>1, <2>2
  <1>6. ASSUME NEW c \in Collections, NEW l,
               UpdateCollection(c, l) \/ PatchCollection(c, l) \/ DeleteCollection(c)
        PROVE  ConfigsKept
    BY <1>6 DEF UpdateCollection, PatchCollection, DeleteCollection, WithConfig, TypeOK,
                CollectionRows, ConfigsKept
  <1>7. ASSUME NEW lists, LoadSystemResources(lists)
        PROVE  ConfigsKept
    BY <1>7 DEF LoadSystemResources, SystemCollections, ConfigsKept, RunsOK, RunCountExact
  <1>8. ASSUME UNCHANGED storeVars
        PROVE  ConfigsKept
    BY <1>8 DEF storeVars, ConfigsKept
  <1>9. QED
    BY <1>2, <1>3, <1>4, <1>5, <1>6, <1>7, <1>8 DEF StoreNext, Creates

\* For every set of jobs and collections: the run count of a collection is the
\* number of jobs created from it (CreateEvaluationJobAndUpdateCollection
\* against UpdateCollection, PatchCollection and deletions).
THEOREM StoreRunCountExact == StoreSpec => []RunCountExact
  <1>1. StoreInit => RunsOK
    <2> SUFFICES ASSUME StoreInit PROVE RunsOK
      OBVIOUS
    <2>1. \A j \in Jobs : jobs[j].config = EmptyConfig
      BY DEF StoreInit, EmptyRow
    <2>2. \A c \in Collections : RunsOf(c) = {}
      BY <2>1, ConstantsAssumption DEF RunsOf, EmptyConfig
    <2>3. \A c \in Collections : collections[c].runCount = 0
      BY DEF StoreInit
    <2>4. QED
      BY <2>1, <2>2, <2>3, FS_EmptySet DEF RunsOK, RunCountExact
  <1>2. TypeOK /\ RunsOK /\ [StoreNext]_storeVars => RunsOK'
    <2> SUFFICES ASSUME TypeOK, RunsOK, [StoreNext]_storeVars PROVE RunsOK'
      OBVIOUS
    <2>1. ASSUME NEW j \in Jobs, NEW r \in Requests, jobs[j].state = "none",
                 jobs' = [jobs EXCEPT ![j] = NewRow(r)]
          PROVE  /\ \A i \in Jobs : jobs'[i].state = "none" => jobs'[i].config = EmptyConfig
                 /\ \A c \in Collections :
                       RunsOf(c)' = IF r.collection = c THEN RunsOf(c) \cup {j} ELSE RunsOf(c)
                 /\ \A c \in Collections : j \notin RunsOf(c)
      <3>1. NewRow(r).config = r /\ NewRow(r).state # "none"
        BY DEF NewRow, EmptyRow
      <3>2. jobs[j].config.collection = NoCollection
        BY <2>1 DEF RunsOK, EmptyConfig
      <3>3. QED
        BY <2>1, <3>1, <3>2, ConstantsAssumption DEF RunsOK, RunsOf, TypeOK
    <2>2. ASSUME NEW j \in Jobs, NEW r \in Requests, CreateEvaluationJob(j, r)
          PROVE  RunsOK'
      <3>1. r.collection \notin Collections /\ jobs[j].state = "none"
            /\ jobs' = [jobs EXCEPT ![j] = NewRow(r)] /\ collections' = collections
        BY <2>2, ConstantsAssumption DEF CreateEvaluationJob, IsDirect
      <3>2. \A c \in Collections : RunsOf(c)' = RunsOf(c)
        BY <2>1, <3>1
      <3>3. QED
        BY <2>1, <3>1, <3>2 DEF RunsOK, RunCountExact
    <2>3. ASSUME NEW j \in Jobs, NEW r \in Requests,
                 CreateEvaluationJobAndUpdateCollection(j, r)
          PROVE  RunsOK'
      <3>1. jobs[j].state = "none" /\ jobs' = [jobs EXCEPT ![j] = NewRow(r)]
        BY <2>3 DEF CreateEvaluationJobAndUpdateCollection
      <3>2. \A c \in Collections :
               collections'[c].runCount = IF r.collection = c THEN NextRunCount(c)
                                          ELSE collections[c].runCount
        BY <2>3 DEF CreateEvaluationJobAndUpdateCollection, TypeOK, CollectionRows
      <3>3. \A c \in Collections :
               /\ IsFiniteSet(RunsOf(c) \cup {j})
               /\ Cardinality(RunsOf(c) \cup {j}) = Cardinality(RunsOf(c)) + 1
        BY <2>1, <3>1, FS_AddElement DEF RunsOK
      <3>4. \A c \in Collections :
               RunsOf(c)' = IF r.collection = c THEN RunsOf(c) \cup {j} ELSE RunsOf(c)
        BY <2>1, <3>1
      <3>5. ASSUME NEW c \in Collections
            PROVE  /\ IsFiniteSet(RunsOf(c)')
                   /\ collections'[c].runCount = IF CollectionKind[c] = "system" THEN 0
                                                 ELSE Cardinality(RunsOf(c)')
        <4>1. /\ IsFiniteSet(RunsOf(c))
              /\ collections[c].runCount = IF CollectionKind[c] = "system" THEN 0
                                           ELSE Cardinality(RunsOf(c))
          BY DEF RunsOK, RunCountExact
        <4>2. CASE r.collection = c
          <5>1. RunsOf(c)' = RunsOf(c) \cup {j} /\ collections'[c].runCount = NextRunCount(c)
            BY <3>2, <3>4, <4>2
          <5>2. QED
            BY <3>3, <4>1, <5>1 DEF NextRunCount
        <4>3. CASE r.collection # c
          BY <3>2, <3>4, <4>1, <4>3
        <4>4. QED
          BY <4>2, <4>3
      <3>6. RunCountExact'
        BY <3>5 DEF RunCountExact
      <3>7. QED
        BY <2>1, <3>1, <3>5, <3>6 DEF RunsOK
    <2>4. CASE ~Creates
      <3>1. ConfigsKept
        BY <2>4, OtherSteps
      <3>2. \A c \in Collections : RunsOf(c)' = RunsOf(c)
        BY <3>1 DEF ConfigsKept, RunsOf
      <3>3. QED
        BY <3>1, <3>2 DEF ConfigsKept, RunsOK, RunCountExact
    <2>5. QED
      BY <2>2, <2>3, <2>4 DEF Creates
  <1>3. RunsOK => RunCountExact
    BY DEF RunsOK
  <1>4. QED
    BY <1>1, <1>2, <1>3, StoreTypeOK, PTL DEF StoreSpec

-----------------------------------------------------------------------------
(* The store implements the life of a job that clients see                 *)

\* An event ends at most one benchmark of a live row and undoes none, and the
\* counters of getOverallJobStatus call the job pending only when no benchmark
\* is done and finished only when one is.
LEMMA EventProgress ==
  ASSUME NEW row, RowOK(row), Updatable(row), NEW e \in Events,
         NEW list \in SUBSET Slots, list # {},
         NEW new, new.status = UpdateBenchmarkStatus(row.status, e),
         new.state = GetOverallJobStatus(new.status, list)
  PROVE  /\ \E ended \in {{}} \cup {{s} : s \in Slots} :
               DoneSlots(new) = DoneSlots(row) \cup ended
         /\ new.state \in Life!Live \cup Life!Finished
         /\ new.state = "pending" => DoneSlots(new) = {}
         /\ new.state \in Life!Finished => DoneSlots(new) # {}
  <1> DEFINE st == new.status
             c  == InState(st, "completed")
             f  == InState(st, "failed")
             cn == Cardinality(c)
             fn == Cardinality(f)
             rn == Cardinality(InState(st, "running"))
             xn == Cardinality(InState(st, "cancelled"))
             n  == Cardinality(list)
  <1>1. e.slot \in Slots /\ e.status \in EventStates
    BY DEF Events
  <1>2. row.status \in [Slots -> BenchmarkStates \cup {"none"}]
    BY DEF RowOK, Rows
  <1>3. \A s \in Slots : row.status[s] # "cancelled"
    BY DEF RowOK, CancelledWhole, Updatable, LiveStates
  <1>4. /\ \A s \in Slots : s # e.slot => st[s] = row.status[s]
        /\ row.status[e.slot] \in BenchmarkTerminal => st[e.slot] \in BenchmarkTerminal
        /\ st[e.slot] # "cancelled"
    BY <1>1, <1>2, <1>3 DEF UpdateBenchmarkStatus, EventStates, BenchmarkTerminal
  <1>5. \E ended \in {{}} \cup {{s} : s \in Slots} :
           DoneSlots(new) = DoneSlots(row) \cup ended
    <2>1. CASE st[e.slot] \in BenchmarkTerminal
      <3>1. DoneSlots(new) = DoneSlots(row) \cup {e.slot}
        BY <1>1, <1>4, <2>1 DEF DoneSlots
      <3>2. QED
        BY <1>1, <3>1
    <2>2. CASE st[e.slot] \notin BenchmarkTerminal
      <3>1. DoneSlots(new) = DoneSlots(row) \cup {}
        BY <1>1, <1>4, <2>2 DEF DoneSlots
      <3>2. QED
        BY <3>1
    <2>3. QED
      BY <2>1, <2>2
  <1>6. \A s \in Slots : st[s] # "cancelled"
    BY <1>3, <1>4
  <1>7. new.state # "cancelled"
    BY <1>6, EventsDoNotCancel
  <1>8. DoneSlots(new) = c \cup f
    BY <1>6 DEF DoneSlots, InState, BenchmarkTerminal
  <1>9. IsFiniteSet(c) /\ IsFiniteSet(f) /\ IsFiniteSet(InState(st, "running"))
        /\ IsFiniteSet(list)
    BY SlotsFinite, FS_Subset DEF InState
  <1>10. cn \in Nat /\ fn \in Nat /\ rn \in Nat /\ n \in Nat
    BY <1>9, FS_CardinalityType
  <1>11. xn = 0
    <2>1. InState(st, "cancelled") = {}
      BY <1>6 DEF InState
    <2>2. QED
      BY <2>1, FS_EmptySet
  <1>12. (cn = 0 <=> c = {}) /\ (fn = 0 <=> f = {}) /\ n # 0
    BY <1>9, FS_EmptySet
  <1>13. new.state = IF cn = n THEN "completed"
                     ELSE IF fn = n THEN "failed"
                     ELSE IF cn + fn = n THEN "partially_failed"
                     ELSE IF xn = n THEN "cancelled"
                     ELSE IF cn + fn + xn = n THEN "partially_failed"
                     ELSE IF rn + cn + fn + xn > 0 THEN "running"
                     ELSE "pending"
    BY DEF GetOverallJobStatus
  <1> HIDE DEF st, c, f, cn, fn, rn, xn, n
  <1>14. /\ new.state = "pending" => cn = 0 /\ fn = 0
         /\ new.state \in {"completed", "failed", "partially_failed"} => cn # 0 \/ fn # 0
    BY <1>10, <1>11, <1>12, <1>13
  <1>15. new.state \in Life!Live \cup Life!Finished
    BY <1>7, <1>13 DEF Life!Live, Life!Finished
  <1>16. QED
    BY <1>5, <1>8, <1>12, <1>14, <1>15 DEF Life!Finished

\* A job that was not created yet has an empty row.
FreshRows == \A j \in Jobs : jobs[j].state = "none" => jobs[j] = EmptyRow

\* Every step of the store is a step in the life of one job, or one its
\* clients do not see.
LEMMA LifeStep ==
  ASSUME TypeOK, RowsOK, FreshRows, [StoreNext]_storeVars
  PROVE  FreshRows' /\ [Life!LifeNext]_(Life!lifeVars)
  <1> DEFINE S == [j \in Jobs |-> jobs[j].state]
             D == [j \in Jobs |-> DoneSlots(jobs[j])]
             X == [j \in Jobs |-> jobs[j].oci]
             Goal == FreshRows' /\ [Life!LifeNext]_(Life!lifeVars)
  <1>0. /\ DOMAIN jobs = Jobs
        /\ \A j \in Jobs : jobs[j] \in Rows /\ RowOK(jobs[j])
    BY DEF TypeOK, RowsOK
  <1>1. ASSUME NEW i \in Jobs, NEW row, jobs' = [jobs EXCEPT ![i] = row],
               row.state # "none"
        PROVE  /\ FreshRows'
               /\ S' = [S EXCEPT ![i] = row.state]
               /\ D' = [D EXCEPT ![i] = DoneSlots(row)]
               /\ X' = [X EXCEPT ![i] = row.oci]
    <2>1. \A j \in Jobs : jobs'[j] = IF j = i THEN row ELSE jobs[j]
      BY <1>0, <1>1
    <2>2. FreshRows'
      BY <1>1, <2>1 DEF FreshRows
    <2>3. S' = [S EXCEPT ![i] = row.state]
      BY <2>1
    <2>4. D' = [D EXCEPT ![i] = DoneSlots(row)]
      BY <2>1
    <2>5. X' = [X EXCEPT ![i] = row.oci]
      BY <2>1
    <2>6. QED
      BY <2>2, <2>3, <2>4, <2>5
  <1>2. ASSUME jobs' = jobs PROVE Goal
    BY <1>2 DEF FreshRows, Life!lifeVars
  <1>3. \A i \in Jobs : /\ [S EXCEPT ![i] = S[i]] = S
                        /\ [D EXCEPT ![i] = D[i]] = D
                        /\ [X EXCEPT ![i] = X[i]] = X
    OBVIOUS
  <1>4. ASSUME NEW i \in Jobs
        PROVE  S[i] = jobs[i].state /\ D[i] = DoneSlots(jobs[i]) /\ X[i] = jobs[i].oci
    OBVIOUS
  <1>5. ASSUME NEW i \in Jobs, Life!Create(i) \/ Life!Report(i) \/ Life!Stop(i)
                                \/ Life!Publish(i) \/ Life!Delete(i),
               FreshRows'
        PROVE  Goal
    BY <1>5 DEF Life!LifeNext
  <1> HIDE DEF S, D, X, Goal
  <1>6. ASSUME NEW i \in Jobs, NEW r \in Requests,
               CreateEvaluationJob(i, r) \/ CreateEvaluationJobAndUpdateCollection(i, r)
        PROVE  Goal
    <2>1. jobs' = [jobs EXCEPT ![i] = NewRow(r)] /\ jobs[i].state = "none"
      BY <1>6 DEF CreateEvaluationJob, CreateEvaluationJobAndUpdateCollection
    <2>2. NewRow(r).state = "pending" /\ NewRow(r).status = jobs[i].status
          /\ NewRow(r).oci = jobs[i].oci
      BY <2>1 DEF FreshRows, NewRow, EmptyRow
    <2>3. DoneSlots(NewRow(r)) = DoneSlots(jobs[i])
      BY <2>2 DEF DoneSlots
    <2>4. FreshRows' /\ S' = [S EXCEPT ![i] = "pending"] /\ D' = D /\ X' = X
      <3>1. NewRow(r).state # "none"
        BY <2>2
      <3>2. /\ FreshRows' /\ S' = [S EXCEPT ![i] = NewRow(r).state]
            /\ D' = [D EXCEPT ![i] = DoneSlots(NewRow(r))] /\ X' = [X EXCEPT ![i] = NewRow(r).oci]
        BY <1>1, <2>1, <3>1, Zenon
      <3>3. QED
        BY <1>3, <1>4, <2>2, <2>3, <3>2
    <2>5. Life!Create(i)
      BY <2>1, <2>4 DEF Life!Create, S, D, X
    <2>6. QED
      BY <1>5, <2>4, <2>5
  <1>7. ASSUME NEW i \in Jobs, NEW e \in Events, UpdateEvaluationJob(i, e)
        PROVE  Goal
    <2> DEFINE list == JobBenchmarks(jobs[i].config)
    <2>1. PICK listRead :
              jobs' = [jobs EXCEPT ![i] = ApplyEvent(jobs[i], e, listRead, list)]
      BY <1>7 DEF UpdateEvaluationJob
    <2>2. Updatable(jobs[i]) /\ list # {} /\ list \in SUBSET Slots
      BY <1>0, <1>7, ListsAreSlots DEF UpdateEvaluationJob
    <2> HIDE DEF list
    <2> DEFINE new == ApplyEvent(jobs[i], e, listRead, list)
    <2>3. /\ new.status = UpdateBenchmarkStatus(jobs[i].status, e)
          /\ new.state = GetOverallJobStatus(new.status, list)
          /\ new.oci = jobs[i].oci
      BY <1>0 DEF ApplyEvent, Rows
    <2>0. jobs' = [jobs EXCEPT ![i] = new]
      BY <2>1
    <2> HIDE DEF new
    <2>4. /\ \E ended \in {{}} \cup {{s} : s \in Slots} :
                DoneSlots(new) = DoneSlots(jobs[i]) \cup ended
          /\ new.state \in Life!Live \cup Life!Finished
          /\ new.state = "pending" => DoneSlots(new) = {}
          /\ new.state \in Life!Finished => DoneSlots(new) # {}
      <3>1. RowOK(jobs[i])
        BY <1>0
      <3>2. QED
        BY ONLY <2>2, <2>3, <3>1, EventProgress, e \in Events
    <2>5. PICK ended \in {{}} \cup {{s} : s \in Slots} :
              DoneSlots(new) = DoneSlots(jobs[i]) \cup ended
      BY <2>4
    <2>7. /\ FreshRows' /\ S' = [S EXCEPT ![i] = new.state] /\ X' = X
          /\ D' = [D EXCEPT ![i] = D[i] \cup ended]
      <3>1. new.state # "none"
        BY <2>4 DEF Life!Live, Life!Finished
      <3>2. /\ FreshRows' /\ S' = [S EXCEPT ![i] = new.state]
            /\ D' = [D EXCEPT ![i] = DoneSlots(new)] /\ X' = [X EXCEPT ![i] = new.oci]
        BY <1>1, <2>0, <3>1, Zenon
      <3>3. QED
        BY <1>3, <1>4, <2>3, <2>5, <3>2
    <2>8. S[i] \in Life!Live
      BY <1>4, <2>2 DEF Updatable, LiveStates, Life!Live
    <2>9. Life!Report(i)
      BY <2>4, <2>5, <2>7, <2>8 DEF Life!Report, S, D, X
    <2>10. QED
      BY <1>5, <2>7, <2>9
  <1>8. ASSUME NEW i \in Jobs, NEW st \in {"cancelled", "failed"},
               UpdateEvaluationJobStatus(i, st)
        PROVE  Goal
    <2> DEFINE new == SetState(jobs[i], st)
    <2>1. jobs' = [jobs EXCEPT ![i] = new] /\ Updatable(jobs[i])
      BY <1>8 DEF UpdateEvaluationJobStatus
    <2>2. /\ new.state = st /\ new.oci = jobs[i].oci
          /\ new.status = IF st = "cancelled" THEN CancelBenchmarks(jobs[i].status)
                          ELSE jobs[i].status
      BY <1>0 DEF SetState, Rows
    <2> HIDE DEF new
    <2>3. DoneSlots(jobs[i]) \subseteq DoneSlots(new) /\ DoneSlots(new) \in SUBSET Slots
      BY <2>2 DEF DoneSlots, CancelBenchmarks
    <2>4. st = "failed" => DoneSlots(new) = DoneSlots(jobs[i])
      BY <2>2 DEF DoneSlots
    <2>5. /\ FreshRows' /\ S' = [S EXCEPT ![i] = st] /\ X' = X
          /\ D' = [D EXCEPT ![i] = DoneSlots(new)]
      <3>1. new.state # "none"
        BY <2>2
      <3>2. /\ FreshRows' /\ S' = [S EXCEPT ![i] = new.state]
            /\ D' = [D EXCEPT ![i] = DoneSlots(new)] /\ X' = [X EXCEPT ![i] = new.oci]
        BY <1>1, <2>1, <3>1, Zenon
      <3>3. QED
        BY <1>3, <1>4, <2>2, <3>2
    <2>6. S[i] \in Life!Live
      BY <1>4, <2>1 DEF Updatable, LiveStates, Life!Live
    <2>7. CASE st = "cancelled"
      <3>1. Life!Stop(i)
        BY <2>3, <2>5, <2>6, <2>7 DEF Life!Stop, S, D, X
      <3>2. QED
        BY <1>5, <2>5, <3>1
    <2>8. CASE st = "failed"
      <3>1. D' = D
        BY <1>3, <1>4, <2>4, <2>5, <2>8
      <3>2. Life!Stop(i)
        BY <2>5, <2>6, <2>8, <3>1 DEF Life!Stop, S, D, X
      <3>3. QED
        BY <1>5, <2>5, <3>2
    <2>9. QED
      BY <2>7, <2>8
  <1>9. ASSUME NEW i \in Jobs, NEW st \in OCIStates, NEW card \in Cards \cup {NoCard},
               UpdateEvaluationJobOCI(i, st, card)
        PROVE  Goal
    <2> DEFINE new == SetOCI(jobs[i], st, card)
    <2>1. jobs' = [jobs EXCEPT ![i] = new] /\ OCIUpdatable(jobs[i], st)
      BY <1>9 DEF UpdateEvaluationJobOCI
    <2>2. new.state = jobs[i].state /\ new.status = jobs[i].status /\ new.oci = st
      BY <1>0 DEF SetOCI, Rows
    <2> HIDE DEF new
    <2>3. DoneSlots(new) = DoneSlots(jobs[i])
      BY <2>2 DEF DoneSlots
    <2>4. jobs[i].state \in Life!Exportable
      BY <2>1 DEF OCIUpdatable, Life!Exportable
    <2>5. /\ FreshRows' /\ S' = S /\ D' = D /\ X' = [X EXCEPT ![i] = st]
      <3>1. new.state # "none"
        BY <2>2, <2>4 DEF Life!Exportable
      <3>2. /\ FreshRows' /\ S' = [S EXCEPT ![i] = new.state]
            /\ D' = [D EXCEPT ![i] = DoneSlots(new)] /\ X' = [X EXCEPT ![i] = new.oci]
        BY <1>1, <2>1, <3>1, Zenon
      <3>3. QED
        BY <1>3, <1>4, <2>2, <2>3, <3>2
    <2>6. CASE jobs[i].oci \in OCITerminal
      <3>1. X' = X
        BY <1>3, <1>4, <2>1, <2>5, <2>6 DEF OCIUpdatable
      <3>2. QED
        BY <2>5, <3>1 DEF Life!lifeVars, S, D, X, Goal
    <2>7. CASE jobs[i].oci \notin OCITerminal
      <3>1. st \in {"running", "completed", "failed"}
        BY DEF OCIStates, OCITerminal
      <3>2. Life!Publish(i)
        BY <2>4, <2>5, <2>7, <3>1 DEF Life!Publish, OCITerminal, S, D, X
      <3>3. QED
        BY <1>5, <2>5, <3>2
    <2>8. QED
      BY <2>6, <2>7
  <1>10. ASSUME NEW i \in Jobs, DeleteEvaluationJob(i)
         PROVE  Goal
    <2> DEFINE new == [EmptyRow EXCEPT !.state = "deleted", !.config = jobs[i].config]
    <2>1. jobs' = [jobs EXCEPT ![i] = new] /\ Exists(jobs[i])
      BY <1>10 DEF DeleteEvaluationJob
    <2>2. new.state = "deleted" /\ new.oci = "none" /\ DoneSlots(new) = {}
      BY DEF EmptyRow, DoneSlots, BenchmarkTerminal
    <2> HIDE DEF new
    <2>3. /\ FreshRows' /\ S' = [S EXCEPT ![i] = "deleted"]
          /\ D' = [D EXCEPT ![i] = {}] /\ X' = [X EXCEPT ![i] = "none"]
      <3>1. new.state # "none"
        BY <2>2
      <3>2. /\ FreshRows' /\ S' = [S EXCEPT ![i] = new.state]
            /\ D' = [D EXCEPT ![i] = DoneSlots(new)] /\ X' = [X EXCEPT ![i] = new.oci]
        BY <1>1, <2>1, <3>1, Zenon
      <3>3. QED
        BY <2>2, <3>2
    <2>4. S[i] \notin {"none", "deleted"}
      BY <1>4, <2>1 DEF Exists, OverallStates, LiveStates, TerminalStates
    <2>5. Life!Delete(i)
      BY <2>3, <2>4 DEF Life!Delete, S, D, X
    <2>6. QED
      BY <1>5, <2>3, <2>5
  <1>11. ASSUME NEW c, NEW l,
                \/ UpdateCollection(c, l) \/ PatchCollection(c, l)
                \/ DeleteCollection(c) \/ LoadSystemResources(l)
         PROVE  Goal
    BY <1>2, <1>11 DEF UpdateCollection, PatchCollection, DeleteCollection,
                       LoadSystemResources
  <1>12. ASSUME UNCHANGED storeVars
         PROVE  Goal
    BY <1>2, <1>12 DEF storeVars
  <1>13. Goal
    BY <1>6, <1>7, <1>8, <1>9, <1>10, <1>11, <1>12 DEF StoreNext
  <1>14. QED
    BY <1>13 DEF Goal

\* Refinement: for every set of jobs, collections and requests the storage
\* methods implement the life of a job as its clients may see it, with the
\* done benchmarks and the export read off the rows.
THEOREM StoreFollowsLifecycle == StoreSpec => FollowsLifecycle
  <1>1. StoreInit => FreshRows /\ Life!LifeInit
    <2> SUFFICES ASSUME StoreInit PROVE FreshRows /\ Life!LifeInit
      OBVIOUS
    <2>1. \A j \in Jobs : jobs[j] = EmptyRow
      BY DEF StoreInit
    <2>2. EmptyRow.state = "none" /\ EmptyRow.oci = "none" /\ DoneSlots(EmptyRow) = {}
      BY DEF EmptyRow, DoneSlots, BenchmarkTerminal
    <2>3. QED
      BY <2>1, <2>2 DEF FreshRows, Life!LifeInit
  <1>2. TypeOK /\ RowsOK /\ FreshRows /\ [StoreNext]_storeVars
           => FreshRows' /\ [Life!LifeNext]_(Life!lifeVars)
    BY LifeStep
  <1>3. QED
    BY <1>1, <1>2, StoreTypeOK, StoreRowsOK, PTL DEF StoreSpec, FollowsLifecycle, Life!LifeSpec

-----------------------------------------------------------------------------
(***************************************************************************)
(* Row locks make the transactions of UpdateEvaluationJob atomic: the      *)
(* locking store implements JobStore for every set of jobs, collections    *)
(* and requests, so what is proved above holds of it as well.              *)
(***************************************************************************)

\* The inductive invariant: an open transaction holds an accepted event of a
\* live row, validated against a list the job had, and a copy that is current.
OpenTxnOK(j) ==
    txn[j].open =>
        /\ txn[j].row = jobs[j]
        /\ txn[j].event \in Events
        /\ txn[j].event.slot \in txn[j].list
        /\ txn[j].list \in ListsRead(jobs[j].config)
        /\ Updatable(jobs[j])

LockInv ==
    /\ TypeOK
    /\ DOMAIN txn = Jobs
    /\ txn = [j \in Jobs |-> txn[j]]
    /\ \A j \in Jobs : OpenTxnOK(j)

\* The lists of a job whose collection (if any) was just read.
LEMMA ReadListIsListRead ==
  ASSUME TypeOK, NEW row \in Rows, JobBenchmarks(row.config) # {}
  PROVE  JobBenchmarks(row.config) \in ListsRead(row.config)
  <1>1. CASE IsDirect(row.config)
    BY <1>1 DEF JobBenchmarks, ListsRead
  <1>2. CASE ~IsDirect(row.config)
    <2>1. row.config.collection \in Collections
      BY <1>2 DEF Rows, JobConfigs, IsDirect
    <2>2. collections[row.config.collection].list \in BenchmarkLists \cup {{}}
      BY <2>1 DEF TypeOK, CollectionRows
    <2>3. QED
      BY <1>2, <2>2 DEF JobBenchmarks, ListsRead
  <1>3. QED
    BY <1>1, <1>2

\* Every step of the locking store is a step of JobStore or leaves both tables
\* alone: BeginUpdate and RollbackUpdate write nothing, and CommitUpdate writes
\* what UpdateEvaluationJob would, because its copy of the row is current.
LEMMA LockedStep ==
  ASSUME LockInv, [LockedNext]_lockedVars
  PROVE  [StoreNext]_storeVars
  <1>1. ASSUME NEW j \in Jobs, CommitUpdate(j)
        PROVE  \E e \in Events : UpdateEvaluationJob(j, e)
    <2> DEFINE e == txn[j].event
               c == jobs[j].config
    <2>1. txn[j].open
      BY <1>1 DEF CommitUpdate
    <2>2. /\ txn[j].row = jobs[j] /\ e \in Events /\ e.slot \in txn[j].list
          /\ txn[j].list \in ListsRead(c) /\ Updatable(jobs[j])
      BY <2>1 DEF LockInv, OpenTxnOK
    <2>3. UpdatedRow(j) = ApplyEvent(jobs[j], e, txn[j].list, JobBenchmarks(c))
      BY <2>2 DEF UpdatedRow
    <2>4. /\ JobBenchmarks(c) # {}
          /\ UpdatedRow(j).state = "completed" => SourceAllowsCompletion(c)
          /\ jobs' = [jobs EXCEPT ![j] = UpdatedRow(j)]
          /\ UNCHANGED collections
      BY <1>1, <2>2 DEF CommitUpdate
    <2>5. UpdateEvaluationJob(j, e)
      BY <2>2, <2>3, <2>4 DEF UpdateEvaluationJob
    <2>6. QED
      BY <2>2, <2>5
  <1>2. ASSUME NEW j \in Jobs, NEW r \in Requests, LockedCreate(j, r)
        PROVE  StoreNext
    BY <1>2 DEF LockedCreate, StoreNext
  <1>3. ASSUME NEW j \in Jobs, NEW e \in Events, BeginUpdate(j, e)
        PROVE  UNCHANGED storeVars
    BY <1>3 DEF BeginUpdate
  <1>4. ASSUME NEW j \in Jobs, RollbackUpdate(j)
        PROVE  UNCHANGED storeVars
    BY <1>4 DEF RollbackUpdate
  <1>5. ASSUME NEW j \in Jobs, LockedDelete(j)
        PROVE  StoreNext
    BY <1>5 DEF LockedDelete, StoreNext
  <1>6. ASSUME NEW j \in Jobs, NEW st \in {"cancelled", "failed"}, LockedStatus(j, st)
        PROVE  StoreNext
    BY <1>6 DEF LockedStatus, StoreNext
  <1>7. ASSUME NEW j \in Jobs, NEW st \in OCIStates, NEW card \in Cards \cup {NoCard},
               LockedOCI(j, st, card)
        PROVE  StoreNext
    BY <1>7 DEF LockedOCI, StoreNext
  <1>8. ASSUME NEW c \in Collections, EditCollection(c)
        PROVE  StoreNext
    BY <1>8 DEF EditCollection, StoreNext
  <1>9. CASE ReloadSystemCollections
    BY <1>9 DEF ReloadSystemCollections, StoreNext
  <1>10. ASSUME NEW j \in Jobs, CommitUpdate(j)
        PROVE  StoreNext
    BY <1>1, <1>10 DEF StoreNext
  <1>11. CASE UNCHANGED lockedVars
    BY <1>11 DEF lockedVars, storeVars
  <1>12. QED
    BY <1>2, <1>3, <1>4, <1>5, <1>6, <1>7, <1>8, <1>9, <1>10, <1>11 DEF LockedNext

\* A step that leaves a transaction and the row it has locked alone keeps its
\* invariant; collections may be edited under it.
LEMMA OpenTxnKept ==
  ASSUME NEW j \in Jobs, OpenTxnOK(j), txn'[j] = txn[j], jobs'[j] = jobs[j]
  PROVE  OpenTxnOK(j)'
  BY DEF OpenTxnOK, ListsRead, IsDirect

\* The lock invariant is inductive.
LEMMA LockInvStep ==
  ASSUME LockInv, TypeOK', [LockedNext]_lockedVars
  PROVE  LockInv'
  <1>1. ASSUME NEW i \in Jobs, NEW t, txn' = [txn EXCEPT ![i] = t],
               UNCHANGED jobs \/ (\E row : jobs' = [jobs EXCEPT ![i] = row]),
               t.open => OpenTxnOK(i)'
        PROVE  LockInv'
    <2>1. DOMAIN txn' = Jobs /\ txn' = [j \in Jobs |-> txn'[j]] /\ txn'[i] = t
      BY <1>1 DEF LockInv
    <2>2. ASSUME NEW j \in Jobs PROVE OpenTxnOK(j)'
      <3>1. CASE j = i
        BY <1>1, <2>1, <3>1 DEF OpenTxnOK
      <3>2. CASE j # i
        <4>1. txn'[j] = txn[j] /\ jobs'[j] = jobs[j]
          BY <1>1, <3>2 DEF LockInv, TypeOK
        <4>2. QED
          BY <4>1, OpenTxnKept DEF LockInv
      <3>3. QED
        BY <3>1, <3>2
    <2>3. QED
      BY <2>1, <2>2 DEF LockInv
  <1>2. ASSUME UNCHANGED txn, NEW i \in Jobs, ~txn[i].open,
               UNCHANGED jobs \/ (\E row : jobs' = [jobs EXCEPT ![i] = row])
        PROVE  LockInv'
    <2>1. ASSUME NEW j \in Jobs PROVE OpenTxnOK(j)'
      <3>1. CASE j = i
        BY <1>2, <3>1 DEF OpenTxnOK
      <3>2. CASE j # i
        <4>1. txn'[j] = txn[j] /\ jobs'[j] = jobs[j]
          BY <1>2, <3>2 DEF LockInv, TypeOK
        <4>2. QED
          BY <4>1, OpenTxnKept DEF LockInv
      <3>3. QED
        BY <3>1, <3>2
    <2>2. QED
      BY <1>2, <2>1 DEF LockInv
  <1>3. ASSUME UNCHANGED txn, UNCHANGED jobs
        PROVE  LockInv'
    <2>1. ASSUME NEW j \in Jobs PROVE OpenTxnOK(j)'
      BY <1>3, OpenTxnKept DEF LockInv
    <2>2. QED
      BY <1>3, <2>1 DEF LockInv
  <1>4. ASSUME NEW j \in Jobs, NEW r \in Requests, LockedCreate(j, r)
        PROVE  LockInv'
    <2>1. /\ jobs[j].state = "none" /\ UNCHANGED txn
          /\ \E row : jobs' = [jobs EXCEPT ![j] = row]
      BY <1>4 DEF LockedCreate, CreateEvaluationJob, CreateEvaluationJobAndUpdateCollection
    <2>2. ~txn[j].open
      BY <2>1 DEF LockInv, OpenTxnOK, Updatable, LiveStates
    <2>3. QED
      BY <1>2, <2>1, <2>2
  <1>5. ASSUME NEW j \in Jobs, NEW e \in Events, BeginUpdate(j, e)
        PROVE  LockInv'
    <2> DEFINE list == JobBenchmarks(jobs[j].config)
               t    == [open |-> TRUE, row |-> jobs[j], event |-> e, list |-> list]
    <2>1. /\ txn' = [txn EXCEPT ![j] = t] /\ jobs' = jobs
          /\ e.slot \in list /\ Updatable(jobs[j])
      BY <1>5 DEF BeginUpdate, OpenTxn, storeVars
    <2>2. list \in ListsRead(jobs[j].config)
      BY <2>1, ReadListIsListRead DEF LockInv, TypeOK
    <2>3. txn'[j] = t
      BY <2>1 DEF LockInv
    <2>4. OpenTxnOK(j)'
      BY <2>1, <2>2, <2>3 DEF OpenTxnOK, ListsRead, IsDirect
    <2> HIDE DEF t, list
    <2>5. QED
      BY <1>1, <2>1, <2>4
  <1>6. ASSUME NEW j \in Jobs, CommitUpdate(j) \/ RollbackUpdate(j)
        PROVE  LockInv'
    <2>1. /\ txn' = [txn EXCEPT ![j] = NoTxn]
          /\ UNCHANGED jobs \/ (\E row : jobs' = [jobs EXCEPT ![j] = row])
      BY <1>6 DEF CommitUpdate, RollbackUpdate, storeVars
    <2>2. ~NoTxn.open
      BY DEF NoTxn
    <2>3. QED
      BY <1>1, <2>1, <2>2
  <1>7. ASSUME NEW j \in Jobs, LockedDelete(j)
        PROVE  LockInv'
    BY <1>2, <1>7 DEF LockedDelete, DeleteEvaluationJob, Unlocked
  <1>8. ASSUME NEW j \in Jobs, NEW st \in {"cancelled", "failed"}, LockedStatus(j, st)
        PROVE  LockInv'
    BY <1>2, <1>8 DEF LockedStatus, UpdateEvaluationJobStatus, Unlocked
  <1>9. ASSUME NEW j \in Jobs, NEW st \in OCIStates, NEW card \in Cards \cup {NoCard},
               LockedOCI(j, st, card)
        PROVE  LockInv'
    BY <1>2, <1>9 DEF LockedOCI, UpdateEvaluationJobOCI, Unlocked
  <1>10. ASSUME NEW c \in Collections, EditCollection(c)
         PROVE  LockInv'
    BY <1>3, <1>10 DEF EditCollection, UpdateCollection, PatchCollection, DeleteCollection
  <1>11. CASE ReloadSystemCollections
    BY <1>3, <1>11 DEF ReloadSystemCollections, LoadSystemResources
  <1>12. CASE UNCHANGED lockedVars
    BY <1>3, <1>12 DEF lockedVars
  <1>13. QED
    BY <1>4, <1>5, <1>6, <1>7, <1>8, <1>9, <1>10, <1>11, <1>12 DEF LockedNext

\* The invariant in every state of the locking store.
LEMMA LockInvariant == LockedSpec => []LockInv
  <1>1. LockedInit => LockInv
    <2> SUFFICES ASSUME LockedInit PROVE LockInv
      OBVIOUS
    <2>1. TypeOK
      BY StoreInitType DEF LockedInit
    <2>2. \A j \in Jobs : ~txn[j].open
      BY DEF LockedInit, NoTxn
    <2>3. QED
      BY <2>1, <2>2 DEF LockedInit, LockInv, OpenTxnOK
  <1>2. LockInv /\ [LockedNext]_lockedVars => LockInv'
    <2> SUFFICES ASSUME LockInv, [LockedNext]_lockedVars PROVE LockInv'
      OBVIOUS
    <2>1. [StoreNext]_storeVars
      BY LockedStep
    <2>2. TypeOK'
      BY <2>1, StoreTypeStep DEF LockInv
    <2>3. QED
      BY <2>2, LockInvStep
  <1>3. QED
    BY <1>1, <1>2, PTL DEF LockedSpec

\* The copy of the row an open UpdateEvaluationJob transaction works on is the
\* row, whatever else commits meanwhile.
THEOREM LockedRead == LockedSpec => []LockedReadIsCurrent
  <1>1. LockInv => LockedReadIsCurrent
    BY DEF LockInv, OpenTxnOK, LockedReadIsCurrent
  <1>2. QED
    BY <1>1, LockInvariant, PTL

\* Refinement: the transactions with row locks are atomic operations of the
\* store, for every set of jobs, collections and requests.
THEOREM LockedJobStoreImplementsJobStore == LockedSpec => ImplementsJobStore
  <1>1. LockedInit => StoreInit
    BY DEF LockedInit
  <1>2. LockInv /\ [LockedNext]_lockedVars => [StoreNext]_storeVars
    BY LockedStep
  <1>3. QED
    BY <1>1, <1>2, LockInvariant, PTL DEF LockedSpec, StoreSpec, ImplementsJobStore

\* What the store promises, its transactions keep: clients see the life of a
\* job, finished jobs are final,
\* states, results, cancellations and scores are consistent, run counts exact.
THEOREM TransactionsKeepPromises ==
    LockedSpec => /\ TerminalJobIsFinal /\ OCIOutcomeFinal /\ FollowsLifecycle
            /\ [](/\ TypeOK /\ ResultsMatchStatus /\ OverallStateMatchesBenchmarks
                  /\ CancelledTogether /\ SourceStaysCompleted /\ ScoreCoversResults
                  /\ RunCountExact)
  <1>1. LockedSpec => StoreSpec
    BY LockedJobStoreImplementsJobStore DEF ImplementsJobStore
  <1>2. QED
    BY <1>1, StoreTypeOK, StoreResultsMatchStatus, StoreOverallState, StoreCancelledTogether,
       StoreSourceStaysCompleted, StoreScoreCoversResults, StoreRunCountExact,
       StoreTerminalJobIsFinal, StoreOCIOutcomeFinal, StoreFollowsLifecycle, PTL
=============================================================================
