---------------------------- MODULE LockedJobStore ----------------------------
(***************************************************************************)
(* The SQL store as its transactions run on PostgreSQL at READ COMMITTED.  *)
(* UpdateEvaluationJob reads the row under SELECT ... FOR UPDATE, works on *)
(* the copy it read and writes it back at the end; between the two, other  *)
(* transactions commit.  The row lock keeps them off this row, but not off *)
(* the collection the job refers to, which the transaction reads twice.    *)
(* The other methods lock, read and write in one round here: nothing they  *)
(* read can change while they hold their lock.  With SQLite the pool has a *)
(* single connection, which allows fewer interleavings than this module.   *)
(***************************************************************************)
EXTENDS JobStore

VARIABLE txn    \* job id -> the UpdateEvaluationJob transaction holding its row

lockedVars == <<jobs, collections, txn>>

\* An open transaction: the copy of the row read under the lock, the event,
\* the list it was validated against.
OpenTxn(row, e, list) == [open |-> TRUE, row |-> row, event |-> e, list |-> list]
NoTxn == [open |-> FALSE]

Ignored(j)  == TRUE
Unlocked(j) == ~txn[j].open

\* Locked read, terminal-state check, collection read, validateBenchmarkExists.
BeginUpdate(j, e) ==
    LET list == JobBenchmarks(jobs[j].config) IN
    /\ Unlocked(j)
    /\ Updatable(jobs[j])
    /\ e.slot \in list
    /\ txn' = [txn EXCEPT ![j] = OpenTxn(jobs[j], e, list)]
    /\ UNCHANGED storeVars

\* The row the open transaction of j is about to write.
UpdatedRow(j) == ApplyEvent(txn[j].row, txn[j].event, txn[j].list,
                            JobBenchmarks(txn[j].row.config))

\* Second collection read, overall state, write, and for a completed
\* post-processing job a locked read of its source; then COMMIT.
CommitUpdate(j) ==
    LET c == txn[j].row.config IN
    /\ txn[j].open
    /\ JobBenchmarks(c) # {}
    /\ UpdatedRow(j).state = "completed" =>
          /\ c.source # NoJob => Unlocked(c.source)
          /\ SourceAllowsCompletion(c)
    /\ jobs' = [jobs EXCEPT ![j] = UpdatedRow(j)]
    /\ txn' = [txn EXCEPT ![j] = NoTxn]
    /\ UNCHANGED collections

\* Any error after the locked read (collection gone or empty, source not
\* completed, database failure) and a server crash: nothing is written.
RollbackUpdate(j) ==
    /\ txn[j].open
    /\ txn' = [txn EXCEPT ![j] = NoTxn]
    /\ UNCHANGED storeVars

-----------------------------------------------------------------------------
LockedCreate(j, r) ==
    /\ CreateEvaluationJob(j, r) \/ CreateEvaluationJobAndUpdateCollection(j, r)
    /\ UNCHANGED txn

LockedStatus(j, st) ==
    Unlocked(j) /\ UpdateEvaluationJobStatus(j, st) /\ UNCHANGED txn

LockedOCI(j, st, card) ==
    Unlocked(j) /\ UpdateEvaluationJobOCI(j, st, card) /\ UNCHANGED txn

LockedDelete(j) ==
    Unlocked(j) /\ DeleteEvaluationJob(j) /\ UNCHANGED txn

EditCollection(c) ==
    /\ \/ \E l \in BenchmarkLists : UpdateCollection(c, l)
       \/ \E l \in BenchmarkLists \cup {{}} : PatchCollection(c, l)
       \/ DeleteCollection(c)
    /\ UNCHANGED txn

ReloadSystemCollections ==
    /\ \E lists \in [SystemCollections -> BenchmarkLists \cup {{}}] :
          LoadSystemResources(lists)
    /\ UNCHANGED txn

LockedInit == StoreInit /\ txn = [j \in Jobs |-> NoTxn]

LockedNext ==
    \/ \E j \in Jobs, r \in Requests : LockedCreate(j, r)
    \/ \E j \in Jobs, e \in Events : BeginUpdate(j, e)
    \/ \E j \in Jobs : CommitUpdate(j) \/ RollbackUpdate(j) \/ LockedDelete(j)
    \/ \E j \in Jobs, st \in {"cancelled", "failed"} : LockedStatus(j, st)
    \/ \E j \in Jobs, st \in OCIStates, card \in Cards \cup {NoCard} :
          LockedOCI(j, st, card)
    \/ \E c \in Collections : EditCollection(c)
    \/ ReloadSystemCollections

LockedSpec == LockedInit /\ [][LockedNext]_lockedVars

-----------------------------------------------------------------------------
\* The lock works: the copy an open transaction is about to overwrite the row
\* with is still the row (getEvaluationJobTransactionalForUpdate).
LockedReadIsCurrent ==
    \A j \in Jobs : txn[j].open => txn[j].row = jobs[j]

\* The transactions, however they interleave, are atomic operations of the
\* store: this is the specification their callers rely on.
ImplementsJobStore == StoreSpec
=============================================================================
