-------------------------- MODULE JobHandlersProofs --------------------------
(***************************************************************************)
(* Proofs about the request handlers for every set of jobs, requests and   *)
(* workers and every bound on the faults.  The handlers are shown to use   *)
(* the store only through its operations, so that what JobStoreProofs says *)
(* of the store holds while they run.                                      *)
(***************************************************************************)
EXTENDS JobHandlers, JobStoreProofs

\* A job whose row has been written.
Made(j) == create[j].pc \in {"start", "accepted", "mark", "error"}

\* The shape of the records that hold an event and a cancellation.
UpdateShape(r) ==
  r = [pc |-> r.pc, job |-> r.job, event |-> r.event, prev |-> r.prev, card |-> r.card]
CancelShape(r) == r = [pc |-> r.pc, job |-> r.job, hard |-> r.hard, prev |-> r.prev]

\* What the requests in progress hold: an accepted submission, an event of a
\* launched job, a job to cancel.
CallsOK ==
  /\ create = [j \in Jobs |-> create[j]]
  /\ update = [u \in Updates |-> update[u]]
  /\ cancel = [c \in Cancels |-> cancel[c]]
  /\ \A j \in Jobs :
       /\ create[j] = [pc |-> create[j].pc, sub |-> create[j].sub]
       /\ create[j].pc \notin {"idle", "rejected"} => create[j].sub \in Submissions[j]
  /\ launched \subseteq Jobs
  /\ \A u \in Updates :
       /\ UpdateShape(update[u])
       /\ update[u].pc \notin {"idle", "done"} =>
            update[u].job \in launched /\ update[u].event \in Events
  /\ \A c \in Cancels :
       /\ CancelShape(cancel[c])
       /\ cancel[c].pc \notin {"idle", "done"} => cancel[c].job \in Jobs

-----------------------------------------------------------------------------
(* What a step does to each group of variables                             *)

\* A step of the requests that moves the create request of job j.
CreateMoves(j) ==
  \/ \E s \in Submissions[j] : HandleCreateEvaluation(j, s)
  \/ CreateStep(j)
UpdateMoves(u) ==
  \/ \E d \in Deliveries[u] : ReadPreviousState(u, d.job, d.event)
  \/ UpdateStep(u)
CancelMoves(c) ==
  \/ \E w \in Withdrawals[c] : SnapshotJob(c, w.job, w.hard)
  \/ CancelStep(c)

\* Every step is of one create request, one event, one cancellation, or of
\* the MLflow client alone.
LEMMA StepKinds ==
  ASSUME [Next]_vars
  PROVE  \/ \E j \in Jobs : CreateMoves(j)
         \/ \E u \in Updates : UpdateMoves(u)
         \/ \E c \in Cancels : CancelMoves(c)
         \/ UNCHANGED <<storeVars, handlerVars>>
  BY DEF Next, vars, CreateMoves, UpdateMoves, CancelMoves, ClientStep, ProbeStep

\* A record that moves to another step keeps the rest.
LEMMA PhaseOf ==
  ASSUME NEW r, NEW sub, r = [pc |-> r.pc, sub |-> sub], NEW pc
  PROVE  [r EXCEPT !.pc = pc] = [pc |-> pc, sub |-> sub]
  <1>1. [[pc |-> r.pc, sub |-> sub] EXCEPT !.pc = pc] = [pc |-> pc, sub |-> sub]
    OBVIOUS
  <1>2. QED
    BY <1>1, Zenon

\* A create request moves as a whole: one job's record, to a step that holds
\* the submission it holds already, or an accepted one.
LEMMA CreateMove ==
  ASSUME CallsOK, NEW j \in Jobs, CreateMoves(j)
  PROVE  /\ \E pc, sub :
              /\ create' = [create EXCEPT ![j] = [pc |-> pc, sub |-> sub]]
              /\ pc \in {"mlflow", "store", "rejected", "start", "accepted", "mark", "error"}
              /\ pc # "rejected" => sub \in Submissions[j]
              /\ create[j].pc # "idle" => sub = create[j].sub
              /\ pc = "start" => /\ create[j].pc = "store"
                                 /\ \/ CreateEvaluationJob(j, sub.config)
                                    \/ CreateEvaluationJobAndUpdateCollection(j, sub.config)
              /\ pc # "start" => \/ UNCHANGED storeVars
                                 \/ UpdateEvaluationJobStatus(j, "failed")
              /\ Made(j) => pc \in {"accepted", "mark", "error"}
              /\ pc \in {"accepted", "mark", "error"} => Made(j)
              /\ launched' = launched \/ (launched' = launched \cup {j} /\ pc = "accepted")
         /\ UNCHANGED <<update, cancel, exports>>
  <1>0. /\ create[j] = [pc |-> create[j].pc, sub |-> create[j].sub]
        /\ create = [i \in Jobs |-> create[i]]
        /\ create[j].pc \notin {"idle", "rejected"} => create[j].sub \in Submissions[j]
    BY DEF CallsOK
  <1>1. ASSUME NEW pc, Goto(j, pc)
        PROVE  create' = [create EXCEPT ![j] = [pc |-> pc, sub |-> create[j].sub]]
    <2>1. [create[j] EXCEPT !.pc = pc] = [pc |-> pc, sub |-> create[j].sub]
      BY <1>0, PhaseOf
    <2>2. create' = [create EXCEPT ![j] = [create[j] EXCEPT !.pc = pc]]
      BY <1>1 DEF Goto
    <2>3. QED
      BY <2>1, <2>2
  <1>2. ASSUME NEW s \in Submissions[j], HandleCreateEvaluation(j, s)
        PROVE  \E pc, sub :
                 /\ create' = [create EXCEPT ![j] = [pc |-> pc, sub |-> sub]]
                 /\ pc \in {"mlflow", "store", "rejected"}
                 /\ pc # "rejected" => sub \in Submissions[j]
    <2>1. CASE Acceptable(s)
      <3>1. create' = [create EXCEPT ![j] =
                         [pc |-> IF s.experiment THEN "mlflow" ELSE "store", sub |-> s]]
        BY <1>2, <2>1 DEF HandleCreateEvaluation
      <3>2. QED
        BY <3>1
    <2>2. CASE ~Acceptable(s)
      <3>1. create' = [create EXCEPT ![j] = [pc |-> "rejected", sub |-> create[j].sub]]
        <4>1. create' = [create EXCEPT ![j] = [create[j] EXCEPT !.pc = "rejected"]]
          BY <1>2, <2>2 DEF HandleCreateEvaluation
        <4>2. [create[j] EXCEPT !.pc = "rejected"] = [pc |-> "rejected", sub |-> create[j].sub]
          BY <1>0, PhaseOf
        <4>3. QED
          BY <4>1, <4>2
      <3>2. QED
        BY <3>1
    <2>3. QED
      BY <2>1, <2>2
  <1>3. CASE \E s \in Submissions[j] : HandleCreateEvaluation(j, s)
    BY <1>2, <1>3 DEF HandleCreateEvaluation, Made
  <1>4. CASE GetOrCreateExperimentID(j)
    BY <1>0, <1>1, <1>4 DEF GetOrCreateExperimentID, Made
  <1>5. CASE MLFlowRequestFailed(j)
    BY <1>0, <1>1, <1>5 DEF MLFlowRequestFailed, Made
  <1>6. CASE StoreEvaluationJob(j)
    BY <1>0, <1>1, <1>6 DEF StoreEvaluationJob, Made
  <1>7. CASE ExecuteEvaluationJob(j)
    BY <1>0, <1>1, <1>7 DEF ExecuteEvaluationJob, Made
  <1>8. CASE MarkFailed(j)
    BY <1>0, <1>1, <1>8 DEF MarkFailed, Made
  <1>9. QED
    BY <1>3, <1>4, <1>5, <1>6, <1>7, <1>8 DEF CreateMoves, CreateStep

\* An event that moves to another step keeps its job and its event.
LEMMA UpdatePhase ==
  ASSUME NEW r, UpdateShape(r), NEW pc, NEW card
  PROVE  /\ [r EXCEPT !.pc = pc] = [pc |-> pc, job |-> r.job, event |-> r.event,
                                    prev |-> r.prev, card |-> r.card]
         /\ [r EXCEPT !.pc = pc, !.card = card] = [pc |-> pc, job |-> r.job, event |-> r.event,
                                                   prev |-> r.prev, card |-> card]
  <1> DEFINE q == [pc |-> r.pc, job |-> r.job, event |-> r.event, prev |-> r.prev,
                   card |-> r.card]
  <1>1. [q EXCEPT !.pc = pc] = [pc |-> pc, job |-> r.job, event |-> r.event,
                                prev |-> r.prev, card |-> r.card]
    OBVIOUS
  <1>2. [q EXCEPT !.pc = pc, !.card = card] = [pc |-> pc, job |-> r.job, event |-> r.event,
                                               prev |-> r.prev, card |-> card]
    <2> DEFINE T == [pc : {r.pc, pc}, job : {r.job}, event : {r.event}, prev : {r.prev},
                     card : {r.card, card}]
    <2>1. q \in T
      OBVIOUS
    <2> DEFINE z == [q EXCEPT !.pc = pc, !.card = card]
    <2>2. z \in T /\ z.pc = pc /\ z.card = card
      BY <2>1
    <2> HIDE DEF z
    <2>3. z = [pc |-> z.pc, job |-> z.job, event |-> z.event, prev |-> z.prev, card |-> z.card]
      BY <2>2
    <2>4. z.job = r.job /\ z.event = r.event /\ z.prev = r.prev
      BY <2>2
    <2>5. z = [pc |-> pc, job |-> r.job, event |-> r.event, prev |-> r.prev, card |-> card]
      BY <2>2, <2>3, <2>4, Zenon
    <2>6. QED
      BY <2>5 DEF z
  <1>3. r = q
    BY DEF UpdateShape
  <1> HIDE DEF q
  <1>4. QED
    BY <1>1, <1>2, <1>3, Zenon

LEMMA CancelPhase ==
  ASSUME NEW r, CancelShape(r), NEW pc
  PROVE  [r EXCEPT !.pc = pc] = [pc |-> pc, job |-> r.job, hard |-> r.hard, prev |-> r.prev]
  <1> DEFINE q == [pc |-> r.pc, job |-> r.job, hard |-> r.hard, prev |-> r.prev]
  <1>1. [q EXCEPT !.pc = pc] = [pc |-> pc, job |-> r.job, hard |-> r.hard, prev |-> r.prev]
    OBVIOUS
  <1>2. r = q
    BY DEF CancelShape
  <1> HIDE DEF q
  <1>3. QED
    BY <1>1, <1>2, Zenon

\* What the step of an event may leave in its worker (r) and what it does to
\* the store and to the exports.
UpdateMoved(u, r) ==
  /\ update' = [update EXCEPT ![u] = r]
  /\ UpdateShape(r)
  /\ r.pc # "done" => r.job \in launched /\ r.event \in Events
  /\ r.pc = "store" => r.event.slot \in JobBenchmarks(jobs[r.job].config)
  /\ r.pc = "export" => IsResultsExportEligible(jobs[r.job]) /\ r.card = jobs[r.job].status
  /\ r.pc \in {"card", "oci"} =>
       update[u].pc \in {"export", "card"} /\ r.job = update[u].job /\ r.card = update[u].card
  /\ \/ UNCHANGED exports
     \/ \E x : /\ update[u].pc \in {"card", "oci"} /\ x.status = update[u].card
               /\ exports' = [exports EXCEPT ![update[u].job] = @ \cup {x}]
  /\ \/ UNCHANGED storeVars
     \/ /\ update[u].pc = "store" /\ r.pc = "count"
        /\ UpdateEvaluationJob(update[u].job, update[u].event)

LEMMA UpdateMove ==
  ASSUME CallsOK, NEW u \in Updates, UpdateMoves(u)
  PROVE  (\E r : UpdateMoved(u, r)) /\ UNCHANGED <<create, cancel, launched>>
  <1> DEFINE old == update[u]
  <1>0. /\ UpdateShape(old)
        /\ old.pc \notin {"idle", "done"} => old.job \in launched /\ old.event \in Events
    BY DEF CallsOK
  <1>1. UpdateShape(Answered) /\ Answered.pc = "done"
    BY DEF Answered, NoCall, UpdateShape
  <1>2. ASSUME NEW pc, NEW r, r = [old EXCEPT !.pc = pc]
        PROVE  UpdateShape(r) /\ r.pc = pc /\ r.job = old.job /\ r.event = old.event
               /\ r.card = old.card
    <2>1. r = [pc |-> pc, job |-> old.job, event |-> old.event, prev |-> old.prev,
               card |-> old.card]
      BY <1>0, <1>2, UpdatePhase
    <2>2. QED
      BY <2>1 DEF UpdateShape
  <1> HIDE DEF old
  <1>3. ASSUME NEW d \in Deliveries[u], ReadPreviousState(u, d.job, d.event)
        PROVE  \E r : UpdateMoved(u, r)
    <2>0. PICK prev :
            Put(u, [pc |-> "store", job |-> d.job, event |-> d.event, prev |-> prev,
                    card |-> EmptyRow.status])
      BY <1>3 DEF ReadPreviousState
    <2> DEFINE r == [pc |-> "store", job |-> d.job, event |-> d.event,
                     prev |-> prev, card |-> EmptyRow.status]
    <2>1. r.job \in launched /\ r.event \in Events
          /\ r.event.slot \in JobBenchmarks(jobs[r.job].config)
      BY <1>3, SubmissionsAssumption DEF ReadPreviousState
    <2>2. update' = [update EXCEPT ![u] = r] /\ UNCHANGED <<exports, storeVars>>
      BY <1>3, <2>0 DEF ReadPreviousState, Put
    <2>3. UpdateShape(r) /\ r.pc = "store"
      BY DEF UpdateShape
    <2> HIDE DEF r
    <2>4. UpdateMoved(u, r)
      BY <2>1, <2>2, <2>3 DEF UpdateMoved
    <2>5. QED
      BY <2>4
  <1>4. ASSUME StoreEvent(u)
        PROVE  \E r : UpdateMoved(u, r)
    <2>1. CASE Put(u, Answered) /\ UNCHANGED storeVars
      <3>1. UpdateMoved(u, Answered)
        BY <1>1, <1>4, <2>1 DEF UpdateMoved, Put, StoreEvent
      <3>2. QED
        BY <3>1
    <2>2. CASE UpdateEvaluationJob(old.job, old.event) /\ Put(u, [old EXCEPT !.pc = "count"])
      <3> DEFINE r == [old EXCEPT !.pc = "count"]
      <3>1. UpdateShape(r) /\ r.pc = "count" /\ r.job = old.job /\ r.event = old.event
        BY <1>2
      <3>2. update' = [update EXCEPT ![u] = r] /\ UNCHANGED exports /\ old.pc = "store"
        BY <1>4, <2>2 DEF StoreEvent, Put, old
      <3> HIDE DEF r
      <3>3. UpdateMoved(u, r)
        BY <1>0, <2>2, <3>1, <3>2 DEF UpdateMoved, old
      <3>4. QED
        BY <3>3
    <2>3. QED
      BY <1>4, <2>1, <2>2 DEF StoreEvent, old
  <1>5. ASSUME RecordTerminalStateAfterUpdate(u)
        PROVE  \E r : UpdateMoved(u, r)
    <2> DEFINE r == [old EXCEPT !.pc = "updated"]
    <2>1. UpdateShape(r) /\ r.pc = "updated" /\ r.job = old.job /\ r.event = old.event
      BY <1>2
    <2>2. update' = [update EXCEPT ![u] = r] /\ UNCHANGED <<exports, storeVars>>
          /\ old.pc = "count"
      BY <1>5 DEF RecordTerminalStateAfterUpdate, Put, old
    <2> HIDE DEF r
    <2>3. UpdateMoved(u, r)
      BY <1>0, <2>1, <2>2 DEF UpdateMoved, old
    <2>4. QED
      BY <2>3
  <1>6. ASSUME onEvaluationJobUpdated(u)
        PROVE  \E r : UpdateMoved(u, r)
    <2>0. old.pc = "updated" /\ UNCHANGED <<exports, storeVars>>
      BY <1>6 DEF onEvaluationJobUpdated, old
    <2>1. CASE Put(u, Answered)
      <3>1. UpdateMoved(u, Answered)
        BY <1>1, <2>0, <2>1 DEF UpdateMoved, Put
      <3>2. QED
        BY <3>1
    <2>2. CASE /\ Put(u, [old EXCEPT !.pc = "export", !.card = CardJob(u)])
               /\ IsResultsExportEligible(jobs[old.job])
      <3> DEFINE r == [old EXCEPT !.pc = "export", !.card = CardJob(u)]
      <3>1. r = [pc |-> "export", job |-> old.job, event |-> old.event, prev |-> old.prev,
                 card |-> jobs[old.job].status]
        BY <1>0, UpdatePhase DEF CardJob, old
      <3>2. UpdateShape(r) /\ r.pc = "export" /\ r.job = old.job /\ r.event = old.event
            /\ r.card = jobs[old.job].status
        BY <3>1 DEF UpdateShape
      <3>3. update' = [update EXCEPT ![u] = r]
        BY <2>2 DEF Put
      <3> HIDE DEF r
      <3>4. UpdateMoved(u, r)
        BY <1>0, <2>0, <2>2, <3>2, <3>3 DEF UpdateMoved
      <3>5. QED
        BY <3>4
    <2>3. QED
      BY <1>6, <2>1, <2>2 DEF onEvaluationJobUpdated, old
  <1>7. ASSUME BeginExport(u)
        PROVE  \E r : UpdateMoved(u, r)
    <2>1. PICK pc \in {"card", "oci"} : Put(u, [old EXCEPT !.pc = pc])
      BY <1>7 DEF BeginExport, old
    <2> DEFINE r == [old EXCEPT !.pc = pc]
    <2>2. UpdateShape(r) /\ r.pc = pc /\ r.job = old.job /\ r.event = old.event
          /\ r.card = old.card
      BY <1>2
    <2>3. update' = [update EXCEPT ![u] = r] /\ UNCHANGED <<exports, storeVars>>
          /\ old.pc = "export"
      BY <1>7, <2>1 DEF BeginExport, Put, old
    <2> HIDE DEF r
    <2>4. UpdateMoved(u, r)
      BY <1>0, <2>1, <2>2, <2>3 DEF UpdateMoved, old
    <2>5. QED
      BY <2>4
  <1>8. ASSUME NEW target, NEW ok, Attempt(u, target, ok)
        PROVE  \E x : /\ x.status = old.card
                      /\ exports' = [exports EXCEPT ![old.job] = @ \cup {x}]
    <2> DEFINE x == [target |-> target, ok |-> ok, status |-> old.card]
    <2>1. x.status = old.card /\ exports' = [exports EXCEPT ![old.job] = @ \cup {x}]
      BY <1>8 DEF Attempt, old
    <2>2. QED
      BY <2>1
  <1>9. ASSUME PersistEvalCard(u)
        PROVE  \E r : UpdateMoved(u, r)
    <2> DEFINE r == [old EXCEPT !.pc = "oci"]
    <2>1. UpdateShape(r) /\ r.pc = "oci" /\ r.job = old.job /\ r.event = old.event
          /\ r.card = old.card
      BY <1>2
    <2>2. update' = [update EXCEPT ![u] = r] /\ UNCHANGED storeVars /\ old.pc = "card"
      BY <1>9 DEF PersistEvalCard, Put, old
    <2>3. \E x : x.status = old.card /\ exports' = [exports EXCEPT ![old.job] = @ \cup {x}]
      BY <1>8, <1>9 DEF PersistEvalCard
    <2> HIDE DEF r
    <2>4. UpdateMoved(u, r)
      BY <1>0, <2>1, <2>2, <2>3 DEF UpdateMoved, old
    <2>5. QED
      BY <2>4
  <1>10. ASSUME PublishEvalCard(u)
         PROVE  \E r : UpdateMoved(u, r)
    <2>1. UNCHANGED storeVars /\ old.pc = "oci" /\ Put(u, Answered)
      BY <1>10 DEF PublishEvalCard, old
    <2>2. \/ UNCHANGED exports
          \/ \E x : x.status = old.card /\ exports' = [exports EXCEPT ![old.job] = @ \cup {x}]
      BY <1>8, <1>10 DEF PublishEvalCard
    <2>3. UpdateMoved(u, Answered)
      BY <1>1, <2>1, <2>2 DEF UpdateMoved, Put, old
    <2>4. QED
      BY <2>3
  <1>11. UNCHANGED <<create, cancel, launched>>
    BY DEF UpdateMoves, UpdateStep, ReadPreviousState, StoreEvent,
           RecordTerminalStateAfterUpdate, onEvaluationJobUpdated, BeginExport,
           PersistEvalCard, PublishEvalCard
  <1>12. QED
    BY <1>3, <1>4, <1>5, <1>6, <1>7, <1>9, <1>10, <1>11 DEF UpdateMoves, UpdateStep

\* A cancellation tells the store of one job, that of its request.
LEMMA CancelMove ==
  ASSUME CallsOK, NEW c \in Cancels, CancelMoves(c)
  PROVE  /\ \E r : /\ cancel' = [cancel EXCEPT ![c] = r]
                   /\ CancelShape(r)
                   /\ r.pc # "done" => r.job \in Jobs
         /\ \/ UNCHANGED storeVars
            \/ \E i \in Jobs : UpdateEvaluationJobStatus(i, "cancelled") \/ DeleteEvaluationJob(i)
         /\ UNCHANGED <<create, update, launched, exports>>
  <1> DEFINE old == cancel[c]
  <1>0. CancelShape(old) /\ (old.pc \notin {"idle", "done"} => old.job \in Jobs)
    BY DEF CallsOK
  <1>1. CancelShape(Gone) /\ Gone.pc = "done"
    <2>1. CancelShape(NoCancel)
      <3>1. /\ NoCancel.pc = "idle" /\ NoCancel.job = NoJob /\ NoCancel.prev = "none"
            /\ NoCancel.hard = FALSE
        BY Zenon DEF NoCancel
      <3>2. QED
        BY <3>1, Zenon DEF NoCancel, CancelShape
    <2>2. Gone = [pc |-> "done", job |-> NoCancel.job, hard |-> NoCancel.hard,
                  prev |-> NoCancel.prev]
      BY <2>1, CancelPhase DEF Gone
    <2>3. QED
      BY <2>2 DEF CancelShape
  <1>2. ASSUME NEW w \in Withdrawals[c], SnapshotJob(c, w.job, w.hard)
        PROVE  \E r : /\ cancel' = [cancel EXCEPT ![c] = r]
                      /\ CancelShape(r)
                      /\ r.pc # "done" => r.job \in Jobs
    <2> DEFINE r == [pc |-> "signal", job |-> w.job, hard |-> w.hard, prev |-> jobs[w.job].state]
    <2>1. CancelShape(r) /\ r.job \in Jobs
      BY SubmissionsAssumption DEF CancelShape
    <2>2. cancel' = [cancel EXCEPT ![c] = r]
      BY <1>2 DEF SnapshotJob
    <2>3. QED
      BY <2>1, <2>2
  <1>3. ASSUME cancel' = [cancel EXCEPT ![c].pc = "count"], old.pc = "signal"
        PROVE  \E r : /\ cancel' = [cancel EXCEPT ![c] = r]
                      /\ CancelShape(r)
                      /\ r.pc # "done" => r.job \in Jobs
    <2> DEFINE r == [old EXCEPT !.pc = "count"]
    <2>1. r = [pc |-> "count", job |-> old.job, hard |-> old.hard, prev |-> old.prev]
      BY <1>0, CancelPhase
    <2>2. CancelShape(r) /\ r.job \in Jobs
      BY <1>0, <1>3, <2>1 DEF CancelShape
    <2>3. cancel' = [cancel EXCEPT ![c] = r]
      BY <1>3
    <2> HIDE DEF r
    <2>4. QED
      BY <2>2, <2>3
  <1>4. ASSUME SignalStore(c)
        PROVE  \/ UNCHANGED storeVars
               \/ \E i \in Jobs : UpdateEvaluationJobStatus(i, "cancelled") \/ DeleteEvaluationJob(i)
    BY <1>0, <1>4 DEF SignalStore
  <1>5. ASSUME SignalStore(c)
        PROVE  \E r : /\ cancel' = [cancel EXCEPT ![c] = r]
                      /\ CancelShape(r)
                      /\ r.pc # "done" => r.job \in Jobs
    BY <1>1, <1>3, <1>5 DEF SignalStore
  <1> HIDE DEF old
  <1>6. CASE SignalStore(c)
    BY <1>4, <1>5, <1>6 DEF SignalStore
  <1>7. CASE CountCancelled(c)
    BY <1>1, <1>7 DEF CountCancelled
  <1>8. CASE \E w \in Withdrawals[c] : SnapshotJob(c, w.job, w.hard)
    BY <1>2, <1>8 DEF SnapshotJob
  <1>9. QED
    BY <1>6, <1>7, <1>8 DEF CancelMoves, CancelStep

-----------------------------------------------------------------------------
(* The handlers implement the store                                        *)

\* What a step of the handlers may do to the store: nothing, or one of its
\* operations, with what the request in progress holds.
StoreEffect ==
  \/ UNCHANGED storeVars
  \/ \E j \in Jobs :
       /\ ~Made(j) /\ Made(j)' /\ create'[j].sub = create[j].sub
       /\ create[j].sub \in Submissions[j]
       /\ \/ CreateEvaluationJob(j, create[j].sub.config)
          \/ CreateEvaluationJobAndUpdateCollection(j, create[j].sub.config)
  \/ \E u \in Updates :
       /\ update[u].pc = "store"
       /\ UpdateEvaluationJob(update[u].job, update[u].event)
  \/ \E j \in Jobs, st \in {"cancelled", "failed"} : UpdateEvaluationJobStatus(j, st)
  \/ \E j \in Jobs : DeleteEvaluationJob(j)

LEMMA CallsInit ==
  ASSUME Init
  PROVE  CallsOK
  <1>1. ASSUME NEW j \in Jobs
        PROVE  create[j] = [pc |-> "idle", sub |-> create[j].sub] /\ create[j].pc = "idle"
    BY DEF Init
  <1>2. UpdateShape(NoCall) /\ NoCall.pc = "idle"
    BY DEF NoCall, UpdateShape
  <1>3. CancelShape(NoCancel) /\ NoCancel.pc = "idle"
    <2>1. /\ NoCancel.pc = "idle" /\ NoCancel.job = NoJob /\ NoCancel.prev = "none"
          /\ NoCancel.hard = FALSE
      BY Zenon DEF NoCancel
    <2>2. QED
      BY <2>1, Zenon DEF NoCancel, CancelShape
  <1>4. /\ create = [j \in Jobs |-> create[j]]
        /\ update = [u \in Updates |-> NoCall]
        /\ cancel = [c \in Cancels |-> NoCancel]
        /\ launched = {}
    BY DEF Init
  <1>5. QED
    BY <1>1, <1>2, <1>3, <1>4 DEF CallsOK

\* The requests stay well formed.
LEMMA CallsStep ==
  ASSUME CallsOK, [Next]_vars
  PROVE  CallsOK'
  <1>1. ASSUME NEW j \in Jobs, CreateMoves(j)
        PROVE  CallsOK'
    <2>1. PICK pc, sub :
            /\ create' = [create EXCEPT ![j] = [pc |-> pc, sub |-> sub]]
            /\ pc \in {"mlflow", "store", "rejected", "start", "accepted", "mark", "error"}
            /\ pc # "rejected" => sub \in Submissions[j]
            /\ launched' = launched \/ launched' = launched \cup {j}
      BY <1>1, CreateMove
    <2>2. UNCHANGED <<update, cancel>>
      BY <1>1, CreateMove
    <2>3. /\ create' = [i \in Jobs |-> create'[i]]
          /\ \A i \in Jobs : create'[i] = IF i = j THEN [pc |-> pc, sub |-> sub] ELSE create[i]
      BY <2>1 DEF CallsOK
    <2>4. ASSUME NEW i \in Jobs
          PROVE  /\ create'[i] = [pc |-> create'[i].pc, sub |-> create'[i].sub]
                 /\ create'[i].pc \notin {"idle", "rejected"} => create'[i].sub \in Submissions[i]
      BY <2>1, <2>3 DEF CallsOK
    <2>5. launched' \subseteq Jobs /\ launched \subseteq launched'
      BY <2>1 DEF CallsOK
    <2>6. QED
      BY <2>2, <2>3, <2>4, <2>5 DEF CallsOK
  <1>2. ASSUME NEW u \in Updates, UpdateMoves(u)
        PROVE  CallsOK'
    <2>1. PICK r : UpdateMoved(u, r)
      BY <1>2, UpdateMove
    <2>2. UNCHANGED <<create, cancel, launched>>
      BY <1>2, UpdateMove
    <2>3. /\ update' = [v \in Updates |-> update'[v]]
          /\ \A v \in Updates : update'[v] = IF v = u THEN r ELSE update[v]
      BY <2>1 DEF CallsOK, UpdateMoved
    <2>4. ASSUME NEW v \in Updates
          PROVE  /\ UpdateShape(update'[v])
                 /\ update'[v].pc \notin {"idle", "done"} =>
                      update'[v].job \in launched /\ update'[v].event \in Events
      BY <2>1, <2>3 DEF CallsOK, UpdateMoved
    <2>5. QED
      BY <2>2, <2>3, <2>4 DEF CallsOK
  <1>3. ASSUME NEW c \in Cancels, CancelMoves(c)
        PROVE  CallsOK'
    <2>1. PICK r : /\ cancel' = [cancel EXCEPT ![c] = r]
                   /\ CancelShape(r)
                   /\ r.pc # "done" => r.job \in Jobs
      BY <1>3, CancelMove
    <2>2. UNCHANGED <<create, update, launched>>
      BY <1>3, CancelMove
    <2>3. /\ cancel' = [d \in Cancels |-> cancel'[d]]
          /\ \A d \in Cancels : cancel'[d] = IF d = c THEN r ELSE cancel[d]
      BY <2>1 DEF CallsOK
    <2>4. ASSUME NEW d \in Cancels
          PROVE  /\ CancelShape(cancel'[d])
                 /\ cancel'[d].pc \notin {"idle", "done"} => cancel'[d].job \in Jobs
      BY <2>1, <2>3 DEF CallsOK
    <2>5. QED
      BY <2>2, <2>3, <2>4 DEF CallsOK
  <1>4. ASSUME UNCHANGED <<storeVars, handlerVars>>
        PROVE  CallsOK'
    BY <1>4 DEF handlerVars, CallsOK
  <1>5. QED
    BY <1>1, <1>2, <1>3, <1>4, StepKinds

\* A step of the handlers is one operation of the store, or none.
LEMMA StoreEffects ==
  ASSUME CallsOK, [Next]_vars
  PROVE  StoreEffect
  <1>1. ASSUME NEW j \in Jobs, CreateMoves(j)
        PROVE  StoreEffect
    <2>1. PICK pc, sub :
            /\ create' = [create EXCEPT ![j] = [pc |-> pc, sub |-> sub]]
            /\ pc # "rejected" => sub \in Submissions[j]
            /\ create[j].pc # "idle" => sub = create[j].sub
            /\ pc = "start" => /\ create[j].pc = "store"
                               /\ \/ CreateEvaluationJob(j, sub.config)
                                  \/ CreateEvaluationJobAndUpdateCollection(j, sub.config)
            /\ pc # "start" => \/ UNCHANGED storeVars
                               \/ UpdateEvaluationJobStatus(j, "failed")
      BY <1>1, CreateMove
    <2>2. CASE pc = "start"
      <3>1. create'[j] = [pc |-> pc, sub |-> sub]
        BY <2>1 DEF CallsOK
      <3>2. ~Made(j) /\ Made(j)' /\ create'[j].sub = create[j].sub
        BY <2>1, <2>2, <3>1 DEF Made
      <3>3. create[j].sub = sub /\ sub \in Submissions[j]
        BY <2>1, <2>2
      <3>4. QED
        BY <2>1, <2>2, <3>2, <3>3 DEF StoreEffect
    <2>3. CASE pc # "start"
      BY <2>1, <2>3 DEF StoreEffect
    <2>4. QED
      BY <2>2, <2>3
  <1>2. ASSUME NEW u \in Updates, UpdateMoves(u)
        PROVE  StoreEffect
    BY <1>2, UpdateMove DEF StoreEffect, UpdateMoved
  <1>3. ASSUME NEW c \in Cancels, CancelMoves(c)
        PROVE  StoreEffect
    BY <1>3, CancelMove DEF StoreEffect
  <1>4. QED
    BY <1>1, <1>2, <1>3, StepKinds DEF StoreEffect

LEMMA HandlersStoreStep ==
  ASSUME CallsOK, [Next]_vars
  PROVE  [StoreNext]_storeVars
  <1>1. CASE UNCHANGED storeVars
    BY <1>1
  <1>2. ASSUME NEW j \in Jobs, create[j].sub \in Submissions[j],
               \/ CreateEvaluationJob(j, create[j].sub.config)
               \/ CreateEvaluationJobAndUpdateCollection(j, create[j].sub.config)
        PROVE  StoreNext
    <2>1. create[j].sub.config \in Requests
      BY <1>2, SubmissionsAssumption
    <2>2. QED
      BY <1>2, <2>1 DEF StoreNext
  <1>3. ASSUME NEW u \in Updates, update[u].pc = "store",
               UpdateEvaluationJob(update[u].job, update[u].event)
        PROVE  StoreNext
    <2>1. update[u].job \in Jobs /\ update[u].event \in Events
      BY <1>3 DEF CallsOK
    <2>2. QED
      BY <1>3, <2>1 DEF StoreNext
  <1>4. ASSUME NEW j \in Jobs, NEW st \in {"cancelled", "failed"},
               UpdateEvaluationJobStatus(j, st) \/ DeleteEvaluationJob(j)
        PROVE  StoreNext
    BY <1>4 DEF StoreNext
  <1>5. QED
    BY <1>1, <1>2, <1>3, <1>4, StoreEffects DEF StoreEffect

\* In every state of the handlers the requests in progress are well formed.
THEOREM HandlersCallsOK == Spec => []CallsOK
  BY CallsInit, CallsStep, PTL DEF Spec

\* Refinement: however the requests interleave, and wherever a call fails,
\* the tables only ever change by the atomic operations of the store.
THEOREM HandlersImplementStore == Spec => StoreSpec
  <1>1. Init => StoreInit
    BY DEF Init
  <1>2. CallsOK /\ [Next]_vars => [StoreNext]_storeVars
    BY HandlersStoreStep
  <1>3. QED
    BY <1>1, <1>2, HandlersCallsOK, PTL DEF Spec, StoreSpec

-----------------------------------------------------------------------------
(* The evaluation card                                                     *)

\* The row of a job that was made is the one of its submission, and only such
\* jobs are launched.
MadeOK ==
  /\ \A j \in Jobs : Made(j) => jobs[j].state # "none" /\ jobs[j].config = create[j].sub.config
  /\ \A j \in launched : Made(j)

\* Only benchmarks of the list of a job have a status entry, the collection's
\* list for a job that names a collection; when the job has results to export
\* each of them is done.
Listed(row) ==
  /\ \A s \in Slots : row.status[s] # "none" => s \in JobBenchmarks(row.config)
  /\ IsResultsExportEligible(row) =>
       \A s \in JobBenchmarks(row.config) : row.status[s] \in {"completed", "failed"}
ListedOK ==
  /\ \A j \in Jobs : Made(j) => Listed(jobs[j])
  /\ \A u \in Updates : update[u].pc = "store" =>
       update[u].event.slot \in JobBenchmarks(jobs[update[u].job].config)

\* The card shows the finished job: its list is done, and its statuses are those
\* of the row as long as there is one.
Final(j, status) ==
  /\ Made(j)
  /\ \/ IsResultsExportEligible(jobs[j]) /\ status = jobs[j].status
     \/ jobs[j].state = "deleted"
  /\ \A s \in JobBenchmarks(jobs[j].config) : status[s] \in {"completed", "failed"}

CardsOK ==
  /\ exports = [j \in Jobs |-> exports[j]]
  /\ \A u \in Updates : update[u].pc \in {"export", "card", "oci"} =>
        Final(update[u].job, update[u].card)
  /\ \A j \in Jobs : \A x \in exports[j] : Final(j, x.status)

CardInv == MadeOK /\ ListedOK /\ CardsOK

\* No request edits a collection: the lists that events are compared with stay
\* (only the run count moves).
LEMMA ListsKept ==
  ASSUME TypeOK, CallsOK, [Next]_vars, NEW c, c \in JobConfigs
  PROVE  JobBenchmarks(c)' = JobBenchmarks(c)
  <1>1. ASSUME UNCHANGED collections
        PROVE  JobBenchmarks(c)' = JobBenchmarks(c)
    BY <1>1 DEF JobBenchmarks
  <1>2. ASSUME NEW j, NEW r, CreateEvaluationJobAndUpdateCollection(j, r)
        PROVE  JobBenchmarks(c)' = JobBenchmarks(c)
    <2>1. \A d \in Collections : /\ collections'[d].exists = collections[d].exists
                                 /\ collections'[d].list = collections[d].list
      BY <1>2 DEF CreateEvaluationJobAndUpdateCollection, TypeOK, CollectionRows
    <2>2. ~IsDirect(c) => c.collection \in Collections
      BY DEF JobConfigs, IsDirect
    <2>3. QED
      BY <2>1, <2>2 DEF JobBenchmarks
  <1>3. ASSUME NEW j, NEW x, \/ CreateEvaluationJob(j, x) \/ UpdateEvaluationJob(j, x)
                             \/ UpdateEvaluationJobStatus(j, x) \/ DeleteEvaluationJob(j)
        PROVE  UNCHANGED collections
    BY <1>3 DEF CreateEvaluationJob, UpdateEvaluationJob, UpdateEvaluationJobStatus,
                DeleteEvaluationJob
  <1>4. UNCHANGED storeVars => UNCHANGED collections
    BY DEF storeVars
  <1>5. QED
    BY <1>1, <1>2, <1>3, <1>4, StoreEffects DEF StoreEffect

\* The submission and the configuration of a job that was made stay.
LEMMA MadeKept ==
  ASSUME TypeOK, RowsOK, CallsOK, MadeOK, [Next]_vars, NEW j \in Jobs, Made(j)
  PROVE  /\ Made(j)' /\ create'[j].sub = create[j].sub
         /\ jobs'[j].config = jobs[j].config /\ jobs'[j].state # "none"
         /\ KeepsTerminal(j) /\ (jobs[j].state = "deleted" => jobs'[j] = jobs[j])
  <1>1. Made(j)' /\ create'[j].sub = create[j].sub
    <2>1. ASSUME UNCHANGED create
          PROVE  Made(j)' /\ create'[j].sub = create[j].sub
      BY <2>1 DEF Made
    <2>2. ASSUME NEW i \in Jobs, CreateMoves(i)
          PROVE  Made(j)' /\ create'[j].sub = create[j].sub
      <3>1. PICK pc, sub :
              /\ create' = [create EXCEPT ![i] = [pc |-> pc, sub |-> sub]]
              /\ create[i].pc # "idle" => sub = create[i].sub
              /\ Made(i) => pc \in {"accepted", "mark", "error"}
        BY <2>2, CreateMove
      <3>2. CASE i = j
        <4>1. create'[j] = [pc |-> pc, sub |-> sub]
          BY <3>1, <3>2 DEF CallsOK
        <4>2. QED
          BY <3>1, <3>2, <4>1 DEF Made
      <3>3. CASE i # j
        <4>1. create'[j] = create[j]
          BY <3>1, <3>3 DEF CallsOK
        <4>2. QED
          BY <4>1 DEF Made
      <3>4. QED
        BY <3>2, <3>3
    <2>3. ASSUME NEW u \in Updates, UpdateMoves(u)
          PROVE  UNCHANGED create
      BY <2>3, UpdateMove
    <2>4. ASSUME NEW c \in Cancels, CancelMoves(c)
          PROVE  UNCHANGED create
      BY <2>4, CancelMove
    <2>5. QED
      BY <2>1, <2>2, <2>3, <2>4, StepKinds DEF handlerVars
  <1>2. [StoreNext]_storeVars
    BY HandlersStoreStep
  <1>3. jobs[j] \in Rows /\ jobs[j].state # "none"
    BY DEF TypeOK, MadeOK
  <1>4. Exists(jobs[j]) \/ jobs[j].state = "deleted"
    BY <1>3 DEF Exists, Rows
  <1>5. QED
    BY <1>1, <1>2, <1>3, <1>4, FinishedRowStep

LEMMA MadeStep ==
  ASSUME TypeOK, RowsOK, CallsOK, MadeOK, [Next]_vars
  PROVE  MadeOK'
  <1>1. ASSUME NEW j \in Jobs, Made(j)'
        PROVE  jobs'[j].state # "none" /\ jobs'[j].config = create'[j].sub.config
    <2>1. CASE Made(j)
      BY <2>1, MadeKept DEF MadeOK
    <2>2. CASE ~Made(j)
      <3>1. PICK i \in Jobs : CreateMoves(i)
        <4>1. create' # create
          BY <1>1, <2>2 DEF Made
        <4>2. QED
          BY <4>1, StepKinds, UpdateMove, CancelMove DEF handlerVars
      <3>2. PICK pc, sub :
              /\ create' = [create EXCEPT ![i] = [pc |-> pc, sub |-> sub]]
              /\ pc = "start" => \/ CreateEvaluationJob(i, sub.config)
                                 \/ CreateEvaluationJobAndUpdateCollection(i, sub.config)
              /\ pc \in {"accepted", "mark", "error"} => Made(i)
        BY <3>1, CreateMove
      <3>3. i = j
        BY <1>1, <2>2, <3>2 DEF Made, CallsOK
      <3>4. create'[j] = [pc |-> pc, sub |-> sub]
        BY <3>2, <3>3 DEF CallsOK
      <3>5. pc = "start"
        BY <1>1, <2>2, <3>2, <3>3, <3>4 DEF Made
      <3>6. jobs'[j] = NewRow(sub.config)
        BY <3>2, <3>3, <3>5 DEF CreateEvaluationJob, CreateEvaluationJobAndUpdateCollection,
                                TypeOK
      <3>7. NewRow(sub.config).state = "pending" /\ NewRow(sub.config).config = sub.config
        BY DEF NewRow, EmptyRow
      <3>8. QED
        BY <3>4, <3>6, <3>7
    <2>3. QED
      BY <2>1, <2>2
  <1>2. ASSUME NEW j \in launched'
        PROVE  Made(j)'
    <2>1. CASE j \in launched
      BY <2>1, MadeKept DEF MadeOK, CallsOK
    <2>2. CASE j \notin launched
      <3>1. PICK i \in Jobs : CreateMoves(i)
        <4>1. launched' # launched
          BY <1>2, <2>2
        <4>2. QED
          BY <4>1, StepKinds, UpdateMove, CancelMove DEF handlerVars
      <3>2. PICK pc, sub :
              /\ create' = [create EXCEPT ![i] = [pc |-> pc, sub |-> sub]]
              /\ launched' = launched \/ (launched' = launched \cup {i} /\ pc = "accepted")
        BY <3>1, CreateMove
      <3>3. i = j /\ pc = "accepted"
        BY <1>2, <2>2, <3>2
      <3>4. create'[j] = [pc |-> pc, sub |-> sub]
        BY <3>2, <3>3 DEF CallsOK
      <3>5. QED
        BY <3>3, <3>4 DEF Made
    <2>3. QED
      BY <2>1, <2>2
  <1>3. QED
    BY <1>1, <1>2 DEF MadeOK

\* An event for a benchmark of the list leaves a row whose entries are for the
\* list, and a state that says it has results only when all of it is done:
\* comparing the counters of getOverallJobStatus with the length of the list is
\* enough, for a collection's list as for the job's own.
LEMMA EventListed ==
  ASSUME NEW row, RowOK(row), Updatable(row), NEW e \in Events, NEW listRead,
         NEW list \in SUBSET Slots, e.slot \in list,
         \A s \in Slots : row.status[s] # "none" => s \in list,
         NEW new, new = ApplyEvent(row, e, listRead, list)
  PROVE  /\ \A s \in Slots : new.status[s] # "none" => s \in list
         /\ IsResultsExportEligible(new) =>
              \A s \in list : new.status[s] \in {"completed", "failed"}
  <1> DEFINE st == UpdateBenchmarkStatus(row.status, e)
  <1>1. new.status = st /\ new.state = GetOverallJobStatus(st, list)
    BY DEF ApplyEvent, RowOK, Rows
  <1>2. \A s \in Slots : row.status[s] # "cancelled"
    BY DEF RowOK, CancelledWhole, Updatable, LiveStates
  <1>3. e.slot \in Slots /\ e.status \in EventStates
    BY DEF Events
  <1>4. row.status \in [Slots -> BenchmarkStates \cup {"none"}]
    BY DEF RowOK, Rows
  <1>5. \A s \in Slots : \/ st[s] = row.status[s]
                         \/ s = e.slot /\ st[s] = e.status
    BY <1>3, <1>4 DEF UpdateBenchmarkStatus
  <1>6. \A s \in Slots : st[s] # "cancelled" /\ (st[s] # "none" => s \in list)
    BY <1>2, <1>3, <1>5 DEF EventStates
  <1> HIDE DEF st
  <1>7. /\ new.state = "completed" => InState(st, "completed") = list
        /\ new.state = "partially_failed" =>
             InState(st, "completed") \cup InState(st, "failed") = list
    BY <1>1, <1>6, OverallStatusMeaning
  <1>8. QED
    BY <1>1, <1>6, <1>7 DEF IsResultsExportEligible, InState

\* A row whose list stays is listed after a step of the store, when the event
\* was for a benchmark of the list.
LEMMA ListedStep ==
  ASSUME TypeOK, RowsOK, CallsOK, MadeOK, ListedOK, [Next]_vars
  PROVE  \A j \in Jobs : Made(j)' => Listed(jobs[j])'
  <1> SUFFICES ASSUME NEW j \in Jobs, Made(j)' PROVE Listed(jobs[j])'
    OBVIOUS
  <1> DEFINE L == JobBenchmarks(jobs'[j].config)
             Goal == /\ \A s \in Slots : jobs'[j].status[s] # "none" => s \in L
                     /\ IsResultsExportEligible(jobs[j])' =>
                          \A s \in L : jobs'[j].status[s] \in {"completed", "failed"}
  <1>1. [StoreNext]_storeVars /\ TypeOK'
    BY HandlersStoreStep, StoreTypeStep
  <1>2. L = JobBenchmarks(jobs[j].config)'
    <2>1. jobs'[j].config \in JobConfigs
      BY <1>1 DEF TypeOK, Rows
    <2> DEFINE c == jobs'[j].config
    <2>2. PICK d : d = c
      OBVIOUS
    <2>3. JobBenchmarks(d)' = JobBenchmarks(d)
      BY <2>1, <2>2, ListsKept
    <2>4. QED
      BY <2>2, <2>3 DEF JobBenchmarks
  <1>3. SUFFICES Goal
    BY <1>2 DEF Listed
  <1>4. jobs[j] \in Rows /\ jobs'[j] \in Rows /\ RowOK(jobs[j])
    BY <1>1 DEF TypeOK, RowsOK
  <1>5. ASSUME \A s \in Slots : jobs'[j].status[s] = "none",
               jobs'[j].state \notin {"completed", "partially_failed"}
        PROVE  Goal
    BY <1>5 DEF IsResultsExportEligible
  <1>6. CASE ~Made(j)
    <2>1. PICK i \in Jobs : CreateMoves(i)
      <3>1. create' # create
        BY <1>6 DEF Made
      <3>2. QED
        BY <3>1, StepKinds, UpdateMove, CancelMove DEF handlerVars
    <2>2. PICK pc, sub :
            /\ create' = [create EXCEPT ![i] = [pc |-> pc, sub |-> sub]]
            /\ pc = "start" => \/ CreateEvaluationJob(i, sub.config)
                               \/ CreateEvaluationJobAndUpdateCollection(i, sub.config)
            /\ pc \in {"accepted", "mark", "error"} => Made(i)
      BY <2>1, CreateMove
    <2>3. i = j
      BY <1>6, <2>2 DEF Made, CallsOK
    <2>4. create'[j] = [pc |-> pc, sub |-> sub]
      BY <2>2, <2>3 DEF CallsOK
    <2>5. pc = "start"
      BY <1>6, <2>2, <2>3, <2>4 DEF Made
    <2>6. jobs'[j] = NewRow(sub.config)
      BY <2>2, <2>3, <2>5 DEF CreateEvaluationJob, CreateEvaluationJobAndUpdateCollection,
                              TypeOK
    <2>7. NewRow(sub.config).state = "pending" /\ NewRow(sub.config).status = EmptyRow.status
      BY DEF NewRow, EmptyRow
    <2>8. \A s \in Slots : EmptyRow.status[s] = "none"
      BY DEF EmptyRow
    <2>9. QED
      BY <1>5, <2>6, <2>7, <2>8
  <1>7. CASE Made(j)
    <2>0. /\ jobs'[j].config = jobs[j].config /\ L = JobBenchmarks(jobs[j].config)
          /\ Listed(jobs[j]) /\ jobs[j].state # "none"
          /\ L \in SUBSET Slots
      BY <1>4, <1>7, MadeKept, ListsAreSlots DEF ListedOK, MadeOK
    <2> HIDE DEF L
    <2>1. ASSUME jobs'[j] = jobs[j]
          PROVE  Goal
      BY <2>0, <2>1 DEF Listed, IsResultsExportEligible
    <2>2. ASSUME NEW i \in Jobs, NEW r,
                 CreateEvaluationJob(i, r) \/ CreateEvaluationJobAndUpdateCollection(i, r)
          PROVE  Goal
      <3>1. jobs[i].state = "none" /\ jobs' = [jobs EXCEPT ![i] = NewRow(r)]
        BY <2>2 DEF CreateEvaluationJob, CreateEvaluationJobAndUpdateCollection
      <3>2. jobs'[j] = jobs[j]
        BY <2>0, <3>1 DEF TypeOK
      <3>3. QED
        BY <2>1, <3>2
    <2>3. ASSUME NEW u \in Updates, update[u].pc = "store",
                 UpdateEvaluationJob(update[u].job, update[u].event)
          PROVE  Goal
      <3> DEFINE i == update[u].job
                 e == update[u].event
      <3>1. i \in Jobs /\ e \in Events /\ e.slot \in JobBenchmarks(jobs[i].config)
        BY <2>3 DEF CallsOK, ListedOK
      <3>2. PICK listRead :
              jobs' = [jobs EXCEPT ![i] =
                         ApplyEvent(jobs[i], e, listRead, JobBenchmarks(jobs[i].config))]
        BY <2>3 DEF UpdateEvaluationJob
      <3>3. Updatable(jobs[i])
        BY <2>3 DEF UpdateEvaluationJob
      <3> HIDE DEF i, e
      <3>4. CASE i = j
        <4>1. jobs'[j] = ApplyEvent(jobs[j], e, listRead, L)
          BY <2>0, <3>2, <3>4 DEF TypeOK
        <4>2. \A s \in Slots : jobs[j].status[s] # "none" => s \in L
          BY <2>0 DEF Listed
        <4>3. /\ \A s \in Slots : jobs'[j].status[s] # "none" => s \in L
              /\ IsResultsExportEligible(jobs'[j]) =>
                   \A s \in L : jobs'[j].status[s] \in {"completed", "failed"}
          BY <1>4, <2>0, <3>1, <3>3, <3>4, <4>1, <4>2, EventListed
        <4>4. QED
          BY <4>3 DEF IsResultsExportEligible
      <3>5. CASE i # j
        BY <2>1, <3>1, <3>2, <3>5 DEF TypeOK
      <3>6. QED
        BY <3>4, <3>5
    <2>4. ASSUME NEW i \in Jobs, NEW st \in {"cancelled", "failed"},
                 UpdateEvaluationJobStatus(i, st)
          PROVE  Goal
      <3>1. jobs' = [jobs EXCEPT ![i] = SetState(jobs[i], st)]
        BY <2>4 DEF UpdateEvaluationJobStatus
      <3>2. CASE i = j
        <4>1. jobs'[j] = SetState(jobs[j], st)
          BY <3>1, <3>2 DEF TypeOK
        <4>2. /\ jobs'[j].state = st
              /\ jobs'[j].status = IF st = "cancelled" THEN CancelBenchmarks(jobs[j].status)
                                   ELSE jobs[j].status
          BY <1>4, <4>1 DEF SetState, Rows
        <4>3. \A s \in Slots : jobs'[j].status[s] # "none" => jobs[j].status[s] # "none"
          BY <4>2 DEF CancelBenchmarks
        <4>4. QED
          BY <2>0, <4>2, <4>3 DEF Listed, IsResultsExportEligible
      <3>3. CASE i # j
        BY <2>1, <3>1, <3>3 DEF TypeOK
      <3>4. QED
        BY <3>2, <3>3
    <2>5. ASSUME NEW i \in Jobs, DeleteEvaluationJob(i)
          PROVE  Goal
      <3>1. jobs' = [jobs EXCEPT ![i] = [EmptyRow EXCEPT !.state = "deleted",
                                                         !.config = jobs[i].config]]
        BY <2>5 DEF DeleteEvaluationJob
      <3>2. CASE i = j
        <4>1. jobs'[j].state = "deleted" /\ jobs'[j].status = EmptyRow.status
          BY <3>1, <3>2 DEF TypeOK, EmptyRow
        <4>2. \A s \in Slots : EmptyRow.status[s] = "none"
          BY DEF EmptyRow
        <4>3. QED
          BY <1>5, <4>1, <4>2
      <3>3. CASE i # j
        BY <2>1, <3>1, <3>3 DEF TypeOK
      <3>4. QED
        BY <3>2, <3>3
    <2>6. CASE UNCHANGED storeVars
      BY <2>1, <2>6 DEF storeVars
    <2> HIDE DEF Goal
    <2>7. QED
      BY <2>2, <2>3, <2>4, <2>5, <2>6, StoreEffects DEF StoreEffect
  <1>8. QED
    BY <1>6, <1>7

\* An event is stored for a benchmark that was on the list when it arrived, and
\* is still.
LEMMA EventsListedStep ==
  ASSUME TypeOK, RowsOK, CallsOK, MadeOK, ListedOK, [Next]_vars
  PROVE  \A u \in Updates : update'[u].pc = "store" =>
           update'[u].event.slot \in JobBenchmarks(jobs[update[u].job].config)'
  <1>1. ASSUME NEW j \in launched
        PROVE  JobBenchmarks(jobs[j].config)' = JobBenchmarks(jobs[j].config)
    <2>1. j \in Jobs /\ Made(j) /\ jobs[j].config \in JobConfigs
      BY DEF MadeOK, CallsOK, TypeOK, Rows
    <2>2. jobs'[j].config = jobs[j].config
      BY <2>1, MadeKept
    <2>3. PICK d : d = jobs[j].config
      OBVIOUS
    <2>4. JobBenchmarks(d)' = JobBenchmarks(d)
      BY <2>1, <2>3, ListsKept
    <2>5. QED
      BY <2>2, <2>3, <2>4 DEF JobBenchmarks
  <1>2. ASSUME NEW v \in Updates, update'[v] = update[v], update[v].pc = "store"
        PROVE  update'[v].event.slot \in JobBenchmarks(jobs[update[v].job].config)'
    BY <1>1, <1>2 DEF ListedOK, CallsOK
  <1>3. ASSUME UNCHANGED update
        PROVE  \A v \in Updates : update'[v].pc = "store" =>
                 update'[v].event.slot \in JobBenchmarks(jobs[update[v].job].config)'
    BY <1>2, <1>3
  <1>4. ASSUME NEW u \in Updates, UpdateMoves(u), NEW v \in Updates, update'[v].pc = "store"
        PROVE  update'[v].event.slot \in JobBenchmarks(jobs[update[v].job].config)'
    <2>1. PICK r : UpdateMoved(u, r)
      BY <1>4, UpdateMove
    <2>2. update'[v] = IF v = u THEN r ELSE update[v]
      BY <2>1 DEF UpdateMoved, CallsOK
    <2>3. CASE v = u
      <3>1. r.job \in launched /\ r.event.slot \in JobBenchmarks(jobs[r.job].config)
        BY <1>4, <2>1, <2>2, <2>3 DEF UpdateMoved
      <3>2. PICK j \in launched : j = r.job
        BY <3>1
      <3>3. JobBenchmarks(jobs[j].config)' = JobBenchmarks(jobs[j].config)
        BY <1>1
      <3>4. QED
        BY <2>2, <2>3, <3>1, <3>2, <3>3
    <2>4. CASE v # u
      BY <1>2, <1>4, <2>2, <2>4
    <2>5. QED
      BY <2>3, <2>4
  <1>5. QED
    BY <1>3, <1>4, StepKinds, CreateMove, CancelMove DEF handlerVars

\* A final card stays final: the row does not change any more, except to be
\* deleted, and neither does the list.
LEMMA FinalKept ==
  ASSUME TypeOK, RowsOK, CallsOK, MadeOK, [Next]_vars, NEW j \in Jobs, NEW status,
         Final(j, status)
  PROVE  Final(j, status)'
  <1>1. Made(j)
    BY DEF Final
  <1>2. /\ Made(j)' /\ jobs'[j].config = jobs[j].config
        /\ KeepsTerminal(j) /\ (jobs[j].state = "deleted" => jobs'[j] = jobs[j])
    BY <1>1, MadeKept
  <1>3. JobBenchmarks(jobs[j].config)' = JobBenchmarks(jobs[j].config)
    <2>1. jobs[j].config \in JobConfigs
      BY DEF TypeOK, Rows
    <2>2. PICK d : d = jobs[j].config
      OBVIOUS
    <2>3. JobBenchmarks(d)' = JobBenchmarks(d)
      BY <2>1, <2>2, ListsKept
    <2>4. QED
      BY <1>2, <2>2, <2>3 DEF JobBenchmarks
  <1>4. \/ IsResultsExportEligible(jobs[j])' /\ status = jobs'[j].status
        \/ jobs'[j].state = "deleted"
    BY <1>2 DEF Final, KeepsTerminal, IsTerminal, TerminalStates, IsResultsExportEligible
  <1>5. QED
    BY <1>2, <1>3, <1>4 DEF Final

LEMMA CardsStep ==
  ASSUME TypeOK, RowsOK, CallsOK, CardInv, [Next]_vars
  PROVE  CardsOK'
  <1>0. MadeOK /\ ListedOK /\ CardsOK
    BY DEF CardInv
  <1>1. ASSUME NEW v \in Updates, update[v].pc \in {"export", "card", "oci"}
        PROVE  update[v].job \in Jobs /\ Final(update[v].job, update[v].card)
    BY <1>0, <1>1 DEF CardsOK, CallsOK
  <1>2. ASSUME NEW v \in Updates, update[v].pc \in {"export", "card", "oci"},
               update'[v].job = update[v].job, update'[v].card = update[v].card
        PROVE  Final(update[v].job, update[v].card)'
    <2>1. PICK j, st : j \in Jobs /\ j = update[v].job /\ st = update[v].card
      BY <1>1, <1>2
    <2>2. Final(j, st)
      BY <1>1, <1>2, <2>1
    <2>3. Final(j, st)'
      BY <1>0, <2>1, <2>2, FinalKept
    <2>4. QED
      BY <1>2, <2>1, <2>3 DEF Final, Made
  <1>3. ASSUME NEW j \in Jobs, NEW x \in exports[j]
        PROVE  Final(j, x.status)'
    <2>1. PICK st : st = x.status
      OBVIOUS
    <2>2. Final(j, st)
      BY <1>0, <2>1 DEF CardsOK
    <2>3. QED
      BY <1>0, <2>1, <2>2, FinalKept
  <1>4. ASSUME UNCHANGED <<update, exports>>
        PROVE  CardsOK'
    <2>1. ASSUME NEW v \in Updates, update'[v].pc \in {"export", "card", "oci"}
          PROVE  Final(update[v].job, update[v].card)'
      BY <1>2, <1>4, <2>1
    <2>2. ASSUME NEW j \in Jobs, NEW x \in exports'[j]
          PROVE  Final(j, x.status)'
      BY <1>3, <1>4
    <2>3. exports' = [j \in Jobs |-> exports'[j]]
      BY <1>0, <1>4 DEF CardsOK
    <2>4. QED
      BY <2>1, <2>2, <2>3 DEF CardsOK
  <1>5. ASSUME NEW u \in Updates, UpdateMoves(u)
        PROVE  CardsOK'
    <2>1. PICK r : UpdateMoved(u, r)
      BY <1>5, UpdateMove
    <2>2. \A v \in Updates : update'[v] = IF v = u THEN r ELSE update[v]
      BY <2>1 DEF UpdateMoved, CallsOK
    <2>3. ASSUME NEW v \in Updates, update'[v].pc \in {"export", "card", "oci"}
          PROVE  Final(update[v].job, update[v].card)'
      <3>1. CASE v # u
        BY <1>2, <2>2, <2>3, <3>1
      <3>2. CASE v = u /\ r.pc \in {"card", "oci"}
        <4>1. /\ update[u].pc \in {"export", "card", "oci"}
              /\ update'[u].job = update[u].job /\ update'[u].card = update[u].card
          BY <2>1, <2>2, <3>2 DEF UpdateMoved
        <4>2. QED
          BY <1>2, <3>2, <4>1
      <3>3. CASE v = u /\ r.pc = "export"
        <4>1. /\ r.job \in launched /\ IsResultsExportEligible(jobs[r.job])
              /\ r.card = jobs[r.job].status
          BY <2>1, <3>3 DEF UpdateMoved
        <4>2. PICK j, st : j \in Jobs /\ j = r.job /\ st = r.card
          BY <4>1 DEF CallsOK
        <4>3. Made(j) /\ Listed(jobs[j])
          BY <1>0, <4>1, <4>2 DEF MadeOK, ListedOK
        <4>4. Final(j, st)
          BY <4>1, <4>2, <4>3 DEF Final, Listed
        <4>5. Final(j, st)'
          BY <1>0, <4>2, <4>4, FinalKept
        <4>6. update'[v].job = j /\ update'[v].card = st
          BY <2>2, <3>3, <4>2
        <4>7. QED
          BY <4>5, <4>6 DEF Final, Made
      <3>4. QED
        BY <2>2, <2>3, <3>1, <3>2, <3>3
    <2>4. ASSUME NEW j \in Jobs, NEW x \in exports'[j]
          PROVE  Final(j, x.status)'
      <3>1. CASE x \in exports[j]
        BY <1>3, <3>1
      <3>2. CASE x \notin exports[j]
        <4>1. PICK y : /\ update[u].pc \in {"card", "oci"} /\ y.status = update[u].card
                       /\ exports' = [exports EXCEPT ![update[u].job] = @ \cup {y}]
          BY <2>1, <3>2 DEF UpdateMoved
        <4>2. x = y /\ j = update[u].job
          BY <1>0, <3>2, <4>1 DEF CardsOK
        <4>3. PICK st : st = x.status
          OBVIOUS
        <4>4. Final(j, st)
          BY <1>1, <4>1, <4>2, <4>3
        <4>5. QED
          BY <1>0, <4>3, <4>4, FinalKept
      <3>3. QED
        BY <3>1, <3>2
    <2>5. exports' = [j \in Jobs |-> exports'[j]]
      BY <1>0, <2>1 DEF CardsOK, UpdateMoved
    <2>6. QED
      BY <2>3, <2>4, <2>5 DEF CardsOK
  <1>6. QED
    BY <1>4, <1>5, StepKinds, CreateMove, CancelMove DEF handlerVars

LEMMA CardInit ==
  ASSUME Init
  PROVE  CardInv
  <1>1. \A j \in Jobs : create[j].pc = "idle" /\ exports[j] = {}
    BY DEF Init
  <1>2. \A u \in Updates : update[u].pc = "idle"
    BY DEF Init, NoCall
  <1>3. launched = {} /\ exports = [j \in Jobs |-> exports[j]]
    BY DEF Init
  <1>4. QED
    BY <1>1, <1>2, <1>3 DEF CardInv, MadeOK, Made, ListedOK, CardsOK

LEMMA CardStep ==
  ASSUME TypeOK, RowsOK, CallsOK, CardInv, [Next]_vars
  PROVE  CardInv'
  <1>1. MadeOK /\ ListedOK
    BY DEF CardInv
  <1>2. MadeOK' /\ CardsOK'
    BY <1>1, MadeStep, CardsStep
  <1>3. ListedOK'
    BY <1>1, ListedStep, EventsListedStep DEF ListedOK
  <1>4. QED
    BY <1>2, <1>3 DEF CardInv

\* In every state of the handlers a card in preparation or exported is final.
THEOREM HandlersCardInv == Spec => []CardInv
  <1>1. Spec => []TypeOK /\ []RowsOK
    BY HandlersImplementStore, StoreTypeOK, StoreRowsOK, PTL
  <1>2. Init => CardInv
    BY CardInit
  <1>3. TypeOK /\ RowsOK /\ CallsOK /\ CardInv /\ [Next]_vars => CardInv'
    BY CardStep
  <1>4. QED
    BY <1>1, <1>2, <1>3, HandlersCallsOK, PTL DEF Spec

\* For every set of jobs, events and cancellations, and wherever a call fails:
\* a card that leaves eval-hub shows the finished job (onEvaluationJobUpdated,
\* exportEvaluationResults).
THEOREM HandlersCardIsFinal == Spec => []CardIsFinal
  <1>1. CardInv => CardIsFinal
    <2> SUFFICES ASSUME CardInv, NEW j \in Jobs, NEW x \in exports[j]
                 PROVE  /\ \A b \in JobBenchmarks(create[j].sub.config) :
                             x.status[b] \in {"completed", "failed"}
                        /\ Exists(jobs[j]) => x.status = jobs[j].status
      BY DEF CardIsFinal
    <2>1. Final(j, x.status)
      BY DEF CardInv, CardsOK
    <2>2. jobs[j].config = create[j].sub.config
      BY <2>1 DEF CardInv, MadeOK, Final
    <2>3. "deleted" \notin OverallStates
      BY DEF OverallStates, LiveStates, TerminalStates
    <2>4. QED
      BY <2>1, <2>2, <2>3 DEF Final, Exists
  <1>2. QED
    BY <1>1, HandlersCardInv, PTL

-----------------------------------------------------------------------------
(* The MLflow client                                                       *)

\* The capability is unknown or what the server has, and the call that is
\* registered is the one whose goroutine runs.
ProbeOK ==
  /\ server \in {"workspaces", "plain"}
  /\ support \in {"unknown", ProbeWorkspacesEnabled}
  /\ probe \in {"none", "asking", "answered", "failed"}
  /\ inflight <=> probe # "none"
  /\ asked = IF probe = "asking" THEN 1 ELSE 0
  /\ probe = "answered" => Resolved

\* How far a caller may have come: it waits for a registered call, it goes on
\* only with the capability resolved, and where requests carry the header it
\* is ready only when the workspace is there.
CallerOK(p) ==
  /\ client[p] = "waiting" => inflight
  /\ client[p] \in {"ensure", "create", "confirm", "ready"} => Resolved
  /\ client[p] \in {"create", "confirm"} => Header
  /\ client[p] = "confirm" => workspace
  /\ client[p] = "ready" /\ Header => workspace
ClientsOK ==
  /\ client = [p \in Callers |-> client[p]]
  /\ \A p \in Callers : CallerOK(p)

PlaceOK(place) == IF server = "workspaces" THEN place = "tenant" /\ workspace
                  ELSE place = "default"
ExperimentsOK ==
  /\ experiment = [j \in Jobs |-> experiment[j]]
  /\ \A j \in Jobs : experiment[j] # "none" => PlaceOK(experiment[j])

MLflowOK == ProbeOK /\ ClientsOK /\ ExperimentsOK

\* Once the capability is resolved, or a workspace made, it stays.
LEMMA CapabilityStays ==
  ASSUME MLflowOK, [Next]_vars
  PROVE  /\ UNCHANGED server
         /\ Resolved => UNCHANGED support
         /\ workspace => workspace'
  <1>1. ASSUME UNCHANGED <<server, support, workspace>>
        PROVE  UNCHANGED server /\ (Resolved => UNCHANGED support) /\ (workspace => workspace')
    BY <1>1
  <1>2. ASSUME NEW j \in Jobs, CreateMoves(j)
        PROVE  UNCHANGED <<server, support, workspace>>
    BY <1>2 DEF CreateMoves, CreateStep, HandleCreateEvaluation, GetOrCreateExperimentID,
                MLFlowRequestFailed, StoreEvaluationJob, ExecuteEvaluationJob, MarkFailed,
                mlflowVars
  <1>3. ASSUME NEW u \in Updates, UpdateMoves(u)
        PROVE  UNCHANGED <<server, support, workspace>>
    BY <1>3 DEF UpdateMoves, UpdateStep, ReadPreviousState, StoreEvent,
                RecordTerminalStateAfterUpdate, onEvaluationJobUpdated, BeginExport,
                PersistEvalCard, PublishEvalCard, mlflowVars
  <1>4. ASSUME NEW c \in Cancels, CancelMoves(c)
        PROVE  UNCHANGED <<server, support, workspace>>
    BY <1>4 DEF CancelMoves, CancelStep, SnapshotJob, SignalStore, CountCancelled, mlflowVars
  <1>5. ASSUME NEW p \in Callers, ClientStep(p) \/ GiveUp(p)
        PROVE  UNCHANGED <<server, support>> /\ (workspace => workspace')
    BY <1>5 DEF ClientStep, MLflowStep, GiveUp, ResolveCached, Resolve, GetWorkspace,
                CreateWorkspace, ConfirmWorkspace
  <1>6. ASSUME ProbeStep
        PROVE  UNCHANGED <<server, workspace>> /\ (Resolved => UNCHANGED support)
    BY <1>6 DEF ProbeStep, ProbeAnswers, ProbeDone, runProbe, MLflowOK, ProbeOK, Resolved
  <1>7. CASE UNCHANGED vars
    BY <1>1, <1>7 DEF vars, mlflowVars
  <1>8. CASE Next
    BY <1>1, <1>2, <1>3, <1>4, <1>5, <1>6, <1>8 DEF Next, CreateMoves, UpdateMoves, CancelMoves
  <1>9. QED
    BY <1>7, <1>8

\* A handler only prepares its client anew or drops it; the experiment is made
\* with a client that is ready.
HandlerOf(p) ==
  /\ UNCHANGED <<server, support, inflight, probe, asked, workspace>>
  /\ \/ UNCHANGED client
     \/ \E phase \in {"resolve", "idle"} : client' = [client EXCEPT ![p] = phase]
  /\ \/ UNCHANGED experiment
     \/ p \in Jobs /\ client[p] = "ready"
        /\ experiment' = [experiment EXCEPT ![p] = ExperimentWorkspace(p)]

LEMMA HandlersOfClient ==
  ASSUME [Next]_vars
  PROVE  \/ \E p \in Callers : HandlerOf(p)
         \/ UNCHANGED <<mlflowVars, experiment>>
         \/ UNCHANGED <<server, support, inflight, probe, asked, workspace, client, experiment>>
         \/ \E p \in Callers : (MLflowStep(p) \/ GiveUp(p)) /\ UNCHANGED experiment
         \/ (ProbeAnswers \/ ProbeDone) /\ UNCHANGED experiment
  <1> DEFINE Same == UNCHANGED <<server, support, inflight, probe, asked, workspace, client,
                                 experiment>>
  <1>0. Jobs \subseteq Callers /\ Updates \subseteq Callers
    BY SubmissionsAssumption
  <1>1. ASSUME NEW j \in Jobs, CreateMoves(j)
        PROVE  HandlerOf(j)
    <2>1. CASE \E s \in Submissions[j] : HandleCreateEvaluation(j, s)
      BY <2>1 DEF HandleCreateEvaluation, HandlerOf
    <2>2. CASE GetOrCreateExperimentID(j)
      BY <2>2 DEF GetOrCreateExperimentID, Step, HandlerOf
    <2>3. CASE MLFlowRequestFailed(j)
      BY <2>3 DEF MLFlowRequestFailed, Step, HandlerOf
    <2>4. CASE StoreEvaluationJob(j) \/ ExecuteEvaluationJob(j) \/ MarkFailed(j)
      BY <2>4 DEF StoreEvaluationJob, ExecuteEvaluationJob, MarkFailed, mlflowVars, HandlerOf
    <2>5. QED
      BY <1>1, <2>1, <2>2, <2>3, <2>4 DEF CreateMoves, CreateStep
  <1>2. ASSUME NEW u \in Updates, UpdateMoves(u)
        PROVE  HandlerOf(u)
    <2>1. CASE BeginExport(u)
      BY <2>1 DEF BeginExport, Step, HandlerOf
    <2>2. CASE PersistEvalCard(u)
      BY <2>2 DEF PersistEvalCard, Step, HandlerOf
    <2>3. CASE \/ \E d \in Deliveries[u] : ReadPreviousState(u, d.job, d.event)
               \/ StoreEvent(u) \/ RecordTerminalStateAfterUpdate(u)
               \/ onEvaluationJobUpdated(u) \/ PublishEvalCard(u)
      BY <2>3 DEF ReadPreviousState, StoreEvent, RecordTerminalStateAfterUpdate,
                  onEvaluationJobUpdated, PublishEvalCard, mlflowVars, HandlerOf
    <2>4. QED
      BY <1>2, <2>1, <2>2, <2>3 DEF UpdateMoves, UpdateStep
  <1>3. ASSUME NEW c \in Cancels, CancelMoves(c)
        PROVE  Same
    BY <1>3 DEF CancelMoves, CancelStep, SnapshotJob, SignalStore, CountCancelled, mlflowVars
  <1>4. CASE UNCHANGED vars
    BY <1>4 DEF vars, handlerVars
  <1>5. CASE Next
    <2>1. CASE \E j \in Jobs : CreateMoves(j)
      BY <1>0, <1>1, <2>1
    <2>2. CASE \E u \in Updates : UpdateMoves(u)
      BY <1>0, <1>2, <2>2
    <2>3. CASE \E c \in Cancels : CancelMoves(c)
      BY <1>3, <2>3
    <2>4. CASE \/ \E p \in Callers : ClientStep(p) \/ (GiveUp(p) /\ UNCHANGED handlerVars)
               \/ ProbeStep
      BY <2>4 DEF ClientStep, ProbeStep, handlerVars
    <2>5. QED
      BY <1>5, <2>1, <2>2, <2>3, <2>4 DEF Next, CreateMoves, UpdateMoves, CancelMoves
  <1>6. QED
    BY <1>4, <1>5

\* The capability a caller acts on is the server's.
LEMMA HeaderIsTrue ==
  ASSUME ProbeOK, Resolved
  PROVE  Header <=> server = "workspaces"
  BY DEF ProbeOK, Resolved, Header, ProbeWorkspacesEnabled

\* One caller moves to a phase its capability allows.
LEMMA CallerMoves ==
  ASSUME MLflowOK, NEW p \in Callers, NEW phase, client' = [client EXCEPT ![p] = phase],
         UNCHANGED <<server, support>>, inflight => inflight', workspace => workspace',
         phase = "waiting" => inflight',
         phase \in {"ensure", "create", "confirm", "ready"} => Resolved,
         phase \in {"create", "confirm"} => Header,
         phase = "confirm" => workspace',
         phase = "ready" /\ Header => workspace'
  PROVE  ClientsOK'
  <1>1. /\ client' = [q \in Callers |-> client'[q]]
        /\ \A q \in Callers : client'[q] = IF q = p THEN phase ELSE client[q]
    BY DEF MLflowOK, ClientsOK
  <1>2. ASSUME NEW q \in Callers
        PROVE  CallerOK(q)'
    <2>1. CASE q = p
      BY <1>1, <2>1 DEF CallerOK, Resolved, Header
    <2>2. CASE q # p
      BY <1>1, <2>2 DEF MLflowOK, ClientsOK, CallerOK, Resolved, Header
    <2>3. QED
      BY <2>1, <2>2
  <1>3. QED
    BY <1>1, <1>2 DEF ClientsOK

\* The experiments that were made stay where they are.
LEMMA ExperimentsStep ==
  ASSUME MLflowOK, [Next]_vars
  PROVE  ExperimentsOK'
  <1>0. UNCHANGED server /\ (workspace => workspace')
    BY CapabilityStays
  <1>1. ASSUME UNCHANGED experiment
        PROVE  ExperimentsOK'
    BY <1>0, <1>1 DEF MLflowOK, ExperimentsOK, PlaceOK
  <1>2. ASSUME NEW p \in Callers, HandlerOf(p)
        PROVE  ExperimentsOK'
    <2>1. CASE /\ p \in Jobs /\ client[p] = "ready"
               /\ experiment' = [experiment EXCEPT ![p] = ExperimentWorkspace(p)]
      <3>1. Resolved /\ (Header => workspace)
        BY <2>1 DEF MLflowOK, ClientsOK, CallerOK
      <3>2. PlaceOK(ExperimentWorkspace(p))
        BY <3>1, HeaderIsTrue DEF MLflowOK, PlaceOK, ExperimentWorkspace
      <3>3. /\ experiment' = [j \in Jobs |-> experiment'[j]]
            /\ \A j \in Jobs : experiment'[j] = IF j = p THEN ExperimentWorkspace(p)
                                                ELSE experiment[j]
        BY <2>1 DEF MLflowOK, ExperimentsOK
      <3>4. ASSUME NEW j \in Jobs, experiment'[j] # "none"
            PROVE  PlaceOK(experiment'[j])
        BY <3>2, <3>3, <3>4 DEF MLflowOK, ExperimentsOK
      <3>5. QED
        BY <1>0, <3>3, <3>4 DEF ExperimentsOK, PlaceOK
    <2>2. QED
      BY <1>1, <1>2, <2>1 DEF HandlerOf
  <1>3. QED
    BY <1>1, <1>2, HandlersOfClient

LEMMA MLflowStepOK ==
  ASSUME MLflowOK, [Next]_vars
  PROVE  MLflowOK'
  <1> USE DEF MLflowOK
  <1>0. ExperimentsOK'
    BY ExperimentsStep
  <1>1. ASSUME UNCHANGED <<server, support, inflight, probe, asked>>
        PROVE  ProbeOK'
    BY <1>1 DEF ProbeOK, ProbeWorkspacesEnabled, Resolved
  <1>2. ASSUME UNCHANGED <<server, support, inflight, probe, asked, workspace, client>>
        PROVE  ProbeOK' /\ ClientsOK'
    BY <1>1, <1>2 DEF ClientsOK, CallerOK, Resolved, Header
  <1>3. ASSUME NEW p \in Callers, HandlerOf(p)
        PROVE  ProbeOK' /\ ClientsOK'
    <2>1. CASE UNCHANGED client
      BY <1>2, <1>3, <2>1 DEF HandlerOf
    <2>2. ASSUME NEW phase \in {"resolve", "idle"}, client' = [client EXCEPT ![p] = phase]
          PROVE  ProbeOK' /\ ClientsOK'
      BY <1>1, <1>3, <2>2, CallerMoves DEF HandlerOf
    <2>3. QED
      BY <1>3, <2>1, <2>2 DEF HandlerOf
  <1>4. ASSUME NEW p \in Callers, MLflowStep(p) \/ GiveUp(p)
        PROVE  ProbeOK' /\ ClientsOK'
    <2>0. CallerOK(p)
      BY DEF ClientsOK
    <2>1. CASE ResolveCached(p)
      BY <1>1, <2>1, CallerMoves DEF ResolveCached, Step
    <2>2. CASE Resolve(p)
      <3>1. client' = [client EXCEPT ![p] = "waiting"] /\ inflight'
            /\ UNCHANGED <<server, support, workspace>>
        BY <2>2 DEF Resolve, Step, ProbeInFlight
      <3>2. ClientsOK'
        BY <3>1, CallerMoves
      <3>3. CASE inflight
        BY <1>1, <2>2, <3>2, <3>3 DEF Resolve, ProbeInFlight
      <3>4. CASE ~inflight
        <4>1. probe = "none" /\ probe' = "asking" /\ asked = 0 /\ asked' = 1
          BY <2>2, <3>4 DEF Resolve, ProbeInFlight, ProbeOK
        <4>2. QED
          BY <3>1, <3>2, <4>1 DEF ProbeOK, ProbeWorkspacesEnabled
      <3>5. QED
        BY <3>3, <3>4
    <2>3. CASE GetWorkspace(p)
      <3>1. PICK phase \in {"ready", "create", "failed"} :
              /\ client' = [client EXCEPT ![p] = phase]
              /\ phase = "create" => Header
              /\ phase = "ready" /\ Header => workspace
        BY <2>3 DEF GetWorkspace, Step
      <3>2. Resolved /\ UNCHANGED <<server, support, inflight, probe, asked, workspace>>
        BY <2>0, <2>3 DEF GetWorkspace, CallerOK
      <3>3. QED
        BY <1>1, <3>1, <3>2, CallerMoves
    <2>4. CASE CreateWorkspace(p)
      <3>1. PICK phase \in {"confirm", "ready", "failed"} :
              /\ client' = [client EXCEPT ![p] = phase]
              /\ phase # "failed" => workspace'
        BY <2>4 DEF CreateWorkspace, Step
      <3>2. /\ Resolved /\ Header /\ UNCHANGED <<server, support, inflight, probe, asked>>
            /\ workspace => workspace'
        BY <2>0, <2>4 DEF CreateWorkspace, CallerOK
      <3>3. QED
        BY <1>1, <3>1, <3>2, CallerMoves
    <2>5. CASE ConfirmWorkspace(p)
      <3>1. PICK phase \in {"ready", "failed"} : client' = [client EXCEPT ![p] = phase]
        BY <2>5 DEF ConfirmWorkspace, Step
      <3>2. /\ Resolved /\ workspace
            /\ UNCHANGED <<server, support, inflight, probe, asked, workspace>>
        BY <2>0, <2>5 DEF ConfirmWorkspace, CallerOK
      <3>3. QED
        BY <1>1, <3>1, <3>2, CallerMoves
    <2>6. CASE GiveUp(p)
      BY <1>1, <2>6, CallerMoves DEF GiveUp, Step
    <2>7. QED
      BY <1>4, <2>1, <2>2, <2>3, <2>4, <2>5, <2>6 DEF MLflowStep
  <1>5. ASSUME ProbeAnswers
        PROVE  ProbeOK' /\ ClientsOK'
    <2>1. /\ probe = "asking" /\ asked = 1 /\ asked' = 0
          /\ UNCHANGED <<server, inflight, workspace, client>>
      BY <1>5 DEF ProbeAnswers, ProbeOK
    <2>2. \/ support' = ProbeWorkspacesEnabled /\ probe' = "answered"
          \/ support' = support /\ probe' = "failed"
      BY <1>5 DEF ProbeAnswers, runProbe
    <2>3. ProbeOK'
      BY <2>1, <2>2 DEF ProbeOK, ProbeWorkspacesEnabled, Resolved
    <2>4. Resolved => UNCHANGED support
      BY <2>2 DEF ProbeOK, Resolved
    <2>5. ClientsOK'
      BY <2>1, <2>4 DEF ClientsOK, CallerOK, Resolved, Header
    <2>6. QED
      BY <2>3, <2>5
  <1>6. ASSUME ProbeDone
        PROVE  ProbeOK' /\ ClientsOK'
    <2>1. /\ probe \in {"answered", "failed"} /\ probe' = "none" /\ asked = 0
          /\ UNCHANGED <<server, support, asked, workspace>> /\ ~inflight'
      BY <1>6 DEF ProbeDone, ProbeOK
    <2>2. ProbeOK'
      BY <2>1 DEF ProbeOK, ProbeWorkspacesEnabled, Resolved
    <2>3. /\ client' = [p \in Callers |-> client'[p]]
          /\ \A p \in Callers :
               client'[p] = IF client[p] # "waiting" THEN client[p]
                            ELSE IF probe = "answered" THEN "ensure" ELSE "failed"
      BY <1>6 DEF ProbeDone
    <2>4. probe = "answered" => Resolved
      BY DEF ProbeOK
    <2>5. ASSUME NEW p \in Callers
          PROVE  CallerOK(p)'
      BY <2>1, <2>3, <2>4 DEF ClientsOK, CallerOK, Resolved, Header
    <2>6. QED
      BY <2>2, <2>3, <2>5 DEF ClientsOK
  <1>7. UNCHANGED <<mlflowVars, experiment>> => ProbeOK' /\ ClientsOK'
    BY <1>2 DEF mlflowVars
  <1>8. ProbeOK' /\ ClientsOK'
    BY <1>2, <1>3, <1>4, <1>5, <1>6, <1>7, HandlersOfClient
  <1>9. QED
    BY <1>0, <1>8

LEMMA MLflowInitOK ==
  ASSUME Init
  PROVE  MLflowOK
  <1>1. ProbeOK
    BY DEF Init, MLflowInit, ProbeOK
  <1>2. ClientsOK
    BY DEF Init, MLflowInit, ClientsOK, CallerOK
  <1>3. ExperimentsOK
    BY DEF Init, ExperimentsOK
  <1>4. QED
    BY <1>1, <1>2, <1>3 DEF MLflowOK

\* In every state of the handlers: the capability, the probe, the callers and
\* the experiments agree.
THEOREM HandlersMLflowOK == Spec => []MLflowOK
  BY MLflowInitOK, MLflowStepOK, PTL DEF Spec

\* For every number of requests: one server-info request at a time, and nobody
\* waits for a call that no goroutine makes (WorkspaceSupport.Resolve).
THEOREM HandlersOneProbe == Spec => []OneProbeAtATime
  <1>1. MLflowOK => OneProbeAtATime
    BY DEF MLflowOK, ProbeOK, ClientsOK, CallerOK, OneProbeAtATime
  <1>2. QED
    BY <1>1, HandlersMLflowOK, PTL

\* For every number of requests and faults: a tenant's experiment is made in its
\* workspace, which exists, exactly when the server has workspaces.
THEOREM HandlersExperimentPlace == Spec => []ExperimentInTenantWorkspace
  <1>1. MLflowOK => ExperimentInTenantWorkspace
    BY DEF MLflowOK, ExperimentsOK, PlaceOK, ExperimentInTenantWorkspace
  <1>2. QED
    BY <1>1, HandlersMLflowOK, PTL

-----------------------------------------------------------------------------
(* The export that is owed                                                 *)

\* A job has a row once its create request has written it, and not before.
RowsMade == \A j \in Jobs : ~Made(j) => jobs[j].state = "none"

\* A request that found its job finished finds it closed to its event.
PrevOK ==
  \A u \in Updates : update[u].pc = "store" /\ update[u].prev \in TerminalStates =>
    ~Updatable(jobs[update[u].job])

OwedInv == RowsMade /\ PrevOK /\ ExportOwed

\* What one step of an event, from the record old to the record r, does to the
\* store and to the exports.
Recorded(j, target) ==
  \E x : x.target = target /\ exports' = [exports EXCEPT ![j] = @ \cup {x}]
EventStep(old, r) ==
  \/ /\ r.pc = "store" /\ r.job \in launched /\ r.prev \in {StateSeen(r.job), "none"}
     /\ UNCHANGED <<storeVars, exports>> /\ old.pc = "idle"
  \/ /\ old.pc = "store" /\ r.pc = "count" /\ r.job = old.job /\ r.prev = old.prev
     /\ UpdateEvaluationJob(old.job, old.event) /\ UNCHANGED exports
  \/ old.pc = "store" /\ r.pc = "done" /\ UNCHANGED <<storeVars, exports>>
  \/ /\ old.pc = "count" /\ r.pc = "updated" /\ r.job = old.job /\ r.prev = old.prev
     /\ UNCHANGED <<storeVars, exports>>
  \/ /\ old.pc = "updated" /\ UNCHANGED <<storeVars, exports>>
     /\ \/ IF JustFinished(old.prev, jobs[old.job]) /\ IsResultsExportEligible(jobs[old.job])
           THEN r.pc = "export" /\ r.job = old.job ELSE r.pc = "done"
        \/ /\ r.pc = "done"
           /\ IsResultsExportEligible(jobs[old.job]) => old.job \in abandoned'
  \/ /\ old.pc = "export" /\ r.job = old.job /\ UNCHANGED <<storeVars, exports>>
     /\ r.pc = IF MLflowEnabled(old.job) THEN "card" ELSE "oci"
  \/ /\ old.pc = "card" /\ r.pc = "oci" /\ r.job = old.job
     /\ UNCHANGED storeVars /\ Recorded(old.job, "mlflow")
  \/ /\ old.pc = "oci" /\ r.pc = "done" /\ UNCHANGED storeVars
     /\ IF OCIEnabled(old.job) THEN Recorded(old.job, "oci") ELSE UNCHANGED exports

LEMMA EventSteps ==
  ASSUME CallsOK, NEW u \in Updates, UpdateMoves(u)
  PROVE  /\ \E r : update' = [update EXCEPT ![u] = r] /\ EventStep(update[u], r)
         /\ UNCHANGED <<create, experiment>>
  <1> DEFINE old == update[u]
  <1>0. UpdateShape(old)
    BY DEF CallsOK
  <1>1. Answered.pc = "done"
    BY DEF Answered, NoCall
  <1>2. ASSUME NEW pc, NEW r, r = [old EXCEPT !.pc = pc]
        PROVE  r.pc = pc /\ r.job = old.job /\ r.prev = old.prev
    <2>1. r = [pc |-> pc, job |-> old.job, event |-> old.event, prev |-> old.prev,
               card |-> old.card]
      BY <1>0, <1>2, UpdatePhase
    <2>2. QED
      BY <2>1
  <1>3. ASSUME NEW target, NEW ok, Attempt(u, target, ok)
        PROVE  Recorded(old.job, target)
    <2> DEFINE x == [target |-> target, ok |-> ok, status |-> old.card]
    <2>1. x.target = target /\ exports' = [exports EXCEPT ![old.job] = @ \cup {x}]
      BY <1>3 DEF Attempt
    <2>2. QED
      BY <2>1 DEF Recorded
  <1> HIDE DEF old
  <1> DEFINE Goal == \E r : update' = [update EXCEPT ![u] = r] /\ EventStep(old, r)
  <1>4. ASSUME NEW d \in Deliveries[u], ReadPreviousState(u, d.job, d.event)
        PROVE  Goal
    <2>0. PICK prev \in {StateSeen(d.job), "none"} :
            Put(u, [pc |-> "store", job |-> d.job, event |-> d.event, prev |-> prev,
                    card |-> EmptyRow.status])
      BY <1>4 DEF ReadPreviousState
    <2> DEFINE r == [pc |-> "store", job |-> d.job, event |-> d.event,
                     prev |-> prev, card |-> EmptyRow.status]
    <2>1. /\ r.pc = "store" /\ r.job \in launched /\ r.prev \in {StateSeen(r.job), "none"}
          /\ UNCHANGED <<storeVars, exports>> /\ old.pc = "idle"
      BY <1>4 DEF ReadPreviousState, old
    <2>2. update' = [update EXCEPT ![u] = r]
      BY <2>0 DEF Put
    <2> HIDE DEF r
    <2>3. EventStep(old, r)
      BY <2>1 DEF EventStep
    <2>4. QED
      BY <2>2, <2>3
  <1>5. ASSUME StoreEvent(u)
        PROVE  Goal
    <2>0. old.pc = "store" /\ UNCHANGED exports
      BY <1>5 DEF StoreEvent, old
    <2>1. CASE Put(u, Answered) /\ UNCHANGED storeVars
      <3>1. EventStep(old, Answered)
        BY <1>1, <2>0, <2>1 DEF EventStep
      <3>2. QED
        BY <2>1, <3>1 DEF Put
    <2>2. CASE UpdateEvaluationJob(old.job, old.event) /\ Put(u, [old EXCEPT !.pc = "count"])
      <3> DEFINE r == [old EXCEPT !.pc = "count"]
      <3>1. r.pc = "count" /\ r.job = old.job /\ r.prev = old.prev
        BY <1>2
      <3>2. update' = [update EXCEPT ![u] = r]
        BY <2>2 DEF Put
      <3> HIDE DEF r
      <3>3. EventStep(old, r)
        BY <2>0, <2>2, <3>1 DEF EventStep
      <3>4. QED
        BY <3>2, <3>3
    <2>3. QED
      BY <1>5, <2>1, <2>2 DEF StoreEvent, old
  <1>6. ASSUME RecordTerminalStateAfterUpdate(u)
        PROVE  Goal
    <2> DEFINE r == [old EXCEPT !.pc = "updated"]
    <2>1. r.pc = "updated" /\ r.job = old.job /\ r.prev = old.prev
      BY <1>2
    <2>2. /\ update' = [update EXCEPT ![u] = r] /\ UNCHANGED <<exports, storeVars>>
          /\ old.pc = "count"
      BY <1>6 DEF RecordTerminalStateAfterUpdate, Put, old
    <2> HIDE DEF r
    <2>3. EventStep(old, r)
      BY <2>1, <2>2 DEF EventStep
    <2>4. QED
      BY <2>2, <2>3
  <1>7. ASSUME onEvaluationJobUpdated(u)
        PROVE  Goal
    <2> DEFINE fresh == /\ JustFinished(old.prev, jobs[old.job])
                        /\ IsResultsExportEligible(jobs[old.job])
               r == [old EXCEPT !.pc = "export", !.card = CardJob(u)]
    <2>0. old.pc = "updated" /\ UNCHANGED <<exports, storeVars>>
      BY <1>7 DEF onEvaluationJobUpdated, old
    <2>1. r.pc = "export" /\ r.job = old.job
      <3>1. r = [pc |-> "export", job |-> old.job, event |-> old.event, prev |-> old.prev,
                 card |-> CardJob(u)]
        BY <1>0, UpdatePhase
      <3> HIDE DEF r
      <3>2. QED
        BY <3>1
    <2>2. \/ update' = [update EXCEPT ![u] = IF fresh THEN r ELSE Answered]
          \/ /\ update' = [update EXCEPT ![u] = Answered]
             /\ IsResultsExportEligible(jobs[old.job]) => old.job \in abandoned'
      BY <1>7 DEF onEvaluationJobUpdated, Put, old
    <2>3. EventStep(old, IF fresh THEN r ELSE Answered)
      <3> HIDE DEF r
      <3>1. CASE fresh
        BY <2>0, <2>1, <3>1 DEF EventStep
      <3>2. CASE ~fresh
        BY <1>1, <2>0, <3>2 DEF EventStep
      <3>3. QED
        BY <3>1, <3>2
    <2> HIDE DEF r, fresh
    <2>4. ASSUME IsResultsExportEligible(jobs[old.job]) => old.job \in abandoned'
          PROVE  EventStep(old, Answered)
      BY <1>1, <2>0, <2>4 DEF EventStep
    <2>5. QED
      BY <2>2, <2>3, <2>4
  <1>8. ASSUME BeginExport(u)
        PROVE  Goal
    <2> DEFINE pc == IF MLflowEnabled(old.job) THEN "card" ELSE "oci"
               r == [old EXCEPT !.pc = pc]
    <2>1. r.pc = pc /\ r.job = old.job
      <3> HIDE DEF pc
      <3>1. QED
        BY <1>2
    <2>2. /\ update' = [update EXCEPT ![u] = r] /\ UNCHANGED <<exports, storeVars>>
          /\ old.pc = "export"
      BY <1>8 DEF BeginExport, Put, old
    <2> HIDE DEF r
    <2>3. EventStep(old, r)
      BY <2>1, <2>2 DEF EventStep
    <2>4. QED
      BY <2>2, <2>3
  <1>9. ASSUME PersistEvalCard(u)
        PROVE  Goal
    <2> DEFINE r == [old EXCEPT !.pc = "oci"]
    <2>1. r.pc = "oci" /\ r.job = old.job
      BY <1>2
    <2>2. /\ update' = [update EXCEPT ![u] = r] /\ UNCHANGED storeVars /\ old.pc = "card"
      BY <1>9 DEF PersistEvalCard, Put, old
    <2>3. Recorded(old.job, "mlflow")
      BY <1>3, <1>9 DEF PersistEvalCard
    <2> HIDE DEF r
    <2>4. EventStep(old, r)
      BY <2>1, <2>2, <2>3 DEF EventStep
    <2>5. QED
      BY <2>2, <2>4
  <1>10. ASSUME PublishEvalCard(u)
         PROVE  Goal
    <2>1. /\ update' = [update EXCEPT ![u] = Answered] /\ UNCHANGED storeVars
          /\ old.pc = "oci"
      BY <1>10 DEF PublishEvalCard, Put, old
    <2>2. IF OCIEnabled(old.job) THEN Recorded(old.job, "oci") ELSE UNCHANGED exports
      BY <1>3, <1>10 DEF PublishEvalCard, old
    <2>3. EventStep(old, Answered)
      BY <1>1, <2>1, <2>2 DEF EventStep
    <2>4. QED
      BY <2>1, <2>3
  <1>11. UNCHANGED <<create, experiment>>
    BY DEF UpdateMoves, UpdateStep, ReadPreviousState, StoreEvent,
           RecordTerminalStateAfterUpdate, onEvaluationJobUpdated, BeginExport,
           PersistEvalCard, PublishEvalCard
  <1> HIDE DEF Goal
  <1>12. Goal
    BY <1>4, <1>5, <1>6, <1>7, <1>8, <1>9, <1>10 DEF UpdateMoves, UpdateStep
  <1>13. QED
    BY <1>11, <1>12 DEF Goal, old

\* The experiment of a job is settled before its row is written.
LEMMA ExperimentKept ==
  ASSUME CallsOK, MLflowOK, [Next]_vars, NEW j \in Jobs, Made(j)
  PROVE  experiment'[j] = experiment[j]
  <1>1. ASSUME NEW i \in Jobs, CreateMoves(i)
        PROVE  experiment'[j] = experiment[j]
    <2>1. CASE GetOrCreateExperimentID(i)
      <3>1. i # j
        BY <2>1 DEF GetOrCreateExperimentID, Made
      <3>2. QED
        BY <2>1, <3>1 DEF GetOrCreateExperimentID, MLflowOK, ExperimentsOK
    <2>2. CASE ~GetOrCreateExperimentID(i)
      BY <1>1, <2>2 DEF CreateMoves, CreateStep, HandleCreateEvaluation, MLFlowRequestFailed,
                        StoreEvaluationJob, ExecuteEvaluationJob, MarkFailed
    <2>3. QED
      BY <2>1, <2>2
  <1>2. ASSUME NEW c \in Cancels, CancelMoves(c)
        PROVE  UNCHANGED experiment
    BY <1>2 DEF CancelMoves, CancelStep, SnapshotJob, SignalStore, CountCancelled
  <1>3. QED
    BY <1>1, <1>2, StepKinds, EventSteps DEF handlerVars

\* A job whose export was given up stays known as such.
LEMMA AbandonedKept ==
  ASSUME [Next]_vars
  PROVE  abandoned \subseteq abandoned'
  <1>1. ASSUME NEW i \in Jobs, CreateMoves(i)
        PROVE  UNCHANGED abandoned
    BY <1>1 DEF CreateMoves, CreateStep, HandleCreateEvaluation, GetOrCreateExperimentID,
                MLFlowRequestFailed, StoreEvaluationJob, ExecuteEvaluationJob, MarkFailed
  <1>2. ASSUME NEW u \in Updates, UpdateMoves(u)
        PROVE  abandoned \subseteq abandoned'
    <2>1. CASE onEvaluationJobUpdated(u)
      BY <2>1 DEF onEvaluationJobUpdated
    <2>2. CASE ~onEvaluationJobUpdated(u)
      BY <1>2, <2>2 DEF UpdateMoves, UpdateStep, ReadPreviousState, StoreEvent,
           RecordTerminalStateAfterUpdate, BeginExport, PersistEvalCard, PublishEvalCard
    <2>3. QED
      BY <2>1, <2>2
  <1>3. ASSUME NEW c \in Cancels, CancelMoves(c)
        PROVE  UNCHANGED abandoned
    BY <1>3 DEF CancelMoves, CancelStep, SnapshotJob, SignalStore, CountCancelled
  <1>4. QED
    BY <1>1, <1>2, <1>3, StepKinds DEF handlerVars

\* What a job enables and what was tried stays, once its row is written.
LEMMA TargetsKept ==
  ASSUME TypeOK, RowsOK, CallsOK, CardInv, MLflowOK, [Next]_vars, NEW j \in Jobs, Made(j)
  PROVE  /\ MLflowEnabled(j)' <=> MLflowEnabled(j)
         /\ OCIEnabled(j)' <=> OCIEnabled(j)
         /\ exports[j] \subseteq exports'[j]
  <1>1. create'[j].sub = create[j].sub /\ experiment'[j] = experiment[j]
    BY MadeKept, ExperimentKept DEF CardInv
  <1>2. exports[j] \subseteq exports'[j]
    <2>1. ASSUME NEW u \in Updates, UpdateMoves(u)
          PROVE  exports[j] \subseteq exports'[j]
      BY <2>1, UpdateMove DEF UpdateMoved, CardInv, CardsOK
    <2>2. QED
      BY <2>1, StepKinds, CreateMove, CancelMove DEF handlerVars
  <1>3. MLflowEnabled(j)' <=> MLflowEnabled(j)
    BY <1>1 DEF MLflowEnabled
  <1>4. OCIEnabled(j)' <=> OCIEnabled(j)
    BY <1>1 DEF OCIEnabled
  <1>5. QED
    BY <1>2, <1>3, <1>4

LEMMA RowsMadeStep ==
  ASSUME TypeOK, RowsOK, CallsOK, CardInv, RowsMade, [Next]_vars
  PROVE  RowsMade'
  <1> SUFFICES ASSUME NEW j \in Jobs, ~Made(j)' PROVE jobs'[j].state = "none"
    BY DEF RowsMade
  <1>1. ~Made(j) /\ jobs[j].state = "none"
    BY MadeKept DEF CardInv, RowsMade
  <1>2. ASSUME NEW i \in Jobs, i # j, NEW row, jobs' = [jobs EXCEPT ![i] = row]
        PROVE  jobs'[j] = jobs[j]
    BY <1>2 DEF TypeOK
  <1>3. CASE UNCHANGED storeVars
    BY <1>1, <1>3 DEF storeVars
  <1>4. ASSUME NEW i \in Jobs, ~Made(i), Made(i)', NEW r,
               CreateEvaluationJob(i, r) \/ CreateEvaluationJobAndUpdateCollection(i, r)
        PROVE  jobs'[j] = jobs[j]
    <2>1. i # j
      BY <1>4
    <2>2. QED
      BY <1>2, <1>4, <2>1 DEF CreateEvaluationJob, CreateEvaluationJobAndUpdateCollection
  <1>5. ASSUME NEW i \in Jobs, NEW x,
               \/ UpdateEvaluationJob(i, x) \/ UpdateEvaluationJobStatus(i, x)
               \/ DeleteEvaluationJob(i)
        PROVE  jobs'[j] = jobs[j]
    <2>1. jobs[i].state # "none"
      BY <1>5 DEF UpdateEvaluationJob, UpdateEvaluationJobStatus, DeleteEvaluationJob,
                  Updatable, Exists, OverallStates, LiveStates, TerminalStates
    <2>2. i # j
      BY <1>1, <2>1
    <2>3. \E row : jobs' = [jobs EXCEPT ![i] = row]
      BY <1>5 DEF UpdateEvaluationJob, UpdateEvaluationJobStatus, DeleteEvaluationJob
    <2>4. QED
      BY <1>2, <2>2, <2>3
  <1>6. ASSUME NEW u \in Updates, update[u].pc = "store"
        PROVE  update[u].job \in Jobs
    BY <1>6 DEF CallsOK
  <1>7. QED
    BY <1>1, <1>3, <1>4, <1>5, <1>6, StoreEffects DEF StoreEffect

\* A row that takes no event takes none later.
LEMMA ClosedStays ==
  ASSUME TypeOK, RowsOK, CallsOK, CardInv, [Next]_vars, NEW j \in Jobs, Made(j),
         ~Updatable(jobs[j])
  PROVE  ~Updatable(jobs[j])'
  <1>1. /\ KeepsTerminal(j) /\ (jobs[j].state = "deleted" => jobs'[j] = jobs[j])
        /\ jobs[j].state # "none" /\ jobs[j] \in Rows
    BY MadeKept DEF CardInv, MadeOK, TypeOK
  <1>2. IsTerminal(jobs[j]) \/ jobs[j].state = "deleted"
    BY <1>1 DEF Rows, OverallStates, IsTerminal, Updatable
  <1>3. QED
    BY <1>1, <1>2 DEF KeepsTerminal, Updatable, IsTerminal, LiveStates, TerminalStates

LEMMA PrevStep ==
  ASSUME TypeOK, RowsOK, CallsOK, CardInv, PrevOK, [Next]_vars
  PROVE  PrevOK'
  <1>1. ASSUME NEW v \in Updates, update'[v] = update[v], update[v].pc = "store",
               update[v].prev \in TerminalStates
        PROVE  ~Updatable(jobs[update[v].job])'
    <2>1. PICK j \in Jobs : j = update[v].job /\ Made(j) /\ ~Updatable(jobs[j])
      BY <1>1 DEF PrevOK, CallsOK, CardInv, MadeOK
    <2>2. ~Updatable(jobs[j])'
      BY <2>1, ClosedStays
    <2>3. QED
      BY <1>1, <2>1, <2>2 DEF Updatable
  <1>2. ASSUME UNCHANGED update
        PROVE  PrevOK'
    BY <1>1, <1>2 DEF PrevOK
  <1>3. ASSUME NEW u \in Updates, UpdateMoves(u), NEW v \in Updates, update'[v].pc = "store",
               update'[v].prev \in TerminalStates
        PROVE  ~Updatable(jobs[update[v].job])'
    <2>1. PICK r : update' = [update EXCEPT ![u] = r] /\ EventStep(update[u], r)
      BY <1>3, EventSteps
    <2>2. update'[v] = IF v = u THEN r ELSE update[v]
      BY <2>1 DEF CallsOK
    <2>3. CASE v = u
      <3>1. r.prev = StateSeen(r.job) /\ UNCHANGED jobs
        BY <1>3, <2>1, <2>2, <2>3 DEF EventStep, storeVars, TerminalStates
      <3>2. jobs[r.job].state \in TerminalStates
        BY <1>3, <2>2, <2>3, <3>1 DEF StateSeen, TerminalStates
      <3>3. QED
        BY <2>2, <2>3, <3>1, <3>2 DEF Updatable, LiveStates, TerminalStates
    <2>4. CASE v # u
      BY <1>1, <1>3, <2>2, <2>4
    <2>5. QED
      BY <2>3, <2>4
  <1>4. QED
    BY <1>2, <1>3, StepKinds, CreateMove, CancelMove DEF handlerVars, PrevOK

\* Only an event gives a job results, and the request that stored it has the
\* export ahead.
LEMMA FinishingStep ==
  ASSUME TypeOK, RowsOK, CallsOK, PrevOK, [Next]_vars, NEW j \in Jobs,
         ~IsResultsExportEligible(jobs[j]), IsResultsExportEligible(jobs[j])'
  PROVE  \E u \in Updates : ExportAhead(u, j)'
  <1>0. jobs'[j] # jobs[j]
    BY DEF IsResultsExportEligible
  <1>1. ASSUME NEW i \in Jobs, NEW st \in {"cancelled", "failed"},
               UpdateEvaluationJobStatus(i, st)
        PROVE  FALSE
    <2>1. jobs' = [jobs EXCEPT ![i] = SetState(jobs[i], st)]
      BY <1>1 DEF UpdateEvaluationJobStatus
    <2>2. i = j
      BY <1>0, <2>1 DEF TypeOK
    <2>3. jobs'[j].state = st
      BY <2>1, <2>2 DEF TypeOK, SetState, Rows
    <2>4. QED
      BY <2>3 DEF IsResultsExportEligible
  <1>2. ASSUME NEW i \in Jobs, DeleteEvaluationJob(i)
        PROVE  FALSE
    <2>1. jobs' = [jobs EXCEPT ![i] = [EmptyRow EXCEPT !.state = "deleted",
                                                       !.config = jobs[i].config]]
      BY <1>2 DEF DeleteEvaluationJob
    <2>2. i = j
      BY <1>0, <2>1 DEF TypeOK
    <2>3. jobs'[j].state = "deleted"
      BY <2>1, <2>2 DEF TypeOK, EmptyRow
    <2>4. QED
      BY <2>3 DEF IsResultsExportEligible
  <1>3. ASSUME NEW i \in Jobs, NEW r,
               CreateEvaluationJob(i, r) \/ CreateEvaluationJobAndUpdateCollection(i, r)
        PROVE  FALSE
    <2>1. jobs' = [jobs EXCEPT ![i] = NewRow(r)]
      BY <1>3 DEF CreateEvaluationJob, CreateEvaluationJobAndUpdateCollection
    <2>2. i = j
      BY <1>0, <2>1 DEF TypeOK
    <2>3. jobs'[j].state = "pending"
      BY <2>1, <2>2 DEF TypeOK, NewRow, EmptyRow
    <2>4. QED
      BY <2>3 DEF IsResultsExportEligible
  <1>4. ~UNCHANGED storeVars
    BY <1>0 DEF storeVars
  <1>5. PICK u \in Updates : UpdateMoves(u)
    <2>1. ~(\E i \in Jobs : CreateMoves(i))
      BY <1>1, <1>3, <1>4, CreateMove
    <2>2. ~(\E c \in Cancels : CancelMoves(c))
      BY <1>1, <1>2, <1>4, CancelMove
    <2>3. QED
      BY <1>4, <2>1, <2>2, StepKinds
  <1>6. PICK r : update' = [update EXCEPT ![u] = r] /\ EventStep(update[u], r)
    BY <1>5, EventSteps
  <1>7. /\ update[u].pc = "store" /\ r.pc = "count" /\ r.job = update[u].job
        /\ r.prev = update[u].prev /\ UpdateEvaluationJob(update[u].job, update[u].event)
    BY <1>4, <1>6 DEF EventStep
  <1>8. update[u].job = j /\ Updatable(jobs[j])
    <2>1. update[u].job \in Jobs
      BY <1>7 DEF CallsOK
    <2>2. \E row : jobs' = [jobs EXCEPT ![update[u].job] = row]
      BY <1>7 DEF UpdateEvaluationJob
    <2>3. update[u].job = j
      BY <1>0, <2>1, <2>2 DEF TypeOK
    <2>4. QED
      BY <1>7, <2>3 DEF UpdateEvaluationJob
  <1>9. r.prev \notin TerminalStates
    BY <1>7, <1>8 DEF PrevOK
  <1>10. update'[u] = r
    BY <1>6 DEF CallsOK
  <1>11. ExportAhead(u, j)'
    BY <1>7, <1>8, <1>9, <1>10 DEF ExportAhead
  <1>12. QED
    BY <1>11

\* The request that has the export ahead keeps it ahead until every target was
\* tried or it fails to read the row; the requests of other workers change nothing
\* about that.
LEMMA AheadStep ==
  ASSUME TypeOK, RowsOK, CallsOK, CardInv, MLflowOK, [Next]_vars, NEW j \in Jobs, Made(j),
         IsResultsExportEligible(jobs[j]), NEW v \in Updates, ExportAhead(v, j)
  PROVE  Exported(j)' \/ j \in abandoned' \/ ExportAhead(v, j)'
  <1>0. /\ MLflowEnabled(j)' <=> MLflowEnabled(j)
        /\ OCIEnabled(j)' <=> OCIEnabled(j)
        /\ exports[j] \subseteq exports'[j]
    BY TargetsKept
  <1>1. ASSUME update'[v] = update[v]
        PROVE  ExportAhead(v, j)'
    BY <1>0, <1>1 DEF ExportAhead
  <1>2. ASSUME NEW u \in Updates, UpdateMoves(u)
        PROVE  Exported(j)' \/ j \in abandoned' \/ ExportAhead(v, j)'
    <2>1. PICK r : update' = [update EXCEPT ![u] = r] /\ EventStep(update[u], r)
      BY <1>2, EventSteps
    <2>2. update'[v] = IF v = u THEN r ELSE update[v]
      BY <2>1 DEF CallsOK
    <2>3. CASE v # u
      BY <1>1, <2>2, <2>3
    <2>4. CASE v = u
      <3>0. update'[v] = r /\ EventStep(update[v], r) /\ update[v].job = j
        BY <2>1, <2>2, <2>4 DEF ExportAhead
      <3>1. CASE update[v].pc = "count"
        BY <3>0, <3>1 DEF ExportAhead, EventStep
      <3>2. CASE update[v].pc = "updated"
        <4>1. JustFinished(update[v].prev, jobs[j])
          BY <3>2 DEF ExportAhead, JustFinished, IsTerminal, IsResultsExportEligible,
                      TerminalStates
        <4>2. (r.pc = "export" /\ r.job = j) \/ j \in abandoned'
          BY <3>0, <3>2, <4>1 DEF EventStep
        <4>3. QED
          BY <3>0, <4>2 DEF ExportAhead
      <3>3. CASE update[v].pc = "export"
        <4>1. r.job = j /\ r.pc = IF MLflowEnabled(j) THEN "card" ELSE "oci"
          BY <3>0, <3>3 DEF EventStep
        <4>2. QED
          BY <1>0, <3>0, <4>1 DEF ExportAhead
      <3>4. CASE update[v].pc = "card"
        <4>1. r.job = j /\ r.pc = "oci" /\ Recorded(j, "mlflow")
          BY <3>0, <3>4 DEF EventStep
        <4>2. \E x \in exports'[j] : x.target = "mlflow"
          BY <4>1 DEF Recorded, CardInv, CardsOK
        <4>3. QED
          BY <3>0, <4>1, <4>2 DEF ExportAhead
      <3>5. CASE update[v].pc = "oci"
        <4>1. IF OCIEnabled(j) THEN Recorded(j, "oci") ELSE UNCHANGED exports
          BY <3>0, <3>5 DEF EventStep
        <4>2. OCIEnabled(j) => \E x \in exports'[j] : x.target = "oci"
          BY <4>1 DEF Recorded, CardInv, CardsOK
        <4>3. MLflowEnabled(j) => \E x \in exports'[j] : x.target = "mlflow"
          BY <1>0, <3>5 DEF ExportAhead
        <4>4. Exported(j)'
          BY <1>0, <4>2, <4>3 DEF Exported
        <4>5. QED
          BY <4>4
      <3>6. QED
        BY <3>1, <3>2, <3>3, <3>4, <3>5 DEF ExportAhead
    <2>5. QED
      BY <2>3, <2>4
  <1>3. UNCHANGED update => ExportAhead(v, j)'
    BY <1>1
  <1>4. QED
    BY <1>2, <1>3, StepKinds, CreateMove, CancelMove DEF handlerVars

LEMMA OwedStep ==
  ASSUME TypeOK, RowsOK, CallsOK, CardInv, MLflowOK, OwedInv, [Next]_vars
  PROVE  OwedInv'
  <1>0. RowsMade /\ PrevOK /\ ExportOwed
    BY DEF OwedInv
  <1>1. RowsMade' /\ PrevOK'
    BY <1>0, RowsMadeStep, PrevStep
  <1>2. ASSUME NEW j \in Jobs, IsResultsExportEligible(jobs[j])'
        PROVE  Exported(j)' \/ j \in abandoned' \/ \E u \in Updates : ExportAhead(u, j)'
    <2>1. CASE ~IsResultsExportEligible(jobs[j])
      BY <1>0, <1>2, <2>1, FinishingStep
    <2>2. CASE IsResultsExportEligible(jobs[j])
      <3>1. Made(j)
        BY <1>0, <2>2 DEF RowsMade, IsResultsExportEligible
      <3>2. CASE Exported(j)
        BY <3>1, <3>2, TargetsKept DEF Exported
      <3>3. ASSUME NEW v \in Updates, ExportAhead(v, j)
            PROVE  Exported(j)' \/ j \in abandoned' \/ ExportAhead(v, j)'
        BY <2>2, <3>1, <3>3, AheadStep
      <3>4. CASE j \in abandoned
        BY <3>4, AbandonedKept
      <3>5. QED
        BY <1>0, <2>2, <3>2, <3>3, <3>4 DEF ExportOwed
    <2>3. QED
      BY <2>1, <2>2
  <1>3. ExportOwed'
    BY <1>2 DEF ExportOwed
  <1>4. QED
    BY <1>1, <1>3 DEF OwedInv

\* For every set of jobs, targets, events and cancellations, and wherever a call
\* fails: a job with results that is still in the store was tried on every target
\* it enables, or a request has that ahead of it (onEvaluationJobUpdated), or the
\* request that had it could not read the row of the finished job back, which is
\* the one place where the code loses an export.
THEOREM HandlersExportOwed == Spec => []ExportOwed
  <1>1. Init => OwedInv
    <2>1. ASSUME Init
          PROVE  OwedInv
      <3>1. /\ \A j \in Jobs : jobs[j].state = "none"
            /\ \A u \in Updates : update[u].pc = "idle"
        BY <2>1 DEF Init, StoreInit, EmptyRow, NoCall
      <3>2. QED
        BY <3>1 DEF OwedInv, RowsMade, PrevOK, ExportOwed, IsResultsExportEligible
    <2>2. QED
      BY <2>1
  <1>2. TypeOK /\ RowsOK /\ CallsOK /\ CardInv /\ MLflowOK /\ OwedInv /\ [Next]_vars => OwedInv'
    BY OwedStep
  <1>3. Spec => []TypeOK /\ []RowsOK
    BY HandlersImplementStore, StoreTypeOK, StoreRowsOK, PTL
  <1>4. OwedInv => ExportOwed
    BY DEF OwedInv
  <1>5. QED
    BY <1>1, <1>2, <1>3, <1>4, HandlersCallsOK, HandlersCardInv, HandlersMLflowOK, PTL DEF Spec

\* When no request is in progress every job with results was tried on every
\* target it enables, unless a failed read of its finished row ended the request
\* that was to do it: no order of events, cancellations and other failures
\* leaves an export that a later request would have to pick up.
THEOREM HandlersQuietMeansExported ==
  Spec => [](Quiet => \A j \in Jobs :
               IsResultsExportEligible(jobs[j]) => Exported(j) \/ j \in abandoned)
  <1>1. ExportOwed => (Quiet => \A j \in Jobs :
          IsResultsExportEligible(jobs[j]) => Exported(j) \/ j \in abandoned)
    BY DEF ExportOwed, Quiet, ExportAhead
  <1>2. QED
    BY <1>1, HandlersExportOwed, PTL

\* The client of the API sees the life of a job however requests interleave and
\* wherever they fail, and the other promises of the store hold of the handlers:
\* a finished job is final, statuses and results agree, and the run count of a
\* collection is exact.
THEOREM HandlersKeepPromises ==
  Spec => /\ FollowsLifecycle /\ TerminalJobIsFinal
          /\ []ResultsMatchStatus /\ []OverallStateMatchesBenchmarks
          /\ []CancelledTogether /\ []ScoreCoversResults
          /\ []SourceStaysCompleted /\ []RunCountExact
  BY HandlersImplementStore, StoreFollowsLifecycle, StoreTerminalJobIsFinal,
     StoreResultsMatchStatus, StoreOverallState, StoreCancelledTogether,
     StoreScoreCoversResults, StoreSourceStaysCompleted, StoreRunCountExact, PTL
=============================================================================
