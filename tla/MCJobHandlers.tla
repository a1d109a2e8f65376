---------------------------- MODULE MCJobHandlers ----------------------------
(* Instances of the job handlers for TLC.                                    *)
EXTENDS JobHandlers, TLC

CONSTANTS a, b, z, c1, j1, j2, u1, u2

List == {<<a, 0>>, <<b, 1>>}

Direct == [workload |-> "evaluation", benchmarks |-> List, collection |-> NoCollection,
           source |-> NoJob, oci |-> TRUE]
Unknown    == [Direct EXCEPT !.benchmarks = {<<z, 0>>}, !.oci = FALSE]
Collection == [Direct EXCEPT !.benchmarks = {}, !.collection = c1, !.oci = FALSE]

MCRequests == {Direct, Unknown, Collection}
MCLists    == {{<<a, 0>>}}
MCKinds    == [c \in Collections |-> "user"]

Good == [config |-> Direct, experiment |-> TRUE, url |-> TRUE, recorded |-> {}, shas |-> {}]

\* One that is accepted and one for each reason to refuse; and a collection job.
MCSubmissions ==
  (j1 :> {Good, [Good EXCEPT !.config = Unknown],
          [Good EXCEPT !.url = FALSE, !.recorded = {<<a, 0>>}], [Good EXCEPT !.shas = {<<b, 1>>}]})
  @@ (j2 :> {[Good EXCEPT !.config = Collection, !.url = FALSE, !.recorded = List]})

\* Racing events for the two benchmarks of j1, which ends partially failed.
Report(j, slot, status) ==
  [job |-> j, event |-> [slot |-> slot, status |-> status, tested |-> FALSE]]
MCDeliveries ==
  (u1 :> {Report(j1, <<a, 0>>, "failed")})
  @@ (u2 :> {Report(j1, <<b, 1>>, "completed")})

MCWithdrawals == [c \in Cancels |-> [job : {j1}, hard : BOOLEAN]]

MCCallers == Jobs \cup Updates
=============================================================================
