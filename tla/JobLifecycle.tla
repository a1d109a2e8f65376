----------------------------- MODULE JobLifecycle -----------------------------
(***************************************************************************)
(* What a client that polls evaluation jobs may rely on: the life of each  *)
(* job as the sequence of its overall states, the benchmarks that have     *)
(* finished and the outcome of its export (pkg/api/evaluations.go and      *)
(* oci.go).  How events are counted, which list they are compared with and *)
(* how transactions interleave is left out; JobStore implements this.      *)
(***************************************************************************)
CONSTANTS Jobs, Slots

VARIABLES
    state,    \* job -> "none", an overall state, "deleted"
    done,     \* job -> the benchmarks in a terminal state
    export    \* job -> "none" or the state of the OCI workflow

lifeVars == <<state, done, export>>

Live       == {"pending", "running"}
Finished   == {"completed", "failed", "partially_failed"}
Exportable == {"completed", "partially_failed"}

\* POST /evaluations/jobs: a job starts pending, with nothing done.
Create(j) ==
    /\ state[j] = "none"
    /\ state' = [state EXCEPT ![j] = "pending"]
    /\ UNCHANGED <<done, export>>

\* An event finishes at most one benchmark, takes none back, and moves a job
\* that has not finished: it is pending only while nothing is done and
\* finishes only when something is.
Report(j) ==
    /\ state[j] \in Live
    /\ \E ended \in {{}} \cup {{s} : s \in Slots}, st \in Live \cup Finished :
          LET d == done[j] \cup ended IN
          /\ st = "pending" => d = {}
          /\ st \in Finished => d # {}
          /\ state' = [state EXCEPT ![j] = st]
          /\ done'  = [done EXCEPT ![j] = d]
    /\ UNCHANGED export

\* A cancel ends benchmarks with the job; a runtime failure ends the job only.
Stop(j) ==
    /\ state[j] \in Live
    /\ \/ /\ state' = [state EXCEPT ![j] = "cancelled"]
          /\ \E d \in SUBSET Slots :
                done[j] \subseteq d /\ done' = [done EXCEPT ![j] = d]
       \/ /\ state' = [state EXCEPT ![j] = "failed"]
          /\ UNCHANGED done
    /\ UNCHANGED export

\* The export reports on a job with results, until it has an outcome.
Publish(j) ==
    /\ state[j] \in Exportable
    /\ export[j] \notin {"completed", "failed"}
    /\ \E x \in {"running", "completed", "failed"} :
          export' = [export EXCEPT ![j] = x]
    /\ UNCHANGED <<state, done>>

Delete(j) ==
    /\ state[j] \notin {"none", "deleted"}
    /\ state'  = [state EXCEPT ![j] = "deleted"]
    /\ done'   = [done EXCEPT ![j] = {}]
    /\ export' = [export EXCEPT ![j] = "none"]

LifeInit ==
    /\ state  = [j \in Jobs |-> "none"]
    /\ done   = [j \in Jobs |-> {}]
    /\ export = [j \in Jobs |-> "none"]

LifeNext == \E j \in Jobs :
    Create(j) \/ Report(j) \/ Stop(j) \/ Publish(j) \/ Delete(j)

LifeSpec == LifeInit /\ [][LifeNext]_lifeVars
=============================================================================
