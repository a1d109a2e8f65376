--------------------------- MODULE MCLockedJobStore ---------------------------
EXTENDS LockedJobStore, TLC

CONSTANTS a, b, j1, j2, c1

\* An evaluation with its own two benchmarks, OCI export on, and a
\* post-processing job that may read the first job's results.
MCDirectRequests ==
    {[workload |-> "evaluation", benchmarks |-> {<<a, 0>>, <<b, 1>>},
      collection |-> NoCollection, source |-> NoJob, oci |-> TRUE],
     [workload |-> "post_processing", benchmarks |-> {<<a, 0>>},
      collection |-> NoCollection, source |-> j1, oci |-> FALSE]}

MCCollectionRequests ==
    {[workload |-> "evaluation", benchmarks |-> {}, collection |-> c,
      source |-> NoJob, oci |-> FALSE] : c \in Collections}

\* A list, and a shorter one with another benchmark in first position.
MCLists == {{<<a, 0>>, <<b, 1>>}, {<<b, 0>>}}
MCNoLists == {}

MCKinds == [c \in Collections |-> IF c = c1 THEN "user" ELSE "system"]
=============================================================================
