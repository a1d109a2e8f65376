------------------------------ MODULE TestData ------------------------------
(* Test data of benchmarks and the record of what it was.  In each benchmark's *)
(* pod the init container stages the data of a Git ref, a Hugging Face         *)
(* revision or an S3 prefix and leaves the commit it found in a metadata file; *)
(* the sidecar puts that commit into the status events the adapter posts under *)
(* the events path; and the server records it once, for the benchmark the      *)
(* event names.  The ref may move at any moment.                               *)
(*                                                                             *)
(* All benchmarks of the job have one kind of source, and the events about the *)
(* job come from its own pods.                                                 *)
(*                                                                             *)
(* Init containers run once (restartPolicy Never, backoffLimit 0), the sidecar *)
(* may be restarted.  A file of a commit is a pair <<file, commit>>.           *)
(*                                                                             *)
(* Mutants: PinLess of DownloadInfo, LoadAtStartOnly of tryLoadGitSHA,         *)
(* KeepClientSHA of maybeInjectResolvedSHA.                                    *)
EXTENDS Naturals, FiniteSets

CONSTANTS Bench,        \* benchmarks of one job, by index
          Commits, Files, NoSHA,
          Tree,         \* files of a commit under the requested path
          Submodules,   \* commits whose tree has submodules
          MaxMoves, MaxFaults, MaxRestarts,
          MaxEvents,    \* bounds: moves of the ref, failed reads and writes of a
          MaxUnchanged  \* recorded commit, restarts of a sidecar, rewritten
                        \* events about a benchmark, unchanged events

ASSUME TreeAssumption ==
  Tree \in [Commits -> SUBSET Files] /\ Submodules \subseteq Commits /\ NoSHA \notin Commits

VARIABLES source,   \* "git", "hf" or "s3"
          refKind,  \* the requested ref is a "branch", a "sha" or "neither"
          head,     \* the commit it names now
          moves, faults, restarts,
          pc,       \* the init container of each benchmark
          commit,   \* the commit it has resolved
          todo,     \* files still to be copied
          dest,     \* /test_data
          meta,     \* .git-metadata
          message,  \* a termination message was written
          sidecar,  \* "down" or "up"
          sha,      \* the commit the sidecar holds
          posted,   \* events about a benchmark that a sidecar rewrote
          unchanged, \* history: <<b, c>> if an event about b claiming c was not rewritten
          reporters, \* history: <<p, b>> if pod p's sidecar rewrote an event about b
          wire,     \* events on their way to the server; n = 0 for unchanged ones
          shared,   \* one TestDataRef serves all benchmarks (a broadcast override)
          stored    \* TestDataRef.ResolvedSHA of each benchmark

init == <<pc, commit, todo, dest, meta, message>>
side == <<sidecar, sha, posted, unchanged, reporters>>
env  == <<source, refKind, head, moves, faults, restarts, shared>>
vars == <<init, side, env, wire, stored>>

IsGitJob == source \in {"git", "hf"}
SHAs == Commits \cup {NoSHA}

TypeOK ==
  /\ source \in {"git", "hf", "s3"} /\ refKind \in {"branch", "sha", "neither"} /\ head \in Commits
  /\ moves \in 0..MaxMoves /\ faults \in 0..MaxFaults /\ restarts \in 0..MaxRestarts
  /\ pc \in [Bench -> {"start", "resolve", "clone", "tree", "download", "stage", "meta", "done", "failed"}]
  /\ commit \in [Bench -> SHAs] /\ meta \in [Bench -> SHAs] /\ sha \in [Bench -> SHAs]
  /\ todo \in [Bench -> SUBSET Files] /\ dest \in [Bench -> SUBSET (Files \X Commits)]
  /\ message \in [Bench -> BOOLEAN] /\ sidecar \in [Bench -> {"down", "up"}]
  /\ posted \in [Bench -> 0..MaxEvents] /\ unchanged \subseteq Bench \X SHAs
  /\ reporters \subseteq Bench \X Bench
  /\ wire \in SUBSET [b : Bench, n : 0..MaxEvents, sha : SHAs]
  /\ shared \in BOOLEAN /\ stored \in [Bench -> SHAs]
  /\ \A b \in Bench : /\ sidecar[b] = "up" => pc[b] = "done"
                      /\ pc[b] \in {"meta", "done"} => todo[b] = {}

Init ==
  /\ source \in {"git", "hf", "s3"} /\ refKind \in {"branch", "sha", "neither"} /\ head \in Commits
  /\ (refKind = "neither" => source = "git") /\ (source = "s3" => refKind = "branch")
  /\ moves = 0 /\ faults = 0 /\ restarts = 0 /\ shared \in BOOLEAN
  /\ pc = [b \in Bench |-> "start"] /\ commit = [b \in Bench |-> NoSHA]
  /\ todo = [b \in Bench |-> {}] /\ dest = [b \in Bench |-> {}]
  /\ meta = [b \in Bench |-> NoSHA] /\ message = [b \in Bench |-> FALSE]
  /\ sidecar = [b \in Bench |-> "down"] /\ sha = [b \in Bench |-> NoSHA]
  /\ posted = [b \in Bench |-> 0] /\ unchanged = {} /\ reporters = {}
  /\ wire = {} /\ stored = [b \in Bench |-> NoSHA]
------------------------------------------------------------------------------
(* The init container.                                                         *)

InitStep == UNCHANGED <<side, env, wire, stored>>
Goto(b, s) == pc' = [pc EXCEPT ![b] = s]

LeavesMessage == source = "hf"
clearDestDir(b) == [dest EXCEPT ![b] = {}]
CopiedFile(b, f) == <<f, IF source = "s3" THEN head ELSE commit[b]>>

(* run: Hugging Face first, then Git, else S3.  Settings and credentials are   *)
(* checked before the first call; a failure there is an InitFails.             *)
run(b) ==
  /\ pc[b] = "start"
  /\ Goto(b, IF source = "s3" THEN "tree" ELSE "resolve")
  /\ UNCHANGED <<commit, todo, dest, meta, message>> /\ InitStep

(* ls-remote: only the kind of the ref is kept, not the commit it names.       *)
resolveRemoteRef(b) ==
  /\ source = "git" /\ pc[b] = "resolve"
  /\ Goto(b, IF refKind = "neither" THEN "failed" ELSE "clone")
  /\ UNCHANGED <<commit, todo, dest, meta, message>> /\ InitStep

(* The clone has the commit a branch names by now; a SHA names one for ever.   *)
cloneRef(b) ==
  /\ source = "git" /\ pc[b] = "clone"
  /\ commit' = [commit EXCEPT ![b] = head]
  /\ Goto(b, "tree")
  /\ UNCHANGED <<todo, dest, meta, message>> /\ InitStep

(* Hugging Face: the revision is resolved once and everything is pinned to it. *)
PinLess(b) ==
  /\ source = "hf" /\ pc[b] = "resolve"
  /\ commit' = [commit EXCEPT ![b] = head]
  /\ Goto(b, "tree")
  /\ \E h \in Commits : todo' = [todo EXCEPT ![b] = Tree[h]]
  /\ UNCHANGED <<dest, meta, message>> /\ InitStep
DownloadInfo(b) ==
  /\ source = "hf" /\ pc[b] = "resolve"
  /\ commit' = [commit EXCEPT ![b] = head]
  /\ todo' = [todo EXCEPT ![b] = Tree[head]]
  /\ Goto(b, "tree")
  /\ UNCHANGED <<dest, meta, message>> /\ InitStep

(* Nothing under the path, or submodules in a Git tree, end the container.  A  *)
(* Git request has a sub_path here: without one an empty tree is no failure.   *)
CheckTree(b) ==
  /\ pc[b] = "tree"
  /\ LET files == CASE source = "git" -> Tree[commit[b]]
                    [] source = "hf"  -> todo[b]
                    [] source = "s3"  -> Tree[head]
     IN  /\ todo' = [todo EXCEPT ![b] = files]
         /\ IF files = {} \/ (source = "git" /\ commit[b] \in Submodules)
              THEN /\ Goto(b, "failed")
                   /\ message' = [message EXCEPT ![b] = LeavesMessage]
              ELSE /\ Goto(b, IF source = "hf" THEN "download" ELSE "stage")
                   /\ UNCHANGED message
  /\ UNCHANGED <<commit, dest, meta>> /\ InitStep

(* All files of the pinned commit into the cache, then the snapshot is checked *)
(* and the destination cleared.                                                *)
DownloadFiles(b) ==
  /\ source = "hf" /\ pc[b] = "download"
  /\ dest' = clearDestDir(b)
  /\ Goto(b, "stage")
  /\ UNCHANGED <<commit, todo, meta, message>> /\ InitStep

(* One file is copied; an S3 object has the content it has by now, and one     *)
(* that is gone ends the container.                                            *)
StageFile(b) ==
  /\ pc[b] = "stage"
  /\ \E f \in todo[b] :
       IF source = "s3" /\ f \notin Tree[head] THEN Goto(b, "failed") /\ UNCHANGED <<todo, dest>>
       ELSE /\ todo' = [todo EXCEPT ![b] = @ \ {f}]
            /\ dest' = [dest EXCEPT ![b] = @ \cup {CopiedFile(b, f)}]
            /\ Goto(b, IF todo[b] # {f} THEN "stage" ELSE IF source = "s3" THEN "done" ELSE "meta")
  /\ UNCHANGED <<commit, meta, message>> /\ InitStep

writeGitMetadata(b) ==
  /\ pc[b] = "meta"
  /\ meta' = [meta EXCEPT ![b] = commit[b]]
  /\ Goto(b, "done")
  /\ UNCHANGED <<commit, todo, dest, message>> /\ InitStep

(* A failed call, a bad setting, the deadline: the container exits with an     *)
(* error and the pod with it.  Only Hugging Face leaves a message.             *)
InitFails(b) ==
  /\ pc[b] \notin {"done", "failed"}
  /\ Goto(b, "failed")
  /\ message' = [message EXCEPT ![b] = LeavesMessage]
  /\ UNCHANGED <<commit, todo, dest, meta>> /\ InitStep

MoveRef ==
  /\ refKind = "branch" /\ moves < MaxMoves /\ moves' = moves + 1
  /\ \E c \in Commits \ {head} : head' = c
  /\ UNCHANGED <<init, side, source, refKind, faults, restarts, shared, wire, stored>>
------------------------------------------------------------------------------
(* The sidecar.                                                                *)

(* The commit held after an attempt to load it; a held one is never re-read.   *)
LoadAtStartOnly(b, reads) == IF pc[b] = "done" /\ sidecar[b] = "up" THEN sha[b]
                             ELSE IF reads THEN meta[b] ELSE NoSHA
tryLoadGitSHA(b, reads) == IF sha[b] # NoSHA THEN sha[b] ELSE IF reads THEN meta[b] ELSE NoSHA

Fault(bad) == (bad => faults < MaxFaults) /\ faults' = IF bad THEN faults + 1 ELSE faults

StartSidecar(b) ==
  /\ pc[b] = "done" /\ sidecar[b] = "down"
  /\ \E reads \in BOOLEAN :
       /\ Fault(IsGitJob /\ ~reads)
       /\ sha' = [sha EXCEPT ![b] = IF IsGitJob THEN tryLoadGitSHA(b, reads) ELSE NoSHA]
  /\ sidecar' = [sidecar EXCEPT ![b] = "up"]
  /\ UNCHANGED <<init, posted, unchanged, reporters, source, refKind, head, moves, restarts, shared, wire, stored>>

StopSidecar(b) ==
  /\ sidecar[b] = "up" /\ restarts < MaxRestarts
  /\ restarts' = restarts + 1
  /\ sidecar' = [sidecar EXCEPT ![b] = "down"] /\ sha' = [sha EXCEPT ![b] = NoSHA]
  /\ UNCHANGED <<init, posted, unchanged, reporters, source, refKind, head, moves, faults, shared, wire, stored>>

(* The commit a rewritten event leaves with, whatever the adapter put into it. *)
KeepClientSHA(held, client) == IF client # NoSHA THEN client ELSE held
maybeInjectResolvedSHA(held, client) == held

(* The adapter of pod p posts an event about benchmark b, its own or another   *)
(* of the job, and may put a commit into it.  The sidecar of a Git job         *)
(* rewrites it if its path is the events path.                                 *)
RewriteEvent(p, b) ==
  /\ IsGitJob /\ posted[b] < MaxEvents
  /\ \E client \in SHAs, reads \in BOOLEAN :
       LET held == tryLoadGitSHA(p, reads)
       IN  /\ Fault(sha[p] = NoSHA /\ ~reads)
           /\ sha' = [sha EXCEPT ![p] = held]
           /\ wire' = wire \cup {[b |-> b, n |-> posted[b] + 1,
                                  sha |-> maybeInjectResolvedSHA(held, client)]}
  /\ posted' = [posted EXCEPT ![b] = @ + 1]
  /\ reporters' = reporters \cup {<<p, b>>}
  /\ UNCHANGED unchanged

(* Any other request for the API is forwarded with the body it has: an event   *)
(* of a job without a commit, or one whose path isEventsPath does not match    *)
(* and the server still takes for an event.                                    *)
ForwardUnchanged(b) ==
  /\ Cardinality(unchanged) < MaxUnchanged
  /\ \E client \in SHAs : /\ unchanged' = unchanged \cup {<<b, client>>}
                         /\ wire' = wire \cup {[b |-> b, n |-> 0, sha |-> client]}
  /\ UNCHANGED <<sha, posted, reporters, faults>>

HandleProxyCall(p, b) ==
  /\ sidecar[p] = "up"
  /\ RewriteEvent(p, b) \/ ForwardUnchanged(b)
  /\ UNCHANGED <<init, sidecar, source, refKind, head, moves, restarts, shared, stored>>
------------------------------------------------------------------------------
(* The server.                                                                 *)

(* The reference stamped for b is the one every benchmark of a broadcast       *)
(* override points to; the stamped list is then stored with the job.           *)
Stamped(b) == IF shared THEN Bench ELSE {b}

UpdateEvaluationJobResolvedSHA(b, c) ==
  stored' = IF c = NoSHA \/ stored[b] # NoSHA THEN stored
            ELSE [x \in Bench |-> IF x \in Stamped(b) THEN c ELSE stored[x]]

(* Events arrive in any order; the record is written after the event was       *)
(* accepted, and a failed write is only logged.                                *)
HandleUpdateEvaluation ==
  \E e \in wire :
    /\ wire' = wire \ {e}
    /\ \E writes \in BOOLEAN :
         /\ Fault(e.sha # NoSHA /\ ~writes)
         /\ IF writes THEN UpdateEvaluationJobResolvedSHA(e.b, e.sha) ELSE UNCHANGED stored
    /\ UNCHANGED <<init, side, source, refKind, head, moves, restarts, shared>>

Step(b) == \/ run(b) \/ resolveRemoteRef(b) \/ cloneRef(b) \/ DownloadInfo(b) \/ CheckTree(b)
           \/ DownloadFiles(b) \/ StageFile(b) \/ writeGitMetadata(b)
Next == \/ \E b \in Bench : \/ Step(b) \/ InitFails(b) \/ StartSidecar(b) \/ StopSidecar(b)
                            \/ \E x \in Bench : HandleProxyCall(b, x)
        \/ MoveRef \/ HandleUpdateEvaluation

Spec == Init /\ [][Next]_vars
------------------------------------------------------------------------------
(* An init container that ends well has staged all files of one commit and of  *)
(* no other, and has written that commit down, however often the ref moved     *)
(* while it worked; one that ends badly has written nothing down.              *)
StagedWholeCommit ==
  IsGitJob => \A b \in Bench :
    /\ pc[b] = "done" => meta[b] # NoSHA /\ dest[b] = Tree[meta[b]] \X {meta[b]}
    /\ pc[b] = "failed" => meta[b] = NoSHA

(* The commit recorded for a benchmark was staged by a pod that reported on    *)
(* it, hence by its own pod where each reports on its own benchmark, or it was *)
(* claimed in an event that the sidecar did not rewrite.  A claim in an event  *)
(* that was rewritten is never recorded.  Benchmarks that share one reference  *)
(* have one record for all of them.                                            *)
RecordedIsStaged ==
  IsGitJob => \A b \in Bench : stored[b] # NoSHA =>
    \E y \in Stamped(b) : \/ \E p \in Bench : <<p, y>> \in reporters /\ stored[b] = meta[p]
                          \/ <<y, stored[b]>> \in unchanged

(* Every rewritten event tries again: as long as fewer reads and writes failed *)
(* than such events about a benchmark were delivered, its commit is recorded,  *)
(* restarts or not.                                                            *)
RetriesRecord ==
  IsGitJob => \A b \in Bench :
    LET delivered == posted[b] - Cardinality({e \in wire : e.b = b /\ e.n > 0})
    IN  delivered > faults => stored[b] # NoSHA

(* UpdateEvaluationJobResolvedSHA "records the resolved test-data identity on  *)
(* the benchmark at benchmarkIndex": where each pod reports on its own         *)
(* benchmark and every event was rewritten, the record of one is its own.      *)
RecordedForItsOwnBenchmark ==
  /\ IsGitJob
  /\ unchanged = {}
  /\ \A r \in reporters : r[1] = r[2]
  => \A b \in Bench : stored[b] # NoSHA => stored[b] = meta[b]
=============================================================================
