---------------------------- MODULE TestDataProofs ----------------------------
(* What the init containers stage, the sidecars send and the server records, for  *)
(* every set of benchmarks, commits and files, and any number of moves of the     *)
(* ref, restarts, events and failed calls.                                        *)
EXTENDS TestData, FiniteSetTheorems, TLAPS

-----------------------------------------------------------------------------
(* The inductive invariant                                                     *)

\* The part of TypeOK the argument needs.
Events == [b : Bench, n : Nat, sha : SHAs]
InitTypes ==
  /\ head \in Commits
  /\ pc \in [Bench -> {"start", "resolve", "clone", "tree", "download", "stage", "meta", "done", "failed"}]
  /\ commit \in [Bench -> SHAs] /\ meta \in [Bench -> SHAs]
  /\ todo = [b \in Bench |-> todo[b]] /\ dest = [b \in Bench |-> dest[b]]
SideTypes ==
  /\ sidecar \in [Bench -> {"down", "up"}] /\ sha \in [Bench -> SHAs]
  /\ posted \in [Bench -> Nat] /\ faults \in Nat
  /\ wire \subseteq Events /\ IsFiniteSet(wire) /\ stored \in [Bench -> SHAs]

\* How far the init container of b has got, when it stages a Git or Hugging Face commit.
Copied(b, files) == dest[b] = files \X {commit[b]}
StagingOK(b) ==
  /\ pc[b] \in {"start", "resolve", "clone", "tree", "download"} => dest[b] = {}
  /\ pc[b] \in {"tree", "download", "stage", "meta", "done"} => commit[b] \in Commits
  /\ pc[b] \in {"tree", "download"} /\ source = "hf" => todo[b] = Tree[commit[b]]
  /\ pc[b] = "download" => source = "hf"
  /\ pc[b] = "stage" => /\ todo[b] \subseteq Tree[commit[b]]
                        /\ Copied(b, Tree[commit[b]] \ todo[b])
  /\ pc[b] \in {"meta", "done"} => Copied(b, Tree[commit[b]])
  /\ meta[b] = IF pc[b] = "done" THEN commit[b] ELSE NoSHA
StagedOK == IsGitJob => \A b \in Bench : StagingOK(b)

\* A commit a sidecar passes on is the one its pod has written down; a commit that is on
\* its way or recorded comes from a pod that reported, or from an event left unchanged.
Known(b, c) == pc[b] = "done" /\ c = meta[b]
Source(y, c) == \/ \E p \in Bench : <<p, y>> \in reporters /\ Known(p, c)
                \/ <<y, c>> \in unchanged
KnownOK ==
  IsGitJob =>
    /\ \A b \in Bench : (sidecar[b] = "up" => pc[b] = "done") /\ (sha[b] # NoSHA => Known(b, sha[b]))
    /\ \A e \in wire : e.sha # NoSHA => Source(e.b, e.sha)
    /\ \A b \in Bench : stored[b] # NoSHA => \E y \in Stamped(b) : Source(y, stored[b])

\* Every event that was rewritten carries a commit and is on its way, or a call failed.
Carrying(b) == {e \in wire : e.b = b /\ e.n > 0 /\ e.sha # NoSHA}
CountOK ==
  /\ \A e \in wire : e.n <= posted[e.b]
  /\ IsGitJob => \A b \in Bench :
       stored[b] = NoSHA => posted[b] - Cardinality(Carrying(b)) <= faults

Inv == InitTypes /\ SideTypes /\ StagedOK /\ KnownOK /\ CountOK

-----------------------------------------------------------------------------
(* The init container                                                          *)

\* Every step keeps the types of the init containers.
LEMMA InitTypesStep == InitTypes /\ [Next]_vars => InitTypes'
<1> SUFFICES ASSUME InitTypes, [Next]_vars PROVE InitTypes'
  OBVIOUS
<1> USE DEF InitTypes, InitStep, Goto, SHAs, env
<1>1. ASSUME NEW b \in Bench, run(b) \/ resolveRemoteRef(b) PROVE InitTypes'
  BY <1>1 DEF run, resolveRemoteRef
<1>2. ASSUME NEW b \in Bench, cloneRef(b) \/ DownloadInfo(b) PROVE InitTypes'
  BY <1>2 DEF cloneRef, DownloadInfo
<1>3. ASSUME NEW b \in Bench, CheckTree(b) PROVE InitTypes'
  <2> DEFINE files == CASE source = "git" -> Tree[commit[b]]
                        [] source = "hf"  -> todo[b]
                        [] source = "s3"  -> Tree[head]
  <2>1. /\ todo' = [todo EXCEPT ![b] = files] /\ UNCHANGED <<head, commit, meta, dest>>
        /\ \E l \in {"failed", "download", "stage"} : pc' = [pc EXCEPT ![b] = l]
    BY <1>3 DEF CheckTree
  <2> HIDE DEF files
  <2> QED
    BY <2>1
<1>4. ASSUME NEW b \in Bench, DownloadFiles(b) PROVE InitTypes'
  BY <1>4 DEF DownloadFiles, clearDestDir
<1>5. ASSUME NEW b \in Bench, StageFile(b) PROVE InitTypes'
  <2>1. UNCHANGED <<head, commit, meta>>
    BY <1>5 DEF StageFile
  <2>2. \E l \in {"failed", "stage", "meta", "done"} : pc' = [pc EXCEPT ![b] = l]
    BY <1>5 DEF StageFile
  <2>3. \/ UNCHANGED <<todo, dest>>
        \/ \E t, d : todo' = [todo EXCEPT ![b] = t] /\ dest' = [dest EXCEPT ![b] = d]
    BY <1>5 DEF StageFile
  <2> QED
    BY <2>1, <2>2, <2>3
<1>6. ASSUME NEW b \in Bench, writeGitMetadata(b) \/ InitFails(b) PROVE InitTypes'
  BY <1>6 DEF writeGitMetadata, InitFails
<1>7. CASE MoveRef
  BY <1>7 DEF MoveRef, init
<1>8. CASE UNCHANGED <<init, head>>
  BY <1>8 DEF init
<1> QED
  BY <1>1, <1>2, <1>3, <1>4, <1>5, <1>6, <1>7, <1>8
  DEF Next, Step, StartSidecar, StopSidecar, HandleProxyCall, HandleUpdateEvaluation, vars

\* A step of the init container of one benchmark leaves the others' alone.
LEMMA OtherContainers ==
  ASSUME InitTypes, StagedOK, IsGitJob, NEW b \in Bench, NEW l, UNCHANGED source,
         pc' = [pc EXCEPT ![b] = l],
         \A x \in Bench \ {b} : /\ commit'[x] = commit[x] /\ todo'[x] = todo[x]
                                /\ dest'[x] = dest[x] /\ meta'[x] = meta[x],
         StagingOK(b)'
  PROVE  StagedOK'
<1>1. ASSUME NEW x \in Bench \ {b} PROVE StagingOK(x)'
  BY <1>1 DEF InitTypes, StagedOK, StagingOK, Copied
<1> QED
  BY <1>1 DEF StagedOK, IsGitJob

\* Every step keeps the account of what has been staged.
LEMMA StagedStep == InitTypes /\ StagedOK /\ [Next]_vars => StagedOK'
<1> SUFFICES ASSUME InitTypes, StagedOK, [Next]_vars, IsGitJob' PROVE StagedOK'
  BY DEF StagedOK
<1> USE TreeAssumption DEF InitStep, Goto, env
<1>0. UNCHANGED source /\ IsGitJob
  BY DEF Next, Step, run, resolveRemoteRef, cloneRef, DownloadInfo, CheckTree, DownloadFiles,
         StageFile, writeGitMetadata, InitFails, MoveRef, StartSidecar, StopSidecar,
         HandleProxyCall, HandleUpdateEvaluation, vars, IsGitJob
<1>s. \A b \in Bench : StagingOK(b)
  BY <1>0 DEF StagedOK
<1>1. ASSUME NEW b \in Bench, run(b) \/ resolveRemoteRef(b) PROVE StagedOK'
  <2>1. StagingOK(b)'
    BY <1>0, <1>s, <1>1 DEF run, resolveRemoteRef, StagingOK, Copied, InitTypes, IsGitJob
  <2> QED
    BY <1>0, <1>1, <2>1, OtherContainers DEF run, resolveRemoteRef
<1>2. ASSUME NEW b \in Bench, cloneRef(b) PROVE StagedOK'
  <2>1. StagingOK(b)'
    BY <1>0, <1>s, <1>2 DEF cloneRef, StagingOK, Copied, InitTypes
  <2>2. \A x \in Bench \ {b} : commit'[x] = commit[x]
    BY <1>2 DEF cloneRef, InitTypes
  <2> QED
    BY <1>0, <1>2, <2>1, <2>2, OtherContainers DEF cloneRef
<1>3. ASSUME NEW b \in Bench, DownloadInfo(b) PROVE StagedOK'
  <2>1. StagingOK(b)'
    BY <1>0, <1>s, <1>3 DEF DownloadInfo, StagingOK, Copied, InitTypes
  <2>2. \A x \in Bench \ {b} : commit'[x] = commit[x] /\ todo'[x] = todo[x]
    BY <1>3 DEF DownloadInfo, InitTypes
  <2> QED
    BY <1>0, <1>3, <2>1, <2>2, OtherContainers DEF DownloadInfo
<1>4. ASSUME NEW b \in Bench, CheckTree(b) PROVE StagedOK'
  <2> DEFINE files == CASE source = "git" -> Tree[commit[b]]
                        [] source = "hf"  -> todo[b]
                        [] source = "s3"  -> Tree[head]
  <2>1. /\ pc[b] = "tree" /\ todo' = [todo EXCEPT ![b] = files] /\ UNCHANGED <<commit, meta, dest>>
        /\ \E l \in {"failed", "download", "stage"} : pc' = [pc EXCEPT ![b] = l] /\ (l = "download" => source = "hf")
    BY <1>4 DEF CheckTree
  <2>2. commit[b] \in Commits /\ dest[b] = {} /\ meta[b] = NoSHA
    BY <1>s, <2>1 DEF StagingOK
  <2>3. files = Tree[commit[b]]
    BY <1>0, <1>s, <2>1 DEF IsGitJob, StagingOK
  <2> HIDE DEF files
  <2>4. PICK l \in {"failed", "download", "stage"} :
          pc' = [pc EXCEPT ![b] = l] /\ (l = "download" => source = "hf")
    BY <2>1
  <2>5. /\ pc'[b] = l /\ todo'[b] = Tree[commit[b]] /\ commit'[b] = commit[b] /\ dest'[b] = {}
        /\ meta'[b] = NoSHA
    BY <2>1, <2>2, <2>3, <2>4 DEF InitTypes
  <2>6. (Tree[commit[b]] \ Tree[commit[b]]) \X {commit[b]} = {}
    OBVIOUS
  <2>7. StagingOK(b)'
    BY <1>0, <2>2, <2>4, <2>5, <2>6 DEF StagingOK, Copied
  <2>8. \A x \in Bench \ {b} : todo'[x] = todo[x]
    BY <2>1 DEF InitTypes
  <2> QED
    BY <1>0, <2>1, <2>4, <2>7, <2>8, OtherContainers
<1>5. ASSUME NEW b \in Bench, DownloadFiles(b) PROVE StagedOK'
  <2>1. StagingOK(b)'
    <3>1. /\ pc[b] = "download" /\ pc'[b] = "stage" /\ dest'[b] = {} /\ source = "hf"
          /\ UNCHANGED <<commit, todo, meta>>
      BY <1>5 DEF DownloadFiles, clearDestDir, InitTypes
    <3>2. commit[b] \in Commits /\ todo[b] = Tree[commit[b]] /\ meta[b] = NoSHA
      BY <1>s, <3>1 DEF StagingOK
    <3>3. (Tree[commit[b]] \ Tree[commit[b]]) \X {commit[b]} = {}
      OBVIOUS
    <3> QED
      BY <3>1, <3>2, <3>3 DEF StagingOK, Copied
  <2>2. \A x \in Bench \ {b} : dest'[x] = dest[x]
    BY <1>5 DEF DownloadFiles, clearDestDir, InitTypes
  <2> QED
    BY <1>0, <1>5, <2>1, <2>2, OtherContainers DEF DownloadFiles
<1>6. ASSUME NEW b \in Bench, StageFile(b) PROVE StagedOK'
  <2> DEFINE c == commit[b]
  <2>1. PICK f \in todo[b] :
          /\ todo' = [todo EXCEPT ![b] = todo[b] \ {f}]
          /\ dest' = [dest EXCEPT ![b] = dest[b] \cup {<<f, c>>}]
          /\ pc' = [pc EXCEPT ![b] = IF todo[b] # {f} THEN "stage" ELSE "meta"]
    BY <1>0, <1>6 DEF StageFile, CopiedFile, IsGitJob
  <2>2. UNCHANGED <<commit, meta>> /\ pc[b] = "stage"
    BY <1>6 DEF StageFile
  <2>3. /\ c \in Commits /\ todo[b] \subseteq Tree[c] /\ meta[b] = NoSHA
        /\ dest[b] = (Tree[c] \ todo[b]) \X {c}
    BY <1>s, <2>2 DEF StagingOK, Copied
  <2>4. todo'[b] = todo[b] \ {f} /\ dest'[b] = dest[b] \cup {<<f, c>>}
    BY <2>1 DEF InitTypes
  <2>5. dest'[b] = (Tree[c] \ todo'[b]) \X {c}
    BY <2>3, <2>4
  <2>6. todo[b] = {f} => todo'[b] = {}
    BY <2>4
  <2>7. pc'[b] = IF todo[b] # {f} THEN "stage" ELSE "meta"
    BY <2>1 DEF InitTypes
  <2>8. todo'[b] = {} => dest'[b] = Tree[c] \X {c}
    BY <2>5
  <2>9. todo'[b] \subseteq Tree[c]
    BY <2>3, <2>4
  <2>10. StagingOK(b)'
    BY <2>2, <2>3, <2>5, <2>6, <2>7, <2>8, <2>9 DEF StagingOK, Copied
  <2>11. \A x \in Bench \ {b} : todo'[x] = todo[x] /\ dest'[x] = dest[x]
    BY <2>1 DEF InitTypes
  <2> QED
    BY <1>0, <2>1, <2>2, <2>10, <2>11, OtherContainers
<1>7. ASSUME NEW b \in Bench, writeGitMetadata(b) PROVE StagedOK'
  <2>1. StagingOK(b)'
    BY <1>s, <1>7 DEF writeGitMetadata, StagingOK, Copied, InitTypes
  <2>2. \A x \in Bench \ {b} : meta'[x] = meta[x]
    BY <1>7 DEF writeGitMetadata, InitTypes
  <2> QED
    BY <1>0, <1>7, <2>1, <2>2, OtherContainers DEF writeGitMetadata
<1>8. ASSUME NEW b \in Bench, InitFails(b) PROVE StagedOK'
  <2>1. StagingOK(b)'
    BY <1>s, <1>8 DEF InitFails, StagingOK, Copied, InitTypes
  <2> QED
    BY <1>0, <1>8, <2>1, OtherContainers DEF InitFails
<1>9. CASE UNCHANGED init
  BY <1>0, <1>s, <1>9 DEF init, StagedOK, StagingOK, Copied
<1> QED
  BY <1>1, <1>2, <1>3, <1>4, <1>5, <1>6, <1>7, <1>8, <1>9
  DEF Next, Step, MoveRef, StartSidecar, StopSidecar, HandleProxyCall, HandleUpdateEvaluation, vars

-----------------------------------------------------------------------------
(* The sidecar and the server                                                  *)

\* The commit a sidecar holds after tryLoadGitSHA, and whether the read failed.
Held(b, reads) == IF IsGitJob THEN tryLoadGitSHA(b, reads) ELSE NoSHA

\* Every step keeps the types of the sidecars, of the events and of the record.
LEMMA SideTypesStep == InitTypes /\ SideTypes /\ [Next]_vars => SideTypes'
<1> SUFFICES ASSUME InitTypes, SideTypes, [Next]_vars PROVE SideTypes'
  OBVIOUS
<1> USE DEF SideTypes, Fault
<1>h. \A b \in Bench : \A reads \in BOOLEAN : Held(b, reads) \in SHAs
  BY DEF Held, tryLoadGitSHA, SHAs, InitTypes
<1>1. ASSUME NEW b \in Bench, StartSidecar(b) PROVE SideTypes'
  <2>1. PICK reads \in BOOLEAN : faults' \in {faults, faults + 1} /\ sha' = [sha EXCEPT ![b] = Held(b, reads)]
    BY <1>1 DEF StartSidecar, Held
  <2>2. sidecar' = [sidecar EXCEPT ![b] = "up"] /\ UNCHANGED <<posted, wire, stored>>
    BY <1>1 DEF StartSidecar
  <2> QED
    BY <1>h, <2>1, <2>2
<1>2. ASSUME NEW b \in Bench, StopSidecar(b) PROVE SideTypes'
  BY <1>2 DEF StopSidecar, SHAs
<1>3. ASSUME NEW p \in Bench, NEW b \in Bench, HandleProxyCall(p, b) PROVE SideTypes'
  <2>1. UNCHANGED <<sidecar, stored>>
    BY <1>3 DEF HandleProxyCall
  <2>2. CASE RewriteEvent(p, b)
    <3>1. PICK reads \in BOOLEAN, client \in SHAs :
            /\ faults' \in {faults, faults + 1} /\ sha' = [sha EXCEPT ![p] = Held(p, reads)]
            /\ wire' = wire \cup {[b |-> b, n |-> posted[b] + 1, sha |-> Held(p, reads)]}
      BY <2>2 DEF RewriteEvent, Held, maybeInjectResolvedSHA
    <3>2. posted' = [posted EXCEPT ![b] = posted[b] + 1]
      BY <2>2 DEF RewriteEvent
    <3>3. [b |-> b, n |-> posted[b] + 1, sha |-> Held(p, reads)] \in Events
      BY <1>h DEF Events
    <3>4. IsFiniteSet(wire') /\ wire' \subseteq Events
      BY <3>1, <3>3, FS_AddElement
    <3> QED
      BY <1>h, <2>1, <3>1, <3>2, <3>4
  <2>3. CASE ForwardUnchanged(b)
    <3>1. PICK c \in SHAs : wire' = wire \cup {[b |-> b, n |-> 0, sha |-> c]}
      BY <2>3 DEF ForwardUnchanged
    <3>2. [b |-> b, n |-> 0, sha |-> c] \in Events
      BY DEF Events
    <3>3. IsFiniteSet(wire') /\ wire' \subseteq Events
      BY <3>1, <3>2, FS_AddElement
    <3> QED
      BY <2>1, <2>3, <3>3 DEF ForwardUnchanged
  <2> QED
    BY <1>3, <2>2, <2>3 DEF HandleProxyCall
<1>4. CASE HandleUpdateEvaluation
  <2>1. PICK e \in wire : wire' = wire \ {e} /\ faults' \in {faults, faults + 1}
                          /\ (stored' = stored \/ UpdateEvaluationJobResolvedSHA(e.b, e.sha))
    BY <1>4 DEF HandleUpdateEvaluation
  <2>2. UNCHANGED <<sidecar, sha, posted>>
    BY <1>4 DEF HandleUpdateEvaluation, side
  <2>3. e.sha \in SHAs
    BY <2>1 DEF Events
  <2>4. stored' \in [Bench -> SHAs]
    BY <2>1, <2>3 DEF UpdateEvaluationJobResolvedSHA
  <2>5. IsFiniteSet(wire')
    BY <2>1, FS_RemoveElement
  <2> QED
    BY <2>1, <2>2, <2>4, <2>5
<1>5. CASE UNCHANGED <<side, wire, stored, faults>>
  BY <1>5 DEF side
<1> QED
  BY <1>1, <1>2, <1>3, <1>4, <1>5
  DEF Next, Step, run, resolveRemoteRef, cloneRef, DownloadInfo, CheckTree, DownloadFiles,
      StageFile, writeGitMetadata, InitFails, InitStep, env, MoveRef, vars

\* What was written down stays so: no step goes back from "done".
LEMMA WrittenStays ==
  ASSUME InitTypes, [Next]_vars, NEW b \in Bench, pc[b] = "done"
  PROVE  pc'[b] = "done" /\ meta'[b] = meta[b]
<1> USE DEF InitTypes, Goto
<1>1. ASSUME NEW x \in Bench, Step(x) \/ InitFails(x) PROVE pc'[b] = "done" /\ meta'[b] = meta[b]
  <2>1. pc[x] # "done"
    BY <1>1 DEF Step, run, resolveRemoteRef, cloneRef, DownloadInfo, CheckTree, DownloadFiles,
                StageFile, writeGitMetadata, InitFails
  <2>2. \E l : pc' = [pc EXCEPT ![x] = l]
    BY <1>1 DEF Step, run, resolveRemoteRef, cloneRef, DownloadInfo, CheckTree, DownloadFiles,
                StageFile, writeGitMetadata, InitFails
  <2>3. meta' = meta \/ \E c : meta' = [meta EXCEPT ![x] = c]
    BY <1>1 DEF Step, run, resolveRemoteRef, cloneRef, DownloadInfo, CheckTree, DownloadFiles,
                StageFile, writeGitMetadata, InitFails
  <2> QED
    BY <2>1, <2>2, <2>3
<1>2. CASE UNCHANGED init
  BY <1>2 DEF init
<1> QED
  BY <1>1, <1>2
  DEF Next, MoveRef, StartSidecar, StopSidecar, HandleProxyCall, HandleUpdateEvaluation, vars

\* What is known of a benchmark stays known.
LEMMA KnownStays ==
  ASSUME InitTypes, [Next]_vars
  PROVE  \A b \in Bench, c \in SHAs : Known(b, c) => Known(b, c)'
  BY WrittenStays DEF Known

\* So does where a commit comes from.
LEMMA SourceStays ==
  ASSUME InitTypes, [Next]_vars
  PROVE  \A y \in Bench, c \in SHAs : Source(y, c) => Source(y, c)'
<1>1. reporters \subseteq reporters' /\ unchanged \subseteq unchanged'
  BY DEF Next, Step, run, resolveRemoteRef, cloneRef, DownloadInfo, CheckTree, DownloadFiles,
         StageFile, writeGitMetadata, InitFails, MoveRef, StartSidecar, StopSidecar, InitStep,
         HandleProxyCall, RewriteEvent, ForwardUnchanged, HandleUpdateEvaluation, side, vars
<1> QED
  BY <1>1, KnownStays DEF Source

\* Every step keeps the commits that are passed on true.
LEMMA KnownStep == Inv /\ [Next]_vars => KnownOK'
<1> SUFFICES ASSUME Inv, [Next]_vars, IsGitJob' PROVE KnownOK'
  BY DEF KnownOK
<1> USE DEF InitStep, env
<1>0. UNCHANGED <<source, shared>> /\ IsGitJob
  BY DEF Next, Step, run, resolveRemoteRef, cloneRef, DownloadInfo, CheckTree, DownloadFiles,
         StageFile, writeGitMetadata, InitFails, MoveRef, StartSidecar, StopSidecar,
         HandleProxyCall, HandleUpdateEvaluation, vars, IsGitJob
<1>t. /\ sha \in [Bench -> SHAs] /\ stored \in [Bench -> SHAs] /\ wire \subseteq Events
      /\ sidecar \in [Bench -> {"down", "up"}]
  BY DEF Inv, SideTypes
<1>k. \A b \in Bench, c \in SHAs : Known(b, c) => Known(b, c)'
  BY KnownStays DEF Inv
<1>o. \A y \in Bench, c \in SHAs : Source(y, c) => Source(y, c)'
  BY SourceStays DEF Inv
<1>d. \A b \in Bench : pc[b] = "done" => pc'[b] = "done"
  BY WrittenStays DEF Inv
<1>h. \A b \in Bench : \A reads \in BOOLEAN :
        pc[b] = "done" /\ Held(b, reads) # NoSHA => Known(b, Held(b, reads))
  BY <1>0 DEF Held, tryLoadGitSHA, Inv, KnownOK, Known
<1>y. \A b \in Bench : \A reads \in BOOLEAN : Held(b, reads) \in SHAs
  BY <1>t DEF Held, tryLoadGitSHA, SHAs, Inv, InitTypes
<1> DEFINE Sidecars == \A b \in Bench : /\ sidecar[b] = "up" => pc[b] = "done"
                                        /\ sha[b] # NoSHA => Known(b, sha[b])
<1> DEFINE Wire   == \A e \in wire : e.sha # NoSHA => Source(e.b, e.sha)
<1> DEFINE Record == \A b \in Bench : stored[b] # NoSHA => \E y \in Stamped(b) : Source(y, stored[b])
<1>s. Sidecars /\ Wire /\ Record
  BY <1>0 DEF Inv, KnownOK
<1>1. Sidecars'
  <2>1. ASSUME NEW b \in Bench, StartSidecar(b) PROVE Sidecars'
    <3>1. PICK reads \in BOOLEAN : sha' = [sha EXCEPT ![b] = Held(b, reads)]
      BY <2>1 DEF StartSidecar, Held
    <3>2. pc[b] = "done" /\ sidecar' = [sidecar EXCEPT ![b] = "up"]
      BY <2>1 DEF StartSidecar
    <3>3. UNCHANGED <<pc, meta>>
      BY <2>1 DEF StartSidecar, init
    <3> QED
      BY <1>h, <1>s, <1>t, <3>1, <3>2, <3>3 DEF Known
  <2>2. ASSUME NEW b \in Bench, StopSidecar(b) PROVE Sidecars'
    BY <1>s, <1>t, <2>2 DEF StopSidecar, init, Known
  <2>3. ASSUME NEW p \in Bench, NEW b \in Bench, HandleProxyCall(p, b), sha' # sha PROVE Sidecars'
    <3>1. PICK reads \in BOOLEAN : sha' = [sha EXCEPT ![p] = Held(p, reads)]
      BY <2>3 DEF HandleProxyCall, RewriteEvent, ForwardUnchanged, Held
    <3>2. pc[p] = "done" /\ UNCHANGED <<sidecar, pc, meta>>
      BY <1>s, <2>3 DEF HandleProxyCall, init
    <3> QED
      BY <1>h, <1>s, <1>t, <3>1, <3>2 DEF Known
  <2>4. CASE UNCHANGED <<sidecar, sha>>
    BY <1>d, <1>k, <1>s, <1>t, <2>4
  <2> QED
    BY <2>1, <2>2, <2>3, <2>4
    DEF Next, Step, run, resolveRemoteRef, cloneRef, DownloadInfo, CheckTree, DownloadFiles,
        StageFile, writeGitMetadata, InitFails, MoveRef, HandleProxyCall, HandleUpdateEvaluation,
        side, vars
<1>2. Wire'
  <2>1. ASSUME NEW p \in Bench, NEW b \in Bench, HandleProxyCall(p, b) PROVE Wire'
    <3>1. \A e \in wire : e.sha # NoSHA => Source(e.b, e.sha)'
      BY <1>o, <1>s, <1>t DEF Events
    <3>2. CASE RewriteEvent(p, b)
      <4>1. PICK reads \in BOOLEAN, c \in SHAs :
              c = Held(p, reads) /\ wire' = wire \cup {[b |-> b, n |-> posted[b] + 1, sha |-> c]}
        BY <1>y, <1>0, <3>2 DEF RewriteEvent, Held, maybeInjectResolvedSHA
      <4>2. pc[p] = "done" /\ UNCHANGED <<pc, meta>> /\ <<p, b>> \in reporters'
        BY <1>s, <2>1, <3>2 DEF HandleProxyCall, RewriteEvent, init
      <4>3. c # NoSHA => Source(b, c)'
        <5>1. c # NoSHA => pc'[p] = "done" /\ c = meta'[p]
          BY <1>h, <4>1, <4>2 DEF Known
        <5> QED
          BY <4>2, <5>1 DEF Source, Known
      <4> QED
        BY <3>1, <4>1, <4>3
    <3>3. CASE ForwardUnchanged(b)
      BY <3>1, <3>3 DEF ForwardUnchanged, Source
    <3> QED
      BY <2>1, <3>2, <3>3 DEF HandleProxyCall
  <2>2. CASE HandleUpdateEvaluation
    <3>1. wire' \subseteq wire
      BY <2>2 DEF HandleUpdateEvaluation
    <3> QED
      BY <1>o, <1>s, <1>t, <3>1 DEF Events
  <2>3. CASE UNCHANGED wire
    BY <1>o, <1>s, <1>t, <2>3 DEF Events
  <2> QED
    BY <2>1, <2>2, <2>3
    DEF Next, Step, run, resolveRemoteRef, cloneRef, DownloadInfo, CheckTree, DownloadFiles,
        StageFile, writeGitMetadata, InitFails, MoveRef, StartSidecar, StopSidecar, vars
<1>3. Record'
  <2>1. CASE HandleUpdateEvaluation
    <3>1. PICK e \in wire : stored' = stored \/ UpdateEvaluationJobResolvedSHA(e.b, e.sha)
      BY <2>1 DEF HandleUpdateEvaluation
    <3>2. \A b \in Bench : Stamped(b)' = Stamped(b) /\ Stamped(b) \subseteq Bench
      BY <1>0 DEF Stamped
    <3>3. CASE stored' = stored
      BY <1>o, <1>s, <1>t, <3>2, <3>3
    <3>4. CASE stored' # stored
      <4>1. /\ e.sha # NoSHA /\ e.b \in Bench /\ e.sha \in SHAs
            /\ stored' = [x \in Bench |-> IF x \in Stamped(e.b) THEN e.sha ELSE stored[x]]
        BY <1>t, <3>1, <3>4 DEF UpdateEvaluationJobResolvedSHA, Events
      <4>2. Source(e.b, e.sha)'
        BY <1>o, <1>s, <4>1
      <4>3. \A b \in Stamped(e.b) : e.b \in Stamped(b)'
        BY <1>0, <4>1 DEF Stamped
      <4>4. ASSUME NEW b \in Bench, stored'[b] # NoSHA
            PROVE  \E y \in Stamped(b)' : Source(y, stored[b])'
        <5>1. CASE b \in Stamped(e.b)
          BY <4>1, <4>2, <4>3, <5>1
        <5>2. CASE b \notin Stamped(e.b)
          <6>1. stored'[b] = stored[b]
            BY <4>1, <5>2
          <6>2. PICK y \in Stamped(b) : Source(y, stored[b])
            BY <1>s, <4>4, <6>1
          <6>3. Source(y, stored[b])'
            BY <1>o, <1>t, <3>2, <6>1, <6>2
          <6> QED
            BY <3>2, <6>3
        <5> QED
          BY <5>1, <5>2
      <4> QED
        BY <4>4
    <3> QED
      BY <3>3, <3>4
  <2>2. CASE UNCHANGED stored
    <3>1. \A b \in Bench : Stamped(b)' = Stamped(b) /\ Stamped(b) \subseteq Bench
      BY <1>0 DEF Stamped
    <3> QED
      BY <1>o, <1>s, <1>t, <2>2, <3>1
  <2> QED
    BY <2>1, <2>2
    DEF Next, Step, run, resolveRemoteRef, cloneRef, DownloadInfo, CheckTree, DownloadFiles,
        StageFile, writeGitMetadata, InitFails, MoveRef, StartSidecar, StopSidecar,
        HandleProxyCall, vars
<1> QED
  BY <1>1, <1>2, <1>3 DEF KnownOK

-----------------------------------------------------------------------------
(* Retries                                                                     *)

\* The events of a benchmark that carry its commit are finitely many.
LEMMA CarryingFinite ==
  ASSUME SideTypes, NEW b \in Bench
  PROVE  IsFiniteSet(Carrying(b)) /\ Cardinality(Carrying(b)) \in Nat
<1>1. Carrying(b) \in SUBSET wire
  BY DEF Carrying
<1>2. IsFiniteSet(Carrying(b))
  BY <1>1, FS_Subset DEF SideTypes
<1> QED
  BY <1>2, FS_CardinalityType

\* Every step keeps the account: an event that does not carry the commit, or whose commit
\* is not recorded, costs a failed call.
LEMMA CountStep == Inv /\ [Next]_vars => CountOK'
<1> SUFFICES ASSUME Inv, [Next]_vars PROVE CountOK'
  OBVIOUS
<1> USE DEF InitStep, env
<1>0. UNCHANGED source /\ (IsGitJob' <=> IsGitJob)
  BY DEF Next, Step, run, resolveRemoteRef, cloneRef, DownloadInfo, CheckTree, DownloadFiles,
         StageFile, writeGitMetadata, InitFails, MoveRef, StartSidecar, StopSidecar,
         HandleProxyCall, HandleUpdateEvaluation, vars, IsGitJob
<1>t. /\ posted \in [Bench -> Nat] /\ faults \in Nat /\ wire \subseteq Events
      /\ stored \in [Bench -> SHAs]
  BY DEF Inv, SideTypes
<1>c. \A b \in Bench : IsFiniteSet(Carrying(b)) /\ Cardinality(Carrying(b)) \in Nat
  BY CarryingFinite DEF Inv
<1>n. \A e \in wire : e.n <= posted[e.b]
  BY DEF Inv, CountOK
<1>g. IsGitJob => \A b \in Bench :
        stored[b] = NoSHA => posted[b] - Cardinality(Carrying(b)) <= faults
  BY DEF Inv, CountOK
<1>1. ASSUME NEW p \in Bench, NEW b \in Bench, HandleProxyCall(p, b), RewriteEvent(p, b)
      PROVE  CountOK'
  <2>1. PICK reads \in BOOLEAN :
          /\ wire' = wire \cup {[b |-> b, n |-> posted[b] + 1, sha |-> Held(p, reads)]}
          /\ Fault(sha[p] = NoSHA /\ ~reads)
    BY <1>1 DEF RewriteEvent, Held, maybeInjectResolvedSHA
  <2>2. posted' = [posted EXCEPT ![b] = posted[b] + 1] /\ UNCHANGED stored /\ sidecar[p] = "up"
        /\ faults' \in {faults, faults + 1}
    BY <1>1 DEF HandleProxyCall, RewriteEvent, Fault
  <2> DEFINE c == Held(p, reads)
  <2> DEFINE new == [b |-> b, n |-> posted[b] + 1, sha |-> c]
  <2>3. new.b = b /\ new.n = posted[b] + 1 /\ new.sha = c
    OBVIOUS
  <2>4. wire' = wire \cup {new}
    BY <2>1
  <2> HIDE DEF new, c
  <2>5. new \notin wire
    BY <1>n, <1>t, <2>3
  <2>6. \A e \in wire' : e.n <= posted'[e.b]
    <3>1. \A e \in wire : e.b \in Bench /\ e.n \in Nat
      BY <1>t DEF Events
    <3>2. \A x \in Bench : posted'[x] = IF x = b THEN posted[b] + 1 ELSE posted[x]
      BY <1>t, <2>2
    <3> QED
      BY <1>n, <1>t, <2>3, <2>4, <3>1, <3>2
  <2>7. ASSUME IsGitJob, NEW x \in Bench, stored'[x] = NoSHA
        PROVE  posted'[x] - Cardinality(Carrying(x)') <= faults'
    <3>1. CASE x # b
      <4>1. Carrying(x)' = Carrying(x)
        BY <2>3, <2>4, <3>1 DEF Carrying
      <4>2. posted'[x] = posted[x] /\ stored[x] = NoSHA
        BY <1>t, <2>2, <2>7, <3>1
      <4> QED
        BY <1>c, <1>g, <1>t, <2>2, <2>7, <4>1, <4>2
    <3>2. CASE x = b /\ c # NoSHA
      <4>1. Carrying(b)' = Carrying(b) \cup {new} /\ new \notin Carrying(b)
        BY <1>t, <2>3, <2>4, <2>5, <3>2 DEF Carrying
      <4>2. Cardinality(Carrying(b)') = Cardinality(Carrying(b)) + 1
        BY <1>c, <4>1, FS_AddElement
      <4>3. posted'[b] = posted[b] + 1 /\ stored[b] = NoSHA
        BY <1>t, <2>2, <2>7, <3>2
      <4> QED
        BY <1>c, <1>g, <1>t, <2>2, <2>7, <3>2, <4>2, <4>3
    <3>3. CASE x = b /\ c = NoSHA
      <4>1. Carrying(b)' = Carrying(b)
        BY <2>3, <2>4, <3>3 DEF Carrying
      <4>2. pc[p] = "done" /\ meta[p] # NoSHA
        BY <2>2, <2>7, TreeAssumption DEF Inv, KnownOK, StagedOK, StagingOK
      <4>3. sha[p] = NoSHA /\ ~reads
        BY <2>7, <3>3, <4>2 DEF c, Held, tryLoadGitSHA
      <4>4. faults' = faults + 1
        BY <2>1, <2>7, <4>3 DEF Fault
      <4>5. posted'[b] = posted[b] + 1 /\ stored[b] = NoSHA
        BY <1>t, <2>2, <2>7, <3>3
      <4> QED
        BY <1>c, <1>g, <1>t, <2>7, <3>3, <4>1, <4>4, <4>5
    <3> QED
      BY <3>1, <3>2, <3>3
  <2> QED
    BY <1>0, <2>6, <2>7 DEF CountOK
<1>4. ASSUME NEW b \in Bench, ForwardUnchanged(b), UNCHANGED stored PROVE CountOK'
  <2>1. PICK c \in SHAs : wire' = wire \cup {[b |-> b, n |-> 0, sha |-> c]}
    BY <1>4 DEF ForwardUnchanged
  <2>2. UNCHANGED <<posted, faults>>
    BY <1>4 DEF ForwardUnchanged
  <2>3. \A x \in Bench : Carrying(x)' = Carrying(x)
    BY <2>1 DEF Carrying
  <2>4. \A e \in wire' : e.n <= posted'[e.b]
    BY <1>n, <1>t, <2>1, <2>2
  <2>5. ASSUME IsGitJob, NEW x \in Bench, stored'[x] = NoSHA
        PROVE  posted'[x] - Cardinality(Carrying(x)') <= faults'
    BY <1>4, <1>g, <2>2, <2>3, <2>5
  <2> QED
    BY <1>0, <2>4, <2>5 DEF CountOK
<1>2. CASE HandleUpdateEvaluation
  <2>1. PICK e \in wire :
          /\ wire' = wire \ {e}
          /\ \E writes \in BOOLEAN :
               /\ Fault(e.sha # NoSHA /\ ~writes)
               /\ IF writes THEN UpdateEvaluationJobResolvedSHA(e.b, e.sha) ELSE UNCHANGED stored
    BY <1>2 DEF HandleUpdateEvaluation
  <2>2. PICK writes \in BOOLEAN :
          /\ Fault(e.sha # NoSHA /\ ~writes)
          /\ IF writes THEN UpdateEvaluationJobResolvedSHA(e.b, e.sha) ELSE UNCHANGED stored
    BY <2>1
  <2>3. UNCHANGED posted /\ faults' \in {faults, faults + 1} /\ e.b \in Bench
    BY <1>2, <1>t, <2>1, <2>2 DEF HandleUpdateEvaluation, side, Fault, Events
  <2>4. \A x \in wire' : x.n <= posted'[x.b]
    BY <1>n, <2>1, <2>3
  <2>5. ASSUME IsGitJob, NEW x \in Bench, stored'[x] = NoSHA
        PROVE  posted'[x] - Cardinality(Carrying(x)') <= faults'
    <3>1. stored[x] = NoSHA
      BY <1>t, <2>2, <2>5 DEF UpdateEvaluationJobResolvedSHA
    <3>2. CASE e \notin Carrying(x)
      <4>1. Carrying(x)' = Carrying(x)
        BY <2>1, <3>2 DEF Carrying
      <4> QED
        BY <1>c, <1>g, <1>t, <2>3, <2>5, <3>1, <4>1
    <3>3. CASE e \in Carrying(x)
      <4>1. e.b = x /\ e.sha # NoSHA
        BY <3>3 DEF Carrying
      <4>2. ~writes
        BY <1>t, <2>2, <2>5, <3>1, <4>1 DEF UpdateEvaluationJobResolvedSHA, Stamped
      <4>3. faults' = faults + 1
        BY <2>2, <4>1, <4>2 DEF Fault
      <4>4. Carrying(x)' = Carrying(x) \ {e}
        BY <2>1 DEF Carrying
      <4>5. Cardinality(Carrying(x)') = Cardinality(Carrying(x)) - 1
        BY <1>c, <3>3, <4>4, FS_RemoveElement
      <4> QED
        BY <1>c, <1>g, <1>t, <2>3, <2>5, <3>1, <4>3, <4>5
    <3> QED
      BY <3>2, <3>3
  <2> QED
    BY <1>0, <2>4, <2>5 DEF CountOK
<1>3. CASE UNCHANGED <<wire, posted, stored>> /\ faults' \in {faults, faults + 1}
  <2>1. \A b \in Bench : Carrying(b)' = Carrying(b)
    BY <1>3 DEF Carrying
  <2>2. ASSUME IsGitJob, NEW b \in Bench, stored'[b] = NoSHA
        PROVE  posted'[b] - Cardinality(Carrying(b)') <= faults'
    BY <1>3, <1>c, <1>g, <1>t, <2>1, <2>2
  <2> QED
    BY <1>0, <1>3, <1>n, <2>2 DEF CountOK
<1> QED
  BY <1>1, <1>2, <1>3, <1>4
  DEF Next, Step, run, resolveRemoteRef, cloneRef, DownloadInfo, CheckTree, DownloadFiles,
      StageFile, writeGitMetadata, InitFails, MoveRef, StartSidecar, StopSidecar,
      HandleProxyCall, Fault, side, vars

-----------------------------------------------------------------------------
(* The theorems                                                                *)

\* Before the init containers start, nothing is staged, sent or recorded.
LEMMA InvInit == Init => Inv
<1> SUFFICES ASSUME Init PROVE Inv
  OBVIOUS
<1> USE DEF Init
<1>1. InitTypes
  BY DEF InitTypes, SHAs
<1>2. SideTypes
  BY FS_EmptySet DEF SideTypes, SHAs
<1>3. StagedOK
  BY DEF StagedOK, StagingOK
<1>4. KnownOK
  BY DEF KnownOK
<1>5. ASSUME NEW b \in Bench PROVE posted[b] - Cardinality(Carrying(b)) <= faults
  <2>1. Carrying(b) = {}
    BY DEF Carrying
  <2> QED
    BY <2>1, FS_EmptySet
<1>6. CountOK
  BY <1>5 DEF CountOK
<1> QED
  BY <1>1, <1>2, <1>3, <1>4, <1>6 DEF Inv

\* The invariant of the test data pipeline: staged files, commits passed on, events counted.
THEOREM TestDataInvariant == Spec => []Inv
<1>1. Inv /\ [Next]_vars => Inv'
  BY InitTypesStep, SideTypesStep, StagedStep, KnownStep, CountStep DEF Inv
<1> QED
  BY <1>1, InvInit, PTL DEF Spec

\* For every tree and any number of moves of the ref: an init container that ends well has
\* staged all files of one commit and of no other, and has written that commit down.
THEOREM TestDataStagedWholeCommit == Spec => []StagedWholeCommit
<1>1. Inv => StagedWholeCommit
  BY TreeAssumption DEF Inv, StagedOK, StagingOK, Copied, StagedWholeCommit
<1> QED
  BY <1>1, TestDataInvariant, PTL

\* For every set of benchmarks, whichever benchmark an adapter reports on and however often
\* sidecars restart: the commit the server records was staged by a pod that reported on the
\* benchmark, or claimed in an event about it that went past the rewrite.
THEOREM TestDataRecordedIsStaged == Spec => []RecordedIsStaged
<1>1. Inv => RecordedIsStaged
  BY DEF Inv, KnownOK, Known, Source, RecordedIsStaged
<1> QED
  BY <1>1, TestDataInvariant, PTL

\* For any number of events, faults and restarts: once more rewritten events about a benchmark
\* were delivered than calls failed, the commit is recorded.
THEOREM TestDataRetriesRecord == Spec => []RetriesRecord
<1>1. ASSUME Inv, IsGitJob, NEW b \in Bench,
             posted[b] - Cardinality({e \in wire : e.b = b /\ e.n > 0}) > faults
      PROVE  stored[b] # NoSHA
  <2> DEFINE pending == {e \in wire : e.b = b /\ e.n > 0}
  <2>1. posted[b] \in Nat /\ faults \in Nat
    BY <1>1 DEF Inv, SideTypes
  <2>2. pending \in SUBSET wire /\ Carrying(b) \in SUBSET pending
    BY DEF Carrying
  <2> HIDE DEF pending
  <2>3. IsFiniteSet(pending)
    BY <1>1, <2>2, FS_Subset DEF Inv, SideTypes
  <2>4. /\ Cardinality(pending) \in Nat /\ Cardinality(Carrying(b)) \in Nat
        /\ Cardinality(Carrying(b)) <= Cardinality(pending)
    BY <2>2, <2>3, FS_Subset, FS_CardinalityType
  <2>5. posted[b] - Cardinality(Carrying(b)) > faults
    BY <1>1, <2>1, <2>4 DEF pending
  <2> QED
    BY <1>1, <2>1, <2>4, <2>5 DEF Inv, CountOK
<1>2. Inv => RetriesRecord
  BY <1>1 DEF RetriesRecord
<1> QED
  BY <1>2, TestDataInvariant, PTL

=============================================================================
