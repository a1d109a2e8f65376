------------------------------ MODULE K8sNames ------------------------------
(* Names of the Kubernetes objects of one benchmark (job_names.go).  A name is *)
(* a sequence of characters: "-" is the dash, Bad stands for every character   *)
(* the sanitizer replaces, any other character is kept.  UnreservedJobName is  *)
(* a mutant of jobName.                                                        *)
EXTENDS Integers, Sequences, SequencesExt

CONSTANTS maxK8sNameLength,  \* 63 in the code
          specSuffix, modelRefSuffix, netpolSuffix

Bad  == "_"
Dash == "-"
X    == <<"x">>
App  == <<"e", "v">>   \* "evalhub"

ASSUME NamesAssumption ==
  /\ maxK8sNameLength \in Nat
  /\ \A s \in {specSuffix, modelRefSuffix, netpolSuffix} :
       /\ s \in Seq(STRING) /\ Len(s) > 1 /\ Len(s) + 1 < maxK8sNameLength
       /\ s[1] = Dash /\ s[Len(s)] # Dash /\ \A i \in DOMAIN s : s[i] # Bad

IsNotDash(c) == c # Dash
Trim(s) ==
  LET kept == {i \in DOMAIN s : IsNotDash(s[i])}
      first == CHOOSE i \in kept : \A j \in kept : i <= j
      last  == CHOOSE i \in kept : \A j \in kept : i >= j
  IN  IF kept = {} THEN <<>> ELSE SubSeq(s, first, last)

OrX(s) == IF s = <<>> THEN X ELSE s
Shorter(a, b) == IF a < b THEN a ELSE b
AtLeast1(n) == IF n < 1 THEN 1 ELSE n
Cut(s, n) == SubSeq(s, 1, Shorter(Len(s), n))

(* A run of replaced characters becomes one dash; dashes at the ends go.       *)
sanitizeDNS1123Label(s) ==
  LET kept  == {i \in DOMAIN s : s[i] = Bad /\ i > 1 => s[i - 1] # Bad}
      at(n) == CHOOSE i \in kept : Cardinality({j \in kept : j <= i}) = n
  IN  OrX(Trim([n \in 1..Cardinality(kept) |-> IF s[at(n)] = Bad THEN Dash ELSE s[at(n)]]))

(* The job id is cut first and the execution id is kept; `reserve` bytes stay  *)
(* free for the longest suffix that shares the base.                           *)
buildK8sNameWithReserve(jobID, guid, suffix, reserveBytes) ==
  LET reserve == IF reserveBytes < Len(suffix) THEN Len(suffix) ELSE reserveBytes
      id    == sanitizeDNS1123Label(jobID)
      g     == sanitizeDNS1123Label(guid)
      room  == AtLeast1(maxK8sNameLength - reserve - Len(g) - 1)
      base0 == (IF Len(id) > room THEN OrX(Trim(Cut(id, room))) ELSE id) \o <<Dash>> \o g
      most  == AtLeast1(maxK8sNameLength - reserve)
      base  == IF Len(base0) > most THEN OrX(Trim(Cut(base0, most))) ELSE base0
      again == OrX(Trim(Cut(base, AtLeast1(maxK8sNameLength - Len(suffix))))) \o suffix
  IN  IF Len(base \o suffix) <= maxK8sNameLength THEN base \o suffix
      ELSE IF Len(again) <= maxK8sNameLength THEN again
      ELSE Trim(Cut(again, maxK8sNameLength))

buildK8sName(jobID, guid, suffix) == buildK8sNameWithReserve(jobID, guid, suffix, Len(suffix))
netpolName(guid) == buildK8sName(App, guid, netpolSuffix)
UnreservedJobName(jobID, guid) == buildK8sName(jobID, guid, <<>>)
jobName(jobID, guid) == buildK8sNameWithReserve(jobID, guid, <<>>, Len(specSuffix))
configMapName(jobID, guid) == buildK8sNameWithReserve(jobID, guid, specSuffix, Len(specSuffix))

(* RFC 1123: what the API server accepts as a name.                            *)
IsDNSLabel(s) == /\ Len(s) \in 1..maxK8sNameLength
                 /\ IsNotDash(s[1]) /\ IsNotDash(s[Len(s)])
                 /\ \A i \in DOMAIN s : s[i] # Bad
=============================================================================
