-------------------------- MODULE PortUpdateProofs --------------------------
(***************************************************************************)
(* What the three scripts that update ports report when they end is true   *)
(* of all files, and no version pair of the SuiteSparse ports is published *)
(* for two sources: for any number of ports, versions, blocks and runs.    *)
(*                                                                         *)
(* The scripts share no file; each has an inductive invariant of its own,  *)
(* which says what the part of its loop that lies behind it has achieved.  *)
(***************************************************************************)
EXTENDS PortScripts, NaturalsInduction, WellFoundedInduction, TLAPS

-----------------------------------------------------------------------------
(***************************************************************************)
(* update_kf6.py                                                           *)
(***************************************************************************)

\* Portfiles, whole or cut: after the first SHA512 only those of license texts.
KfPortfiles ==
  {f \in [KfPorts -> Seq(Nat)] :
     \A p \in KfPorts : \A i \in DOMAIN f[p] \ {1} : f[p][i] = License}

KfShape ==
  /\ kfHashes \in KfPortfiles /\ kfManifest \in [KfPorts -> Nat]
  /\ kfCommitted \in [manifest : [KfPorts -> Nat], hashes : KfPortfiles]
  /\ kfTarget \in KfVersions /\ kfAt \in 1..Len(KfList) + 1
  /\ kfPc \in {"portfile", "manifest"} => kfAt \in DOMAIN KfList
  /\ kfPc = "done" => kfAt = Len(KfList) + 1

HashIsNew(p) == kfHashes[p] # <<>> /\ kfHashes[p][1] = kfTarget
IsUpdated(p) == kfManifest[p] = kfTarget /\ HashIsNew(p)

\* As long as the script has no failure to report, every port behind it is
\* updated, and between its two writes the portfile of the one it is at.
KfSoFar ==
  kfStatus = "OK" /\ kfPc \in {"fetch", "portfile", "manifest", "done"} =>
    /\ \A i \in 1..kfAt - 1 : IsUpdated(KfList[i])
    /\ kfPc = "manifest" => HashIsNew(Port)

KfInv == KfShape /\ KfSoFar

\* What the loop is at is one of the ports.
LEMMA PortIsPort ==
  ASSUME kfAt \in DOMAIN KfList
  PROVE  Port \in KfPorts
BY KfListAssumption DEF Port, KfPorts

\* A failure is never forgotten within a run.
LEMMA WorseIsNotOK == Worse("ERROR") # "OK" /\ Worse("WARN") # "OK"
BY DEF Worse

\* Replacing the first SHA512 keeps the others.
LEMMA ReplacedKeepsRest ==
  ASSUME NEW h \in Seq(Nat), h # <<>>, kfTarget \in Nat
  PROVE  /\ Replaced(h) \in Seq(Nat) /\ Len(Replaced(h)) = Len(h)
         /\ Replaced(h) # <<>> /\ Replaced(h)[1] = kfTarget
         /\ \A i \in DOMAIN h \ {1} : Replaced(h)[i] = h[i]
         /\ DOMAIN Replaced(h) = DOMAIN h
BY DEF Replaced

\* A write of the portfile, completed or cut, keeps its form.
LEMMA PortfileKeepsForm ==
  ASSUME KfShape, kfAt \in DOMAIN KfList, kfHashes[Port] # <<>>, kfTarget \in Nat,
         NEW n \in 0..Len(kfHashes[Port])
  PROVE  /\ [kfHashes EXCEPT ![Port] = Replaced(@)] \in KfPortfiles
         /\ [kfHashes EXCEPT ![Port] = SubSeq(Replaced(@), 1, n)] \in KfPortfiles
<1> DEFINE h == kfHashes[Port]
           r == Replaced(h)
           c == SubSeq(r, 1, n)
<1>1. Port \in KfPorts /\ h \in Seq(Nat) /\ \A i \in DOMAIN h \ {1} : h[i] = License
  BY PortIsPort DEF KfShape, KfPortfiles
<1>2. /\ r \in Seq(Nat) /\ Len(r) = Len(h) /\ DOMAIN r = DOMAIN h
      /\ \A i \in DOMAIN r \ {1} : r[i] = License
  BY <1>1, ReplacedKeepsRest
<1>3. c \in Seq(Nat) /\ \A i \in DOMAIN c \ {1} : c[i] = License
  <2> HIDE DEF r
  <2>1. n \in Nat /\ n <= Len(r) /\ DOMAIN r = 1..Len(r)
    BY <1>1, <1>2
  <2>2. c \in Seq(Nat) /\ DOMAIN c = 1..n /\ \A i \in 1..n : c[i] = r[i]
    BY <1>2, <2>1
  <2> QED
    BY <1>2, <2>1, <2>2
<1> HIDE DEF h, r, c
<1>4. /\ [kfHashes EXCEPT ![Port] = r] \in KfPortfiles
      /\ [kfHashes EXCEPT ![Port] = c] \in KfPortfiles
  BY <1>1, <1>2, <1>3 DEF KfShape, KfPortfiles
<1> QED
  BY <1>4 DEF h, r, c

\* At the start every port is at version 1.
LEMMA KfInitHasInv == KfInit => KfInv
<1> SUFFICES ASSUME KfInit PROVE KfInv
  OBVIOUS
<1>1. \A p \in KfPorts : /\ HashesWith(p, 1) \in Seq(Nat)
                         /\ \A i \in DOMAIN HashesWith(p, 1) \ {1} : HashesWith(p, 1)[i] = License
  BY DEF HashesWith, License
<1>2. kfHashes \in KfPortfiles
  BY <1>1 DEF KfInit, KfPortfiles
<1>3. 1 \in KfVersions /\ Len(KfList) \in Nat
  BY KfBoundsAssumption, KfListAssumption DEF KfVersions
<1>4. KfShape
  BY <1>2, <1>3 DEF KfInit, KfShape
<1>5. KfSoFar
  BY <1>3 DEF KfInit, KfSoFar
<1> QED
  BY <1>4, <1>5 DEF KfInv

\* A run begins with no port behind it.
LEMMA KfRunKeepsInv ==
  ASSUME KfInv, NEW v \in KfVersions, KfRun(v)
  PROVE  KfInv'
<1>1. Len(KfList) \in Nat
  BY KfListAssumption
<1>2. KfShape'
  BY <1>1 DEF KfInv, KfShape, KfRun, kfTree
<1>3. KfSoFar'
  BY DEF KfSoFar, KfRun
<1> QED
  BY <1>2, <1>3 DEF KfInv

\* A port that is skipped leaves a warning.
LEMMA NoRepoKeepsInv ==
  ASSUME KfInv, NoRepo
  PROVE  KfInv'
<1>1. Len(KfList) \in Nat /\ DOMAIN KfList = 1..Len(KfList)
  BY KfListAssumption
<1>2. KfShape'
  BY <1>1 DEF KfInv, KfShape, NoRepo, NextPort, kfTree
<1>3. kfStatus' # "OK"
  BY WorseIsNotOK DEF NoRepo
<1> QED
  BY <1>2, <1>3 DEF KfInv, KfSoFar

\* The archive is there, or it is not and the status says so.
LEMMA FetchKeepsInv ==
  ASSUME KfInv, Fetch \/ FetchFails
  PROVE  KfInv'
<1>1. KfShape'
  BY DEF KfInv, KfShape, Fetch, FetchFails, kfTree
<1>2. CASE Fetch
  BY <1>1, <1>2 DEF KfInv, KfSoFar, Fetch, kfTree, IsUpdated, HashIsNew
<1>3. CASE FetchFails
  <2>1. kfStatus' # "OK"
    BY <1>3, WorseIsNotOK DEF FetchFails
  <2> QED
    BY <1>1, <2>1 DEF KfInv, KfSoFar
<1> QED
  BY <1>2, <1>3

\* The new SHA512 is written; a port that is listed twice gets the same one.
LEMMA WritePortfileKeepsInv ==
  ASSUME KfInv, WritePortfile
  PROVE  KfInv'
<1>1. kfAt \in DOMAIN KfList /\ Port \in KfPorts /\ kfTarget \in Nat
  BY PortIsPort, KfBoundsAssumption DEF KfInv, KfShape, WritePortfile, KfVersions
<1>2. kfHashes[Port] \in Seq(Nat) /\ kfHashes[Port] # <<>>
  BY <1>1 DEF KfInv, KfShape, KfPortfiles, WritePortfile
<1>3. kfHashes' \in KfPortfiles
  <2>1. 0 \in 0..Len(kfHashes[Port])
    BY <1>2
  <2> QED
    BY <1>1, <1>2, <2>1, PortfileKeepsForm DEF WritePortfile, KfInv
<1>4. KfShape'
  BY <1>1, <1>3 DEF KfInv, KfShape, WritePortfile
<1>5. /\ kfHashes'[Port] # <<>> /\ kfHashes'[Port][1] = kfTarget
      /\ \A p \in KfPorts \ {Port} : kfHashes'[p] = kfHashes[p]
  <2>1. Replaced(kfHashes[Port]) # <<>> /\ Replaced(kfHashes[Port])[1] = kfTarget
    BY <1>1, <1>2, ReplacedKeepsRest
  <2>2. kfHashes' = [kfHashes EXCEPT ![Port] = Replaced(kfHashes[Port])]
    BY DEF WritePortfile
  <2>3. kfHashes \in [KfPorts -> Seq(Nat)]
    BY DEF KfInv, KfShape, KfPortfiles
  <2> QED
    BY <1>1, <2>1, <2>2, <2>3
<1>6. /\ kfPc = "portfile" /\ kfPc' = "manifest" /\ Port' = Port
      /\ UNCHANGED <<kfManifest, kfTarget, kfAt, kfStatus>>
  BY DEF WritePortfile, Port
<1>7. ASSUME kfStatus = "OK", NEW i \in 1..kfAt - 1
      PROVE  IsUpdated(KfList[i])'
  <2>1. IsUpdated(KfList[i])
    BY <1>6, <1>7 DEF KfInv, KfSoFar
  <2>2. KfList[i] \in KfPorts
    BY <1>1, KfListAssumption DEF KfPorts, KfInv, KfShape
  <2> QED
    BY <1>5, <1>6, <2>1, <2>2 DEF IsUpdated, HashIsNew
<1>8. KfSoFar'
  BY <1>5, <1>6, <1>7 DEF KfSoFar, HashIsNew
<1> QED
  BY <1>4, <1>8 DEF KfInv

\* A portfile without a SHA512 leaves a warning.
LEMMA NoPatternKeepsInv ==
  ASSUME KfInv, NoPattern
  PROVE  KfInv'
<1>1. KfShape'
  BY DEF KfInv, KfShape, NoPattern, kfTree
<1>2. kfStatus' # "OK"
  BY WorseIsNotOK DEF NoPattern
<1> QED
  BY <1>1, <1>2 DEF KfInv, KfSoFar

\* The port is behind the script, with both files updated.
LEMMA WriteManifestKeepsInv ==
  ASSUME KfInv, WriteManifest
  PROVE  KfInv'
<1>1. /\ kfAt \in 1..Len(KfList) /\ Len(KfList) \in Nat /\ DOMAIN KfList = 1..Len(KfList)
      /\ Port \in KfPorts /\ kfTarget \in Nat
  BY PortIsPort, KfListAssumption, KfBoundsAssumption
  DEF KfInv, KfShape, WriteManifest, KfVersions
<1>2. KfShape'
  BY <1>1 DEF KfInv, KfShape, WriteManifest, NextPort
<1>3. ASSUME kfStatus = "OK", NEW i \in 1..kfAt
      PROVE  IsUpdated(KfList[i])'
  <2>1. KfList[i] \in KfPorts
    BY <1>1, KfListAssumption DEF KfPorts
  <2>2. HashIsNew(KfList[i])
    <3>1. CASE i = kfAt
      BY <1>3, <3>1 DEF KfInv, KfSoFar, WriteManifest, Port
    <3>2. CASE i # kfAt
      BY <1>1, <1>3, <3>2 DEF KfInv, KfSoFar, WriteManifest, IsUpdated
    <3> QED
      BY <3>1, <3>2
  <2>3. kfManifest'[KfList[i]] = kfTarget
    <3>1. CASE KfList[i] = Port
      BY <1>1, <3>1 DEF WriteManifest, KfInv, KfShape
    <3>2. CASE KfList[i] # Port
      <4>1. i \in 1..kfAt - 1
        BY <1>1, <3>2 DEF Port
      <4> QED
        BY <1>3, <2>1, <3>2, <4>1 DEF KfInv, KfShape, KfSoFar, WriteManifest, IsUpdated
    <3> QED
      BY <3>1, <3>2
  <2> QED
    BY <2>2, <2>3 DEF IsUpdated, HashIsNew, WriteManifest
<1>4. KfSoFar'
  BY <1>1, <1>3 DEF KfSoFar, WriteManifest, NextPort
<1> QED
  BY <1>2, <1>4 DEF KfInv

\* What a cut write leaves is a portfile and a manifest still.
LEMMA CutKeepsForm ==
  ASSUME KfInv, CutPortfile \/ CutManifest \/ UNCHANGED kfTree
  PROVE  kfHashes' \in KfPortfiles /\ kfManifest' \in [KfPorts -> Nat]
<1>1. CASE CutPortfile
  <2>1. kfAt \in DOMAIN KfList /\ kfTarget \in Nat
    BY <1>1, KfBoundsAssumption DEF CutPortfile, KfInv, KfShape, KfVersions
  <2>2. ASSUME NEW n \in 0..Len(kfHashes[Port])
        PROVE  [kfHashes EXCEPT ![Port] = SubSeq(Replaced(@), 1, n)] \in KfPortfiles
    BY <1>1, <2>1, PortfileKeepsForm DEF CutPortfile, KfInv
  <2> QED
    BY <1>1, <2>2 DEF CutPortfile, KfInv, KfShape
<1>2. CASE CutManifest
  BY <1>2 DEF CutManifest, KfInv, KfShape
<1>3. CASE UNCHANGED kfTree
  BY <1>3 DEF kfTree, KfInv, KfShape
<1> QED
  BY <1>1, <1>2, <1>3

\* A write that fails is reported, or the script is killed.
LEMMA FailureKeepsInv ==
  ASSUME KfInv, PortfileFails \/ ManifestFails \/ KfKill
  PROVE  KfInv'
<1>1. Len(KfList) \in Nat /\ DOMAIN KfList = 1..Len(KfList)
  BY KfListAssumption
<1>2. kfHashes' \in KfPortfiles /\ kfManifest' \in [KfPorts -> Nat]
  BY CutKeepsForm DEF PortfileFails, ManifestFails, KfKill
<1>3. KfShape'
  <2>1. CASE PortfileFails
    BY <1>2, <2>1 DEF PortfileFails, CutPortfile, KfInv, KfShape
  <2>2. CASE ManifestFails
    BY <1>1, <1>2, <2>2 DEF ManifestFails, CutManifest, NextPort, KfInv, KfShape
  <2>3. CASE KfKill
    BY <1>2, <2>3 DEF KfKill, KfInv, KfShape
  <2> QED
    BY <2>1, <2>2, <2>3
<1>4. kfStatus' # "OK" \/ kfPc' = "killed"
  BY WorseIsNotOK DEF PortfileFails, ManifestFails, KfKill
<1> QED
  BY <1>3, <1>4 DEF KfInv, KfSoFar

\* The end of a run, and what the maintainer does after it.
LEMMA KfEndKeepsInv ==
  ASSUME KfInv, KfFinish \/ KfCommit \/ KfRestore
  PROVE  KfInv'
<1>1. Len(KfList) \in Nat /\ DOMAIN KfList = 1..Len(KfList)
  BY KfListAssumption
<1>2. CASE KfFinish
  <2>1. KfShape'
    BY <1>1, <1>2 DEF KfFinish, KfInv, KfShape, kfTree
  <2> QED
    BY <1>2, <2>1 DEF KfFinish, KfInv, KfSoFar, kfTree, IsUpdated, HashIsNew
<1>3. CASE KfCommit
  BY <1>3 DEF KfCommit, KfInv, KfShape, KfSoFar, kfTree
<1>4. CASE KfRestore
  BY <1>4 DEF KfRestore, KfInv, KfShape, KfSoFar
<1> QED
  BY <1>2, <1>3, <1>4

\* KfInv is inductive: one step for each action of the script.
LEMMA KfNextKeepsInv == KfInv /\ [KfNext]_kfVars => KfInv'
<1> SUFFICES ASSUME KfInv, [KfNext]_kfVars PROVE KfInv'
  OBVIOUS
<1>1. CASE KfNext
  BY <1>1, KfRunKeepsInv, NoRepoKeepsInv, FetchKeepsInv, WritePortfileKeepsInv,
     NoPatternKeepsInv, WriteManifestKeepsInv, FailureKeepsInv, KfEndKeepsInv
  DEF KfNext
<1>2. CASE UNCHANGED kfVars
  BY <1>2 DEF kfVars, kfTree, KfInv, KfShape, KfSoFar, IsUpdated, HashIsNew, Port
<1> QED
  BY <1>1, <1>2

\* What the invariant says of the end of a run.
LEMMA OKFromInv ==
  ASSUME KfInv
  PROVE  OkMeansConsistent
<1> SUFFICES ASSUME kfPc = "done", kfStatus = "OK", NEW p \in KfPorts
             PROVE  /\ kfManifest[p] = kfTarget
                    /\ kfHashes[p] # <<>> /\ kfHashes[p][1] = kfTarget
                    /\ \A i \in DOMAIN kfHashes[p] \ {1} : kfHashes[p][i] = License
  BY DEF OkMeansConsistent
<1>1. PICK i \in 1..Len(KfList) : p = KfList[i]
  BY KfListAssumption DEF KfPorts
<1>2. i \in 1..kfAt - 1
  BY <1>1, KfListAssumption DEF KfInv, KfShape
<1>3. IsUpdated(p)
  BY <1>1, <1>2 DEF KfInv, KfSoFar
<1> QED
  BY <1>3 DEF IsUpdated, HashIsNew, KfInv, KfShape, KfPortfiles

\* When update_kf6.py reports OK, every port it lists is at NEW_VERSION, with
\* the SHA512 of that version and with its license texts as they were.
THEOREM OKIsTrue == KfSpec => []OkMeansConsistent
<1>1. KfInv => OkMeansConsistent
  BY OKFromInv
<1> QED
  BY <1>1, KfInitHasInv, KfNextKeepsInv, PTL DEF KfSpec

\* Portfiles with the SHA512s of versions and license texts, and with no more of
\* them than a whole one has.
KfFitting ==
  {f \in [KfPorts -> Seq(KfVersions \cup {License})] :
     \A p \in KfPorts : Len(f[p]) <= Len(HashesWith(p, 1))}

KfTypeInv ==
  /\ KfInv /\ KfTypeOK
  /\ kfHashes \in KfFitting /\ kfCommitted.hashes \in KfFitting

\* The status is one of three.
LEMMA WorseIsStatus ==
  ASSUME NEW level \in {"WARN", "ERROR"}
  PROVE  Worse(level) \in {"OK", "WARN", "ERROR"}
BY DEF Worse

\* A portfile as it was written first has one SHA512 or two.
LEMMA WholePortfile ==
  ASSUME NEW p \in KfPorts, NEW v \in KfVersions
  PROVE  /\ HashesWith(p, v) \in Seq(KfVersions \cup {License})
         /\ Len(HashesWith(p, v)) = Len(HashesWith(p, 1)) /\ Len(HashesWith(p, 1)) \in Nat
<1> DEFINE S == KfVersions \cup {License}
<1>1. v \in S /\ License \in S
  OBVIOUS
<1> HIDE DEF S
<1>2. /\ <<v>> \in Seq(S) /\ Len(<<v>>) = 1 /\ Len(<<1>>) = 1 /\ Len(<<1, License>>) = 2
      /\ <<v, License>> \in Seq(S) /\ Len(<<v, License>>) = 2
  BY <1>1
<1>3. CASE p \in KfLicensed
  <2>1. HashesWith(p, v) = <<v, License>> /\ HashesWith(p, 1) = <<1, License>>
    BY <1>3, Zenon DEF HashesWith
  <2> QED
    BY <1>2, <2>1 DEF S
<1>4. CASE p \notin KfLicensed
  <2>1. HashesWith(p, v) = <<v>> /\ HashesWith(p, 1) = <<1>>
    BY <1>4, Zenon DEF HashesWith
  <2> QED
    BY <1>2, <2>1 DEF S
<1> QED
  BY <1>3, <1>4

\* A write of the portfile, completed or cut, does not make it longer.
LEMMA WriteFits ==
  ASSUME KfTypeInv, kfAt \in DOMAIN KfList, kfHashes[Port] # <<>>,
         NEW n \in 0..Len(kfHashes[Port])
  PROVE  /\ [kfHashes EXCEPT ![Port] = Replaced(@)] \in KfFitting
         /\ [kfHashes EXCEPT ![Port] = SubSeq(Replaced(@), 1, n)] \in KfFitting
<1> DEFINE S == KfVersions \cup {License}
           h == kfHashes[Port]
           r == Replaced(h)
           c == SubSeq(r, 1, n)
<1>1. /\ Port \in KfPorts /\ h \in Seq(S) /\ Len(h) <= Len(HashesWith(Port, 1))
      /\ kfTarget \in S /\ 1 \in KfVersions
  BY PortIsPort, KfBoundsAssumption DEF KfTypeInv, KfFitting, KfTypeOK, KfVersions
<1>2. Len(HashesWith(Port, 1)) \in Nat /\ Len(h) \in Nat
  BY <1>1, WholePortfile
<1> HIDE DEF S
<1>3. r \in Seq(S) /\ Len(r) = Len(h)
  BY <1>1 DEF Replaced
<1> HIDE DEF r
<1>4. c \in Seq(S) /\ Len(c) = n /\ n <= Len(h) /\ n \in Nat
  BY <1>2, <1>3
<1>5. Len(r) <= Len(HashesWith(Port, 1)) /\ Len(c) <= Len(HashesWith(Port, 1))
  BY <1>1, <1>2, <1>3, <1>4
<1> HIDE DEF h, c
<1>6. kfHashes \in KfFitting
  BY DEF KfTypeInv
<1>7. /\ [kfHashes EXCEPT ![Port] = r] \in KfFitting
      /\ [kfHashes EXCEPT ![Port] = c] \in KfFitting
  BY <1>1, <1>3, <1>4, <1>5, <1>6 DEF KfFitting, S
<1> QED
  BY <1>7 DEF h, r, c

\* The types at the start.
LEMMA KfInitHasTypes == KfInit => KfTypeInv
<1> SUFFICES ASSUME KfInit PROVE KfTypeInv
  OBVIOUS
<1>1. 1 \in KfVersions /\ Len(KfList) \in Nat /\ 1 \in 0..KfLatest /\ 0 \in 0..KfMaxRuns
  BY KfBoundsAssumption, KfListAssumption DEF KfVersions
<1>2. kfHashes \in KfFitting
  BY <1>1, WholePortfile DEF KfInit, KfFitting
<1>3. kfCommitted \in [manifest : [KfPorts -> KfVersions],
                       hashes : [KfPorts -> Seq(KfVersions \cup {License})]]
  BY <1>1, <1>2 DEF KfInit, KfFitting
<1>4. KfTypeOK
  BY <1>1, <1>2, <1>3 DEF KfInit, KfTypeOK, KfFitting
<1> QED
  BY <1>2, <1>4, KfInitHasInv DEF KfInit, KfTypeInv

\* The files and the commit keep their types through every write.
LEMMA KfFilesKeepTypes ==
  ASSUME KfTypeInv, KfNext
  PROVE  /\ kfHashes' \in KfFitting /\ kfCommitted'.hashes \in KfFitting
         /\ kfManifest' \in [KfPorts -> 0..KfLatest]
         /\ kfCommitted' \in [manifest : [KfPorts -> KfVersions],
                              hashes : [KfPorts -> Seq(KfVersions \cup {License})]]
<1>1. /\ kfHashes \in KfFitting /\ kfCommitted.hashes \in KfFitting
      /\ kfManifest \in [KfPorts -> 0..KfLatest]
      /\ kfCommitted \in [manifest : [KfPorts -> KfVersions],
                          hashes : [KfPorts -> Seq(KfVersions \cup {License})]]
      /\ kfTarget \in 0..KfLatest /\ 0 \in 0..KfLatest
  BY KfBoundsAssumption DEF KfTypeInv, KfTypeOK, KfVersions
<1>2. CutPortfile => kfHashes' \in KfFitting /\ UNCHANGED kfManifest
  <2>1. ASSUME CutPortfile, NEW n \in 0..Len(kfHashes[Port])
        PROVE  [kfHashes EXCEPT ![Port] = SubSeq(Replaced(@), 1, n)] \in KfFitting
    BY <2>1, WriteFits DEF CutPortfile, KfTypeInv, KfInv, KfShape
  <2> QED
    BY <1>1, <2>1 DEF CutPortfile
<1>3. CutManifest => UNCHANGED kfHashes /\ kfManifest' \in [KfPorts -> 0..KfLatest]
  BY <1>1 DEF CutManifest
<1>4. CASE KfCommit
  <2>1. \A p \in KfPorts : kfManifest[p] = kfTarget
    BY <1>4, OKFromInv DEF KfCommit, KfTypeInv, OkMeansConsistent
  <2>2. kfManifest \in [KfPorts -> KfVersions]
    BY <1>1, <2>1 DEF KfTypeInv, KfTypeOK
  <2>3. kfHashes \in [KfPorts -> Seq(KfVersions \cup {License})]
    BY <1>1 DEF KfFitting
  <2> QED
    BY <1>1, <1>4, <2>2, <2>3 DEF KfCommit, kfTree
<1>5. CASE KfRestore
  <2>1. KfVersions \subseteq 0..KfLatest
    BY KfBoundsAssumption DEF KfVersions
  <2> QED
    BY <1>1, <1>5, <2>1 DEF KfRestore
<1>6. CASE WritePortfile
  <2>1. kfAt \in DOMAIN KfList
    BY <1>6 DEF WritePortfile, KfTypeInv, KfInv, KfShape
  <2>2. 0 \in 0..Len(kfHashes[Port])
    BY <1>1, <2>1, PortIsPort DEF KfFitting
  <2> QED
    BY <1>1, <1>6, <2>1, <2>2, WriteFits DEF WritePortfile
<1>7. CASE WriteManifest
  BY <1>1, <1>7 DEF WriteManifest
<1>8. CASE PortfileFails \/ ManifestFails \/ KfKill
  BY <1>1, <1>2, <1>3, <1>8 DEF PortfileFails, ManifestFails, KfKill, kfTree
<1>9. CASE (\E v \in KfVersions : KfRun(v)) \/ NoRepo \/ Fetch \/ FetchFails \/ NoPattern \/ KfFinish
  BY <1>1, <1>9 DEF KfRun, NoRepo, Fetch, FetchFails, NoPattern, KfFinish, kfTree
<1> QED
  BY <1>4, <1>5, <1>6, <1>7, <1>8, <1>9 DEF KfNext

\* The other variables keep theirs.
LEMMA KfScriptKeepsTypes ==
  ASSUME KfTypeInv, KfNext
  PROVE  /\ kfPc' \in {"idle", "fetch", "portfile", "manifest", "done", "killed"}
         /\ kfStatus' \in {"OK", "WARN", "ERROR"} /\ kfRuns' \in 0..KfMaxRuns
<1>1. /\ kfPc \in {"idle", "fetch", "portfile", "manifest", "done", "killed"}
      /\ kfStatus \in {"OK", "WARN", "ERROR"} /\ kfRuns \in 0..KfMaxRuns
      /\ KfMaxRuns \in Nat
  BY KfBoundsAssumption DEF KfTypeInv, KfTypeOK
<1>2. CASE \E v \in KfVersions : KfRun(v)
  BY <1>1, <1>2 DEF KfRun
<1>3. CASE NoRepo \/ FetchFails \/ NoPattern \/ PortfileFails \/ ManifestFails
  BY <1>1, <1>3, WorseIsStatus
  DEF NoRepo, FetchFails, NoPattern, PortfileFails, ManifestFails, NextPort
<1>4. CASE Fetch \/ WritePortfile \/ WriteManifest \/ KfFinish \/ KfKill \/ KfCommit \/ KfRestore
  BY <1>1, <1>4
  DEF Fetch, WritePortfile, WriteManifest, KfFinish, KfKill, KfCommit, KfRestore, NextPort
<1> QED
  BY <1>2, <1>3, <1>4 DEF KfNext

\* KfTypeInv is inductive.
LEMMA KfNextKeepsTypes == KfTypeInv /\ [KfNext]_kfVars => KfTypeInv'
<1> SUFFICES ASSUME KfTypeInv, [KfNext]_kfVars PROVE KfTypeInv'
  OBVIOUS
<1>1. KfInv'
  BY KfNextKeepsInv DEF KfTypeInv
<1>2. CASE KfNext
  <2>1. kfTarget' \in KfVersions /\ kfAt' \in 1..Len(KfList) + 1
    BY <1>1 DEF KfInv, KfShape
  <2>2. \A p \in KfPorts : Len(kfHashes'[p]) <= Len(HashesWith(p, 1))
    BY <1>2, KfFilesKeepTypes DEF KfFitting
  <2>3. KfTypeOK'
    BY <1>2, <2>1, <2>2, KfFilesKeepTypes, KfScriptKeepsTypes DEF KfTypeOK, HashesWith
  <2> QED
    BY <1>1, <1>2, <2>3, KfFilesKeepTypes DEF KfTypeInv, KfFitting, HashesWith
<1>3. CASE UNCHANGED kfVars
  BY <1>1, <1>3 DEF kfVars, kfTree, KfTypeInv, KfTypeOK, KfFitting, HashesWith
<1> QED
  BY <1>2, <1>3

\* The types of the state of update_kf6.py: whatever was cut, a portfile never
\* has more SHA512s than at first, and only whole manifests are committed.
THEOREM KfTypeIsInvariant == KfSpec => []KfTypeOK
<1>1. KfTypeInv => KfTypeOK
  BY DEF KfTypeInv
<1> QED
  BY <1>1, KfInitHasTypes, KfNextKeepsTypes, PTL DEF KfSpec

-----------------------------------------------------------------------------
(***************************************************************************)
(* update_shas.py                                                          *)
(***************************************************************************)

SlangShape ==
  /\ sVersion \in SlangVersions /\ sRead \in SlangVersions
  /\ sHashes \in Seq(Nat) /\ sNew \in Seq(Nat)

\* The blocks behind the script have the SHA512 of the version it read, but for
\* those whose download failed; and it writes no other portfile than this.
SlangSoFar ==
  /\ sPc = "download" =>
       \A b \in Blocks(sNew) \ (sTodo \cup sFailed) : sNew[b] = sRead
  /\ sPc = "written" =>
       \A b \in Blocks(sHashes) \ sFailed : sHashes[b] = sRead

SlangInv == SlangShape /\ SlangSoFar

\* At the start the script has not run.
LEMMA SlangInitHasInv == SlangInit => SlangInv
<1> SUFFICES ASSUME SlangInit PROVE SlangInv
  OBVIOUS
<1>1. [b \in 1..SlangBlocks |-> 1] \in Seq(Nat)
  BY SlangAssumption
<1> QED
  BY <1>1, SlangAssumption DEF SlangInit, SlangInv, SlangShape, SlangSoFar, SlangVersions

\* What the maintainer does, at any time or between runs.
LEMMA MaintainerKeepsInv ==
  ASSUME SlangInv, (\E v \in SlangVersions : SetVersion(v)) \/ \E b \in 1..SlangBlocks : ForgetHash(b)
  PROVE  SlangInv'
<1>1. CASE \E v \in SlangVersions : SetVersion(v)
  BY <1>1 DEF SetVersion, SlangInv, SlangShape, SlangSoFar, Blocks
<1>2. ASSUME NEW b \in 1..SlangBlocks, ForgetHash(b) PROVE SlangInv'
  <2>1. sHashes' \in Seq(Nat)
    BY <1>2 DEF ForgetHash, SlangInv, SlangShape, NoHash
  <2> QED
    BY <1>2, <2>1 DEF ForgetHash, SlangInv, SlangShape, SlangSoFar
<1> QED
  BY <1>1, <1>2

\* A run begins with all its blocks ahead of it.
LEMMA ReadFilesKeepsInv ==
  ASSUME SlangInv, ReadFiles
  PROVE  SlangInv'
<1>1. SlangShape'
  BY DEF ReadFiles, SlangInv, SlangShape
<1>2. Blocks(sNew)' \ (sTodo' \cup sFailed') = {} /\ sPc' # "written"
  BY DEF ReadFiles, Blocks
<1>3. SlangSoFar'
  BY <1>2 DEF SlangSoFar
<1> QED
  BY <1>1, <1>3 DEF SlangInv

\* One block more is behind the script.
LEMMA DownloadKeepsInv ==
  ASSUME SlangInv, Download \/ DownloadFails
  PROVE  SlangInv'
<1>1. CASE Download
  <2> DEFINE l == Last(sTodo)
  <2>1. sRead \in Nat
    BY SlangAssumption DEF SlangInv, SlangShape, SlangVersions
  <2>2. sNew' = [sNew EXCEPT ![l] = sRead] /\ sTodo' = sTodo \ {l}
    BY <1>1 DEF Download
  <2> HIDE DEF l
  <2>3. sNew' \in Seq(Nat) /\ DOMAIN sNew' = DOMAIN sNew
    <3>1. sNew \in Seq(Nat) /\ Len(sNew) \in Nat /\ DOMAIN sNew = 1..Len(sNew)
      BY DEF SlangInv, SlangShape
    <3>2. sNew \in [1..Len(sNew) -> Nat]
      BY <3>1
    <3>3. sNew' \in [1..Len(sNew) -> Nat]
      BY <2>1, <2>2, <3>2
    <3> QED
      BY <3>1, <3>3
  <2>4. SlangShape'
    BY <1>1, <2>3 DEF Download, SlangInv, SlangShape
  <2>5. ASSUME NEW b \in Blocks(sNew)' \ (sTodo' \cup sFailed') PROVE sNew'[b] = sRead
    <3>1. CASE b = l
      BY <2>2, <2>3, <2>5, <3>1 DEF Blocks, SlangInv, SlangShape
    <3>2. CASE b # l
      <4>1. sNew'[b] = sNew[b] /\ b \in Blocks(sNew) \ (sTodo \cup sFailed)
        BY <1>1, <2>2, <2>3, <2>5, <3>2 DEF Download, Blocks, SlangInv, SlangShape
      <4> QED
        BY <1>1, <2>5, <4>1 DEF Download, SlangInv, SlangSoFar
    <3> QED
      BY <3>1, <3>2
  <2>6. SlangSoFar'
    BY <1>1, <2>5 DEF SlangSoFar, Download, Blocks
  <2> QED
    BY <2>4, <2>6 DEF SlangInv
<1>2. CASE DownloadFails
  BY <1>2 DEF DownloadFails, SlangInv, SlangShape, SlangSoFar
<1> QED
  BY <1>1, <1>2

\* The portfile is written when no block is ahead, or cut by a kill.
LEMMA WriteBackKeepsInv ==
  ASSUME SlangInv, WriteBack \/ SlangKill
  PROVE  SlangInv'
<1>1. CASE WriteBack
  BY <1>1 DEF WriteBack, SlangInv, SlangShape, SlangSoFar, Blocks
<1>2. CASE SlangKill
  <2>1. \A n \in 0..Len(sNew) : SubSeq(sNew, 1, n) \in Seq(Nat)
    BY DEF SlangInv, SlangShape
  <2> QED
    BY <1>2, <2>1 DEF SlangKill, SlangInv, SlangShape, SlangSoFar
<1> QED
  BY <1>1, <1>2

\* SlangInv is inductive: one step for each action of the script.
LEMMA SlangNextKeepsInv == SlangInv /\ [SlangNext]_sVars => SlangInv'
<1> SUFFICES ASSUME SlangInv, [SlangNext]_sVars PROVE SlangInv'
  OBVIOUS
<1>1. CASE SlangNext
  BY <1>1, MaintainerKeepsInv, ReadFilesKeepsInv, DownloadKeepsInv, WriteBackKeepsInv
  DEF SlangNext
<1>2. CASE UNCHANGED sVars
  BY <1>2 DEF sVars, SlangInv, SlangShape, SlangSoFar, Blocks
<1> QED
  BY <1>1, <1>2

\* When update_shas.py has written the portfile and the version is still the one
\* it read, every block with a SHA512 that it printed no ERROR for has the one
\* of that version.
THEOREM RefreshIsTrue == SlangSpec => []RefreshMatchesManifest
<1>1. SlangInv => RefreshMatchesManifest
  BY DEF SlangInv, SlangSoFar, RefreshMatchesManifest
<1> QED
  BY <1>1, SlangInitHasInv, SlangNextKeepsInv, PTL DEF SlangSpec

\* The blocks of both texts of the portfile, and those ahead of the script.
SlangTypeInv ==
  /\ SlangInv /\ SlangTypeOK
  /\ Len(sNew) <= SlangBlocks /\ sTodo \subseteq DOMAIN sNew

\* The last of the blocks ahead is one of them.
LEMMA LastIsNext ==
  ASSUME NEW n \in Nat, NEW blocks \in SUBSET (1..n), blocks # {}
  PROVE  Last(blocks) \in blocks
<1> DEFINE after == {n - b : b \in blocks}
<1>1. after \subseteq Nat /\ after # {}
  <2>1. \A b \in blocks : n - b \in Nat
    OBVIOUS
  <2> QED
    BY <2>1, Zenon
<1>2. \A x, y \in Nat : x < y => <<x, y>> \in OpToRel(<, Nat)
  BY DEF OpToRel
<1> HIDE DEF after
<1>3. PICK t \in after : \A y \in after : <<y, t>> \notin OpToRel(<, Nat)
  BY <1>1, NatLessThanWellFounded, WFMin
<1>4. \A y \in after : ~(y < t)
  BY <1>1, <1>2, <1>3
<1>5. PICK b \in blocks : t = n - b
  BY DEF after
<1>6. ASSUME NEW c \in blocks PROVE c <= b
  <2>1. ~(n - c < n - b)
    BY <1>4, <1>5 DEF after
  <2> QED
    BY <2>1
<1> QED
  BY <1>6 DEF Last

\* The types at the start.
LEMMA SlangInitHasTypes == SlangInit => SlangTypeInv
<1> SUFFICES ASSUME SlangInit PROVE SlangTypeInv
  OBVIOUS
<1> DEFINE S == {NoHash} \cup SlangVersions
<1>1. 1 \in SlangVersions /\ 0 \in 0..SlangMaxRuns /\ SlangBlocks \in Nat
  BY SlangAssumption DEF SlangVersions
<1>2. <<>> \in Seq(S) /\ Len(<<>>) = 0
  OBVIOUS
<1>3. sHashes \in Seq(S) /\ Len(sHashes) = SlangBlocks
  <2>1. sHashes \in [1..SlangBlocks -> S]
    BY <1>1 DEF SlangInit
  <2> HIDE DEF S
  <2> QED
    BY <1>1, <2>1
<1>4. SlangTypeOK
  <2>1. sNew \in Seq(S) /\ Len(sHashes) <= SlangBlocks /\ sTodo \subseteq 1..SlangBlocks
    BY <1>1, <1>2, <1>3 DEF SlangInit
  <2> QED
    BY <1>1, <1>3, <2>1 DEF SlangInit, SlangTypeOK
<1> QED
  BY <1>1, <1>2, <1>4, SlangInitHasInv DEF SlangInit, SlangTypeInv

\* SlangTypeInv is inductive.
LEMMA SlangNextKeepsTypes == SlangTypeInv /\ [SlangNext]_sVars => SlangTypeInv'
<1> SUFFICES ASSUME SlangTypeInv, [SlangNext]_sVars PROVE SlangTypeInv'
  OBVIOUS
<1> DEFINE S == {NoHash} \cup SlangVersions
<1>1. SlangInv'
  BY SlangNextKeepsInv DEF SlangTypeInv
<1>2. /\ sVersion \in SlangVersions /\ sRead \in SlangVersions
      /\ sHashes \in Seq(S) /\ Len(sHashes) <= SlangBlocks /\ Len(sHashes) \in Nat
      /\ sNew \in Seq(S) /\ Len(sNew) <= SlangBlocks /\ Len(sNew) \in Nat
      /\ sPc \in {"idle", "download", "written", "killed"}
      /\ sTodo \subseteq 1..SlangBlocks /\ sTodo \subseteq DOMAIN sNew
      /\ sFailed \subseteq 1..SlangBlocks /\ sRuns \in 0..SlangMaxRuns
      /\ SlangBlocks \in Nat /\ SlangMaxRuns \in Nat
  BY SlangAssumption DEF SlangTypeInv, SlangTypeOK
<1>3. sVersion' \in SlangVersions /\ sRead' \in SlangVersions
  BY <1>1 DEF SlangInv, SlangShape
<1>4. NoHash \in S /\ SlangVersions \subseteq S
  OBVIOUS
<1> HIDE DEF S
<1>5. /\ sHashes' \in Seq(S) /\ Len(sHashes') <= SlangBlocks
      /\ sNew' \in Seq(S) /\ Len(sNew') <= SlangBlocks
      /\ sTodo' \subseteq DOMAIN sNew'
  <2>1. CASE \E v \in SlangVersions : SetVersion(v)
    BY <1>2, <2>1 DEF SetVersion
  <2>2. CASE \E b \in 1..SlangBlocks : ForgetHash(b)
    <3>1. PICK b \in DOMAIN sHashes : sHashes' = [sHashes EXCEPT ![b] = NoHash]
      BY <2>2 DEF ForgetHash
    <3>2. sHashes' \in Seq(S) /\ Len(sHashes') = Len(sHashes)
      BY <1>2, <1>4, <3>1
    <3> QED
      BY <1>2, <2>2, <3>2 DEF ForgetHash
  <2>3. CASE ReadFiles
    BY <1>2, <2>3 DEF ReadFiles, Blocks
  <2>4. CASE Download
    <3>1. Last(sTodo) \in sTodo
      BY <1>2, <2>4, LastIsNext DEF Download
    <3>2. PICK b \in DOMAIN sNew : b = Last(sTodo)
      BY <1>2, <3>1
    <3>3. sNew' = [sNew EXCEPT ![b] = sRead] /\ sRead \in S
      BY <1>2, <1>4, <2>4, <3>2 DEF Download
    <3>4. sNew' \in Seq(S) /\ Len(sNew') = Len(sNew) /\ DOMAIN sNew' = DOMAIN sNew
      BY <1>2, <3>3
    <3> QED
      BY <1>2, <2>4, <3>4 DEF Download
  <2>5. CASE DownloadFails
    BY <1>2, <2>5 DEF DownloadFails
  <2>6. CASE WriteBack
    BY <1>2, <2>6 DEF WriteBack
  <2>7. CASE SlangKill
    <3>1. \A n \in 0..Len(sNew) : SubSeq(sNew, 1, n) \in Seq(S) /\ Len(SubSeq(sNew, 1, n)) <= SlangBlocks
      BY <1>2
    <3> QED
      BY <1>2, <2>7, <3>1 DEF SlangKill
  <2>8. CASE UNCHANGED sVars
    BY <1>2, <2>8 DEF sVars
  <2> QED
    BY <2>1, <2>2, <2>3, <2>4, <2>5, <2>6, <2>7, <2>8 DEF SlangNext
<1>6. /\ sPc' \in {"idle", "download", "written", "killed"}
      /\ sFailed' \subseteq 1..SlangBlocks /\ sRuns' \in 0..SlangMaxRuns
  <2>1. CASE ReadFiles
    <3>1. sRuns' \in 0..SlangMaxRuns
      <4>1. sRuns < SlangMaxRuns /\ sRuns' = sRuns + 1 /\ sRuns \in 0..SlangMaxRuns
        BY <1>2, <2>1, Zenon DEF ReadFiles
      <4> QED
        BY <1>2, <4>1
    <3>2. sFailed' = {}
      BY <2>1, Zenon DEF ReadFiles
    <3>3. sPc' \in {"idle", "download"}
      BY <2>1, Zenon DEF ReadFiles
    <3> QED
      BY <3>1, <3>2, <3>3
  <2>2. CASE (\E v \in SlangVersions : SetVersion(v)) \/ \E b \in 1..SlangBlocks : ForgetHash(b)
    BY <1>2, <2>2 DEF SetVersion, ForgetHash
  <2>3. CASE Download \/ DownloadFails \/ WriteBack \/ SlangKill
    <3>1. CASE DownloadFails
      <4>1. Last(sTodo) \in 1..SlangBlocks
        BY <1>2, <3>1, LastIsNext DEF DownloadFails
      <4> QED
        BY <1>2, <3>1, <4>1, Zenon DEF DownloadFails
    <3>2. CASE Download \/ WriteBack \/ SlangKill
      BY <1>2, <3>2 DEF Download, WriteBack, SlangKill
    <3> QED
      BY <2>3, <3>1, <3>2
  <2>4. CASE UNCHANGED sVars
    BY <1>2, <2>4 DEF sVars
  <2> QED
    BY <2>1, <2>2, <2>3, <2>4 DEF SlangNext
<1>7. sTodo' \subseteq 1..SlangBlocks
  BY <1>2, <1>5
<1> QED
  BY <1>1, <1>3, <1>5, <1>6, <1>7 DEF SlangTypeInv, SlangTypeOK, S

\* The types of the state of update_shas.py: what is written back has no more
\* blocks than the portfile.
THEOREM SlangTypeIsInvariant == SlangSpec => []SlangTypeOK
<1>1. SlangTypeInv => SlangTypeOK
  BY DEF SlangTypeInv
<1> QED
  BY <1>1, SlangInitHasTypes, SlangNextKeepsTypes, PTL DEF SlangSpec

-----------------------------------------------------------------------------
(***************************************************************************)
(* update_suitesparse.py                                                   *)
(***************************************************************************)

\* What the run has done so far, whatever the runs before it have left.
SuiteSoFar ==
  /\ committed.manifest[Umbrella].version \in Releases
  /\ pc = "update" =>
       /\ \A l \in Libs \ todo :
            /\ manifest[l] # Torn /\ manifest[l].version = Version[release, l]
            /\ portfile[l] = SourceOf(release, l)
       /\ current # Umbrella =>
            /\ current \in todo /\ manifest[current] # Torn
            /\ manifest[current].version = Version[release, current]
  /\ DoneIsConsistent

SuiteInv == TypeOK /\ SuiteSoFar

\* What a portfile of a release stands for, and the manifest of a port in it.
LEMMA SuiteTypes ==
  /\ \A r \in Releases : r \in Nat
  /\ \A r \in Releases, l \in Libs :
       /\ Version[r, l] \in Nat /\ SourceOf(r, l) \in Nat
       /\ VersionOf(r, l) = Version[r, l] /\ l # Umbrella
  /\ \A r \in Releases : VersionOf(r, Umbrella) = r
  /\ \A m \in Manifests : m # Torn
  /\ \A n \in Nat : n # Torn
<1>1. \A r \in Releases : r \in Nat
  BY BoundsAssumption DEF Releases
<1>2. \A r \in Releases, l \in Libs : Version[r, l] \in Nat
  BY VersionAssumption
<1> QED
  BY <1>1, <1>2, NamesAssumption, TornAssumption DEF SourceOf, VersionOf, Manifests

\* An update of a manifest gives one of the version asked for.
LEMMA BumpedIsManifest ==
  ASSUME NEW m \in Manifests, NEW v \in Nat
  PROVE  Bumped(m, v) \in Manifests /\ Bumped(m, v).version = v
BY DEF Bumped, Manifests

\* At the start all ports are at the first release.
LEMMA SuiteInitHasInv == Init => SuiteInv
<1> SUFFICES ASSUME Init PROVE SuiteInv
  OBVIOUS
<1>1. 1 \in Releases
  BY BoundsAssumption DEF Releases
<1>2. manifest \in [Ports -> Manifests] /\ portfile \in [Libs -> Nat]
  BY <1>1, SuiteTypes DEF Init, Ports, Manifests
<1>3. published \subseteq [lib : Libs, manifest : Manifests, source : Nat]
  BY <1>2 DEF Init, Publications, Ports
<1>4. TypeOK
  <2>1. committed \in [manifest : [Ports -> Manifests], portfile : [Libs -> Nat]]
    BY <1>2 DEF Init
  <2>2. manifest \in [Ports -> Manifests \cup {Torn}] /\ portfile \in [Libs -> Nat \cup {Torn}]
    BY <1>2
  <2>3. runs \in 0..MaxRuns /\ Umbrella \in Ports
    BY BoundsAssumption DEF Init, Ports
  <2> QED
    BY <1>1, <1>3, <2>1, <2>2, <2>3 DEF Init, TypeOK
<1>5. manifest[Umbrella].version = 1
  BY DEF Init, Ports, VersionOf
<1> QED
  BY <1>1, <1>4, <1>5 DEF Init, SuiteInv, SuiteSoFar, DoneIsConsistent

\* A run starts on whatever files there are.
LEMMA RunKeepsInv ==
  ASSUME SuiteInv, NEW r \in Releases, Run(r)
  PROVE  SuiteInv'
<1>1. TypeOK'
  BY BoundsAssumption DEF Run, SuiteInv, TypeOK, tree, past, Ports
<1> QED
  BY <1>1 DEF Run, SuiteInv, SuiteSoFar, DoneIsConsistent, tree, past

\* update_manifest for a library.
LEMMA ManifestKeepsInv ==
  ASSUME SuiteInv, NEW l \in Libs, Manifest(l)
  PROVE  SuiteInv'
<1> DEFINE b == Bumped(manifest[l], Version[release, l])
<1>1. release \in Releases /\ manifest[l] \in Manifests /\ l # Umbrella /\ l \in Ports
  BY SuiteTypes DEF Manifest, SuiteInv, TypeOK, Ports
<1>2. b \in Manifests /\ b.version = Version[release, l] /\ b # Torn
  BY <1>1, SuiteTypes, BumpedIsManifest
<1>3. manifest' = [manifest EXCEPT ![l] = b]
  BY DEF Manifest
<1> HIDE DEF b
<1>4. manifest' \in [Ports -> Manifests \cup {Torn}]
  BY <1>2, <1>3 DEF SuiteInv, TypeOK
<1>5. TypeOK'
  BY <1>1, <1>4 DEF Manifest, SuiteInv, TypeOK, past
<1>6. manifest'[l] = b /\ \A k \in Ports \ {l} : manifest'[k] = manifest[k]
  BY <1>1, <1>3 DEF SuiteInv, TypeOK
<1>7. SuiteSoFar'
  BY <1>1, <1>2, <1>6 DEF Manifest, SuiteInv, SuiteSoFar, DoneIsConsistent, Ports, past
<1> QED
  BY <1>5, <1>7 DEF SuiteInv

\* update_portfile for a library.
LEMMA PortfileKeepsInv ==
  ASSUME SuiteInv, NEW l \in Libs, Portfile(l)
  PROVE  SuiteInv'
<1>1. release \in Releases /\ SourceOf(release, l) \in Nat /\ l # Umbrella
  BY SuiteTypes DEF SuiteInv, TypeOK
<1>2. portfile' \in [Libs -> Nat \cup {Torn}]
  BY <1>1 DEF Portfile, SuiteInv, TypeOK
<1>3. TypeOK'
  BY <1>2 DEF Portfile, SuiteInv, TypeOK, past, Ports
<1>4. portfile'[l] = SourceOf(release, l)
        /\ \A k \in Libs \ {l} : portfile'[k] = portfile[k]
  BY DEF Portfile, SuiteInv, TypeOK
<1>5. \A k \in Libs \ todo' :
        /\ manifest[k] # Torn /\ manifest[k].version = Version[release, k]
        /\ portfile'[k] = SourceOf(release, k)
  BY <1>1, <1>4 DEF Portfile, SuiteInv, SuiteSoFar
<1>6. SuiteSoFar'
  BY <1>5 DEF Portfile, SuiteInv, SuiteSoFar, DoneIsConsistent, past, SourceOf
<1> QED
  BY <1>3, <1>6 DEF SuiteInv

\* The end of a run: the manifest of suitesparse, and all others are done.
LEMMA FinishKeepsInv ==
  ASSUME SuiteInv, Finish
  PROVE  SuiteInv'
<1> DEFINE b == Bumped(manifest[Umbrella], release)
<1>1. release \in Releases /\ release \in Nat /\ manifest[Umbrella] \in Manifests
  BY SuiteTypes DEF Finish, SuiteInv, TypeOK, Ports
<1>2. b \in Manifests /\ b.version = release /\ b # Torn
  BY <1>1, SuiteTypes, BumpedIsManifest
<1>3. manifest' = [manifest EXCEPT ![Umbrella] = b]
  BY DEF Finish
<1> HIDE DEF b
<1>4. manifest' \in [Ports -> Manifests \cup {Torn}]
  BY <1>2, <1>3 DEF SuiteInv, TypeOK
<1>5. TypeOK'
  BY <1>4 DEF Finish, SuiteInv, TypeOK, past
<1>6. manifest'[Umbrella] = b /\ \A l \in Libs : manifest'[l] = manifest[l]
  BY <1>3, SuiteTypes, NamesAssumption DEF SuiteInv, TypeOK, Ports
<1>7. \A l \in Libs :
        /\ manifest[l] # Torn /\ manifest[l].version = Version[release, l]
        /\ portfile[l] = SourceOf(release, l)
  BY DEF Finish, SuiteInv, SuiteSoFar
<1>8. \A p \in Ports : manifest'[p] # Torn /\ manifest'[p].version = VersionOf(release, p)
  <2>1. manifest'[Umbrella].version = VersionOf(release, Umbrella) /\ manifest'[Umbrella] # Torn
    BY <1>1, <1>2, <1>6, SuiteTypes
  <2>2. ASSUME NEW l \in Libs
        PROVE  manifest'[l] # Torn /\ manifest'[l].version = VersionOf(release, l)
    BY <1>1, <1>6, <1>7, <2>2, SuiteTypes
  <2> QED
    BY <2>1, <2>2 DEF Ports
<1>9. DoneIsConsistent'
  BY <1>7, <1>8 DEF Finish, DoneIsConsistent, SourceOf, VersionOf
<1> QED
  BY <1>5, <1>9 DEF Finish, SuiteInv, SuiteSoFar, past

\* A run that ends otherwise leaves its files to the next run.
LEMMA SuiteFailureKeepsInv ==
  ASSUME SuiteInv, Raise \/ Kill
  PROVE  SuiteInv'
<1>1. CASE Raise
  BY <1>1 DEF Raise, SuiteInv, TypeOK, SuiteSoFar, DoneIsConsistent, tree, past
<1>2. CASE Kill
  <2>1. manifest' \in [Ports -> Manifests \cup {Torn}]
        /\ portfile' \in [Libs -> Nat \cup {Torn}]
    BY <1>2 DEF Kill, SuiteInv, TypeOK, tree
  <2>2. TypeOK'
    BY <1>2, <2>1 DEF Kill, SuiteInv, TypeOK, past
  <2> QED
    BY <1>2, <2>2 DEF Kill, SuiteInv, SuiteSoFar, DoneIsConsistent, past
<1> QED
  BY <1>1, <1>2

\* What is committed has a version in every manifest and a REF in every portfile.
LEMMA CommitKeepsInv ==
  ASSUME SuiteInv, Commit
  PROVE  SuiteInv'
<1>1. release \in Releases /\ Umbrella \in Ports
  BY DEF SuiteInv, TypeOK, Ports
<1>2. manifest \in [Ports -> Manifests]
  BY DEF Commit, SuiteInv, SuiteSoFar, DoneIsConsistent, TypeOK
<1>3. portfile \in [Libs -> Nat]
  <2>1. \A l \in Libs : portfile[l] = SourceOf(release, l)
    BY DEF Commit, SuiteInv, SuiteSoFar, DoneIsConsistent
  <2>2. \A l \in Libs : portfile[l] \in Nat
    BY <1>1, <2>1, SuiteTypes
  <2> QED
    BY <2>2 DEF SuiteInv, TypeOK
<1>4. Publications(manifest, portfile) \subseteq [lib : Libs, manifest : Manifests, source : Nat]
  BY <1>2, <1>3 DEF Publications, Ports
<1>5. TypeOK'
  BY <1>2, <1>3, <1>4 DEF Commit, SuiteInv, TypeOK, tree
<1>6. committed'.manifest[Umbrella].version = release
  BY <1>1, SuiteTypes DEF Commit, SuiteInv, SuiteSoFar, DoneIsConsistent
<1> QED
  BY <1>1, <1>5, <1>6 DEF Commit, SuiteInv, SuiteSoFar, DoneIsConsistent, tree

\* The way back to the last commit.
LEMMA RestoreKeepsInv ==
  ASSUME SuiteInv, Restore
  PROVE  SuiteInv'
<1>1. TypeOK'
  BY DEF Restore, SuiteInv, SuiteSoFar, TypeOK, past
<1> QED
  BY <1>1 DEF Restore, SuiteInv, SuiteSoFar, DoneIsConsistent, past

\* SuiteInv is inductive: one step for each action of the script.
LEMMA SuiteNextKeepsInv == SuiteInv /\ [Next]_vars => SuiteInv'
<1> SUFFICES ASSUME SuiteInv, [Next]_vars PROVE SuiteInv'
  OBVIOUS
<1>1. CASE Next
  BY <1>1, RunKeepsInv, ManifestKeepsInv, PortfileKeepsInv, FinishKeepsInv,
     SuiteFailureKeepsInv, CommitKeepsInv, RestoreKeepsInv
  DEF Next
<1>2. CASE UNCHANGED vars
  BY <1>2 DEF vars, tree, past, script, SuiteInv, TypeOK, SuiteSoFar, DoneIsConsistent
<1> QED
  BY <1>1, <1>2

\* The types of the state of update_suitesparse.py.
THEOREM SuiteTypeIsInvariant == Spec => []TypeOK
<1>1. SuiteInv => TypeOK
  BY DEF SuiteInv
<1> QED
  BY <1>1, SuiteInitHasInv, SuiteNextKeepsInv, PTL DEF Spec

\* "Done!" of update_suitesparse.py is true of every port, whatever the runs
\* before it have left half done.
THEOREM DoneIsTrue == Spec => []DoneIsConsistent
<1>1. SuiteInv => DoneIsConsistent
  BY DEF SuiteInv, SuiteSoFar
<1> QED
  BY <1>1, SuiteInitHasInv, SuiteNextKeepsInv, PTL DEF Spec

-----------------------------------------------------------------------------
(***************************************************************************)
(* The pairs of version and port-version of a port only grow: every run    *)
(* leaves a greater one than the last commit, or none that can be read.    *)
(***************************************************************************)

\* The order of version and port-version.
Before(m, n) == m.version < n.version \/ (m.version = n.version /\ m.port < n.port)

NotAfter(m, n) == m = n \/ Before(m, n)

\* The release of the last commit.
Base == committed.manifest[Umbrella].version

\* The libraries whose manifest the script has written.
IsWritten(l) == pc = "done" \/ (pc = "update" /\ (l \notin todo \/ l = current))

\* Port l since its last commit.
LibGrows(l) ==
  /\ committed.manifest[l].version = Version[Base, l]
  /\ manifest[l] # Torn =>
       /\ NotAfter(committed.manifest[l], manifest[l])
       /\ manifest[l].version <= Version[release, l]
  /\ IsWritten(l) => manifest[l] # Torn /\ Before(committed.manifest[l], manifest[l])

PairsGrow ==
  ~wentBack =>
    /\ Base <= release
    /\ \A l \in Libs : LibGrows(l)
    /\ \A x \in published : NotAfter(x.manifest, committed.manifest[x.lib])

GrowInv == SuiteInv /\ PairsGrow /\ PairsAreUnique

\* The order in which the manifests of a port follow each other.
LEMMA BeforeIsOrder ==
  ASSUME NEW k \in Manifests, NEW m \in Manifests, NEW n \in Manifests
  PROVE  /\ ~Before(m, m)
         /\ NotAfter(k, m) /\ Before(m, n) => Before(k, n)
         /\ NotAfter(k, m) /\ NotAfter(m, n) => NotAfter(k, n)
BY DEF Before, NotAfter, Manifests

\* An update to a version that is not older gives a greater pair.
LEMMA BumpedIsAfter ==
  ASSUME NEW m \in Manifests, NEW v \in Nat, m.version <= v
  PROVE  Before(m, Bumped(m, v))
BY DEF Before, Bumped, Manifests

\* The order of versions.
LEMMA AtMostIsOrder ==
  /\ \A n \in Nat : n <= n
  /\ \A k, m, n \in Nat : k <= m /\ m <= n => k <= n
OBVIOUS

\* Versions of a library do not decrease from release to release.
LEMMA VersionsGrow ==
  ASSUME NEW r \in Releases, NEW s \in Releases, NEW l \in Libs, r <= s
  PROVE  Version[r, l] <= Version[s, l]
BY VersionAssumption

\* At the start nothing is published but what is in the files.
LEMMA GrowInitHasInv == Init => GrowInv
<1> SUFFICES ASSUME Init PROVE GrowInv
  OBVIOUS
<1>1. SuiteInv
  BY SuiteInitHasInv
<1>2. 1 \in Releases /\ Base = 1 /\ release = 1
  <2>1. 1 \in Releases
    BY BoundsAssumption DEF Releases
  <2>2. committed.manifest = manifest /\ manifest[Umbrella].version = 1 /\ release = 1
    BY DEF Init, Ports, VersionOf
  <2> QED
    BY <2>1, <2>2 DEF Base
<1>3. \A l \in Libs : committed.manifest[l] = manifest[l] /\ manifest[l].version = Version[1, l]
  BY <1>2, SuiteTypes DEF Init, Ports
<1>4. ASSUME NEW l \in Libs PROVE LibGrows(l)
  <2>1. ~IsWritten(l) /\ NotAfter(committed.manifest[l], manifest[l])
    BY <1>3 DEF Init, IsWritten, NotAfter
  <2>2. manifest[l].version <= Version[release, l]
    BY <1>2, <1>3, SuiteTypes, AtMostIsOrder
  <2> QED
    BY <1>2, <1>3, <2>1, <2>2 DEF LibGrows
<1>5. \A x \in published : NotAfter(x.manifest, committed.manifest[x.lib])
  BY DEF Init, Publications, NotAfter
<1>6. PairsAreUnique
  BY DEF Init, Publications, PairsAreUnique
<1> QED
  BY <1>1, <1>2, <1>4, <1>5, <1>6 DEF GrowInv, PairsGrow

\* A run for a release that is not older than the last one.
LEMMA RunKeepsGrowth ==
  ASSUME GrowInv, NEW r \in Releases, Run(r)
  PROVE  PairsGrow' /\ PairsAreUnique'
<1> SUFFICES ASSUME ~wentBack'
             PROVE  PairsGrow' /\ PairsAreUnique'
  BY DEF PairsGrow, PairsAreUnique
<1>1. ~wentBack /\ release <= r /\ release \in Releases
  <2>1. ~wentBack /\ ~(r < release)
    BY DEF Run
  <2>2. release \in Releases /\ release \in Nat /\ r \in Nat
    BY SuiteTypes DEF GrowInv, SuiteInv, TypeOK
  <2> QED
    BY <2>1, <2>2
<1>2. Base \in Releases /\ release \in Nat /\ r \in Nat
  BY <1>1, SuiteTypes DEF GrowInv, SuiteInv, SuiteSoFar, Base
<1>3. Base' <= release'
  <2>1. Base <= release /\ Base \in Nat
    BY <1>1, <1>2, SuiteTypes DEF GrowInv, PairsGrow
  <2>2. Base' = Base /\ release' = r
    BY DEF Run, Base, past
  <2> QED
    BY <1>1, <1>2, <2>1, <2>2
<1>4. ASSUME NEW l \in Libs PROVE LibGrows(l)'
  <2>1. LibGrows(l) /\ Version[release, l] <= Version[r, l]
    BY <1>1, VersionsGrow DEF GrowInv, PairsGrow
  <2>2. manifest[l] \in Manifests \cup {Torn} /\ Version[release, l] \in Nat /\ Version[r, l] \in Nat
    BY <1>1, SuiteTypes DEF GrowInv, SuiteInv, TypeOK, Ports
  <2>3. ASSUME manifest[l] # Torn PROVE manifest[l].version <= Version[r, l]
    <3>1. manifest[l].version \in Nat
      BY <2>2, <2>3 DEF Manifests
    <3>2. manifest[l].version <= Version[release, l]
      BY <2>1, <2>3 DEF LibGrows
    <3> QED
      BY <2>1, <2>2, <3>1, <3>2, AtMostIsOrder
  <2>4. ~IsWritten(l)'
    BY SuiteTypes DEF Run, IsWritten
  <2> QED
    BY <2>1, <2>3, <2>4 DEF Run, LibGrows, Base, tree, past
<1> QED
  BY <1>1, <1>3, <1>4 DEF Run, GrowInv, PairsGrow, PairsAreUnique, past

\* The manifest of a library is written.
LEMMA ManifestKeepsGrowth ==
  ASSUME GrowInv, NEW l \in Libs, Manifest(l)
  PROVE  PairsGrow' /\ PairsAreUnique'
<1> SUFFICES ASSUME ~wentBack
             PROVE  PairsGrow' /\ PairsAreUnique'
  BY DEF PairsGrow, PairsAreUnique, Manifest
<1> DEFINE b == Bumped(manifest[l], Version[release, l])
<1>1. release \in Releases /\ Version[release, l] \in Nat /\ l \in Ports
        /\ manifest[l] \in Manifests /\ manifest[l] # Torn /\ committed.manifest[l] \in Manifests
  BY SuiteTypes DEF Manifest, GrowInv, SuiteInv, TypeOK, Ports
<1>2. LibGrows(l)
  BY DEF GrowInv, PairsGrow
<1>3. b \in Manifests /\ b.version = Version[release, l] /\ b # Torn
  BY <1>1, SuiteTypes, BumpedIsManifest
<1>4. Before(manifest[l], b)
  BY <1>1, <1>2, BumpedIsAfter DEF LibGrows
<1>5. Before(committed.manifest[l], b)
  BY <1>1, <1>2, <1>3, <1>4, BeforeIsOrder DEF LibGrows
<1>6. manifest' = [manifest EXCEPT ![l] = b]
  BY DEF Manifest
<1> HIDE DEF b
<1>7. manifest'[l] = b /\ \A k \in Libs \ {l} : manifest'[k] = manifest[k]
  BY <1>1, <1>6 DEF GrowInv, SuiteInv, TypeOK, Ports
<1>8. LibGrows(l)'
  <2>1. committed' = committed /\ release' = release /\ Base' = Base
    BY DEF Manifest, Base, past
  <2>2. b.version <= Version[release, l]
    BY <1>1, <1>3, AtMostIsOrder
  <2> QED
    BY <1>2, <1>3, <1>5, <1>7, <2>1, <2>2 DEF LibGrows, NotAfter
<1>9. ASSUME NEW k \in Libs \ {l} PROVE LibGrows(k)'
  <2>1. LibGrows(k) /\ (IsWritten(k)' => IsWritten(k))
    BY <1>9 DEF GrowInv, PairsGrow, Manifest, IsWritten
  <2> QED
    BY <1>7, <2>1 DEF Manifest, LibGrows, Base, past
<1> QED
  BY <1>8, <1>9 DEF Manifest, GrowInv, PairsGrow, PairsAreUnique, Base, past

\* The script goes on or ends: no manifest of a library changes but to none.
LEMMA ScriptKeepsGrowth ==
  ASSUME GrowInv, (\E l \in Libs : Portfile(l)) \/ Finish \/ Raise \/ Kill
  PROVE  PairsGrow' /\ PairsAreUnique'
<1>1. UNCHANGED <<past, release, wentBack>>
  BY DEF Portfile, Finish, Raise, Kill
<1> SUFFICES ASSUME ~wentBack
             PROVE  PairsGrow' /\ PairsAreUnique'
  BY <1>1 DEF PairsGrow, PairsAreUnique
<1>2. ASSUME NEW l \in Libs
      PROVE  /\ manifest'[l] = manifest[l] \/ manifest'[l] = Torn
             /\ IsWritten(l)' => IsWritten(l) /\ manifest'[l] = manifest[l]
  <2>1. l # Umbrella /\ l \in Ports
    BY NamesAssumption DEF Ports
  <2>2. CASE \E k \in Libs : Portfile(k)
    BY <2>1, <2>2 DEF Portfile, IsWritten
  <2>3. CASE Finish
    BY <2>1, <2>3 DEF Finish, IsWritten, GrowInv, SuiteInv, TypeOK
  <2>4. CASE Raise
    BY <2>4 DEF Raise, IsWritten, tree
  <2>5. CASE Kill
    BY <2>1, <2>5 DEF Kill, IsWritten, GrowInv, SuiteInv, TypeOK, tree
  <2> QED
    BY <2>2, <2>3, <2>4, <2>5
<1>3. ASSUME NEW l \in Libs PROVE LibGrows(l)'
  <2>1. LibGrows(l)
    BY DEF GrowInv, PairsGrow
  <2> QED
    BY <1>1, <1>2, <2>1 DEF LibGrows, Base, past
<1> QED
  BY <1>1, <1>3 DEF GrowInv, PairsGrow, PairsAreUnique, Base, past

\* What is committed is greater than all that was published before.
LEMMA CommitKeepsGrowth ==
  ASSUME GrowInv, Commit
  PROVE  PairsGrow' /\ PairsAreUnique'
<1> SUFFICES ASSUME ~wentBack
             PROVE  PairsGrow' /\ PairsAreUnique'
  BY DEF PairsGrow, PairsAreUnique, Commit
<1> DEFINE new == Publications(manifest, portfile)
<1>1. release \in Releases /\ release \in Nat /\ Base' = release
  BY SuiteTypes
  DEF Commit, GrowInv, SuiteInv, SuiteSoFar, TypeOK, DoneIsConsistent, Base, Ports
<1>2. ASSUME NEW l \in Libs
      PROVE  /\ manifest[l] \in Manifests /\ committed.manifest[l] \in Manifests
             /\ manifest[l].version = Version[release, l]
             /\ Before(committed.manifest[l], manifest[l])
  <2>1. manifest[l] # Torn /\ manifest[l].version = VersionOf(release, l)
    BY DEF Commit, GrowInv, SuiteInv, SuiteSoFar, DoneIsConsistent, Ports
  <2>2. Before(committed.manifest[l], manifest[l])
    BY DEF Commit, GrowInv, PairsGrow, LibGrows, IsWritten
  <2> QED
    BY <1>1, <2>1, <2>2, SuiteTypes DEF GrowInv, SuiteInv, TypeOK, Ports
<1>3. ASSUME NEW x \in published
      PROVE  /\ x.lib \in Libs /\ x.manifest \in Manifests
             /\ Before(x.manifest, manifest[x.lib])
  <2>1. x.lib \in Libs /\ x.manifest \in Manifests
    BY DEF GrowInv, SuiteInv, TypeOK
  <2>2. NotAfter(x.manifest, committed.manifest[x.lib])
    BY DEF GrowInv, PairsGrow
  <2> QED
    BY <1>2, <2>1, <2>2, BeforeIsOrder
<1>4. \A x \in new : x.lib \in Libs /\ x.manifest = manifest[x.lib] /\ x.source = portfile[x.lib]
  BY DEF Publications
<1>5. ASSUME NEW x \in published', NEW y \in published',
             x.lib = y.lib, x.manifest = y.manifest
      PROVE  x.source = y.source
  <2>1. \A z \in published : z.manifest # manifest[z.lib]
    BY <1>2, <1>3, BeforeIsOrder
  <2>2. published' = published \cup new
    BY DEF Commit
  <2> HIDE DEF new
  <2>3. CASE x \in published /\ y \in published
    BY <1>5, <2>3 DEF GrowInv, PairsAreUnique
  <2>4. CASE x \in new /\ y \in new
    BY <1>4, <1>5, <2>4
  <2>5. CASE (x \in published /\ y \in new) \/ (x \in new /\ y \in published)
    BY <1>4, <1>5, <2>1, <2>5
  <2> QED
    BY <2>2, <2>3, <2>4, <2>5
<1>6. ASSUME NEW l \in Libs PROVE LibGrows(l)'
  <2>1. committed'.manifest = manifest /\ manifest' = manifest /\ release' = release
    BY DEF Commit, tree
  <2>2. ~IsWritten(l)'
    BY DEF Commit, IsWritten
  <2>3. manifest[l].version <= Version[release, l]
    BY <1>1, <1>2, SuiteTypes, AtMostIsOrder
  <2> QED
    BY <1>1, <1>2, <2>1, <2>2, <2>3 DEF LibGrows, NotAfter
<1>7. \A x \in published' : NotAfter(x.manifest, committed'.manifest[x.lib])
  BY <1>3, <1>4 DEF Commit, NotAfter
<1> QED
  BY <1>1, <1>5, <1>6, <1>7 DEF Commit, PairsGrow, PairsAreUnique

\* The way back to the last commit is the way back to its release.
LEMMA RestoreKeepsGrowth ==
  ASSUME GrowInv, Restore
  PROVE  PairsGrow' /\ PairsAreUnique'
<1> SUFFICES ASSUME ~wentBack
             PROVE  PairsGrow' /\ PairsAreUnique'
  BY DEF PairsGrow, PairsAreUnique, Restore
<1>1. Base \in Releases /\ Base \in Nat /\ Base' = Base /\ release' = Base
  BY SuiteTypes DEF Restore, GrowInv, SuiteInv, SuiteSoFar, Base, past
<1>2. ASSUME NEW l \in Libs PROVE LibGrows(l)'
  <2>1. committed.manifest[l].version = Version[Base, l] /\ Version[Base, l] \in Nat
    BY <1>1, SuiteTypes DEF GrowInv, PairsGrow, LibGrows
  <2>2. committed' = committed /\ manifest'[l] = committed.manifest[l] /\ ~IsWritten(l)'
    BY DEF Restore, past, IsWritten
  <2>3. committed.manifest[l].version <= Version[Base, l]
    BY <2>1, AtMostIsOrder
  <2> QED
    BY <1>1, <2>1, <2>2, <2>3 DEF LibGrows, NotAfter
<1> QED
  BY <1>1, <1>2 DEF Restore, GrowInv, PairsGrow, PairsAreUnique, past

\* GrowInv is inductive: one step for each action of the script.
LEMMA GrowNextKeepsInv == GrowInv /\ [Next]_vars => GrowInv'
<1> SUFFICES ASSUME GrowInv, [Next]_vars PROVE GrowInv'
  OBVIOUS
<1>1. SuiteInv'
  BY SuiteNextKeepsInv DEF GrowInv
<1>2. CASE Next
  BY <1>1, <1>2, RunKeepsGrowth, ManifestKeepsGrowth, ScriptKeepsGrowth,
     CommitKeepsGrowth, RestoreKeepsGrowth
  DEF Next, GrowInv
<1>3. CASE UNCHANGED vars
  BY <1>1, <1>3 DEF vars, tree, past, script, GrowInv, PairsGrow, PairsAreUnique,
     LibGrows, IsWritten, Base
<1> QED
  BY <1>2, <1>3

\* A port at a version and port-version that is published is the same sources
\* for everyone, however the runs of update_suitesparse.py went.
THEOREM NoPairIsReused == Spec => []PairsAreUnique
<1>1. GrowInv => PairsAreUnique
  BY DEF GrowInv
<1> QED
  BY <1>1, GrowInitHasInv, GrowNextKeepsInv, PTL DEF Spec

-----------------------------------------------------------------------------
(***************************************************************************)
(* The scripts side by side.                                               *)
(***************************************************************************)

\* A step of the composition is one script's, the other two stand still: what is
\* proved of each script alone so holds where they are side by side.
LEMMA ScriptsAreIndependent == ScriptsSpec => Spec /\ KfSpec /\ SlangSpec
<1>1. ScriptsInit => Init /\ KfInit /\ SlangInit
  BY DEF ScriptsInit
<1>2. [ScriptsNext]_scriptsVars => [Next]_vars /\ [KfNext]_kfVars /\ [SlangNext]_sVars
  BY Zenon DEF ScriptsNext, scriptsVars
<1> QED
  BY <1>1, <1>2, PTL DEF ScriptsSpec, Spec, KfSpec, SlangSpec

\* The types of the state of all three scripts.
THEOREM ScriptTypesAreInvariant == ScriptsSpec => []TypesOK
<1>1. TypeOK /\ KfTypeOK /\ SlangTypeOK => TypesOK
  BY DEF TypesOK
<1> QED
  BY <1>1, ScriptsAreIndependent, SuiteTypeIsInvariant, KfTypeIsInvariant,
     SlangTypeIsInvariant, PTL
=============================================================================
