----------------------------- MODULE Kf6Update -----------------------------
(***************************************************************************)
(* scripts/update_kf6.py: a maintainer sets NEW_VERSION and runs the       *)
(* script, which fetches the archive of each port, replaces the SHA512 in  *)
(* its portfile and then the version in its manifest.  It goes on after    *)
(* every failure and reports the worst of what happened at its end.        *)
(*                                                                         *)
(* The SHA512 of an archive is identified with the version whose archive   *)
(* it is of; the REF of every listed port is v${VERSION}.  A file that was *)
(* not written whole is cut somewhere.  The portfile and the manifest of   *)
(* every listed port exist.                                                *)
(***************************************************************************)
EXTENDS Naturals, Sequences

CONSTANTS
  KfList,      \* PORT_LIST
  KfLicensed,  \* those whose portfile downloads a license text too
  KfLatest,    \* versions are 1..KfLatest
  KfMaxRuns    \* bound on the runs of the script

\* What PORT_LIST names.
KfPorts == {KfList[i] : i \in DOMAIN KfList}
KfVersions == 1..KfLatest

ASSUME KfListAssumption == KfList \in Seq(KfPorts)
ASSUME KfBoundsAssumption == KfLatest \in Nat \ {0} /\ KfMaxRuns \in Nat

License == 0    \* the SHA512 of the license text, which is of no version

VARIABLES
  kfManifest,   \* kfManifest[p]: version in p's vcpkg.json, 0 if that is cut
  kfHashes,     \* kfHashes[p]: the SHA512s in p's portfile.cmake
  kfCommitted,  \* both, as committed last
  kfPc,         \* where the script is
  kfTarget,     \* NEW_VERSION
  kfAt,         \* the port it is at, an index of KfList
  kfStatus,     \* overall_status
  kfRuns        \* runs so far

kfTree == <<kfManifest, kfHashes>>
kfVars == <<kfTree, kfCommitted, kfPc, kfTarget, kfAt, kfStatus, kfRuns>>

\* The portfile of p with h as the SHA512 of its sources.
HashesWith(p, h) == IF p \in KfLicensed THEN <<h, License>> ELSE <<h>>

KfTypeOK ==
  /\ kfManifest \in [KfPorts -> 0..KfLatest]
  /\ \A p \in KfPorts : Len(kfHashes[p]) <= Len(HashesWith(p, 1))
  /\ kfCommitted \in [manifest : [KfPorts -> KfVersions],
                      hashes : [KfPorts -> Seq(KfVersions \cup {License})]]
  /\ kfPc \in {"idle", "fetch", "portfile", "manifest", "done", "killed"}
  /\ kfTarget \in KfVersions /\ kfAt \in 1..Len(KfList) + 1
  /\ kfStatus \in {"OK", "WARN", "ERROR"} /\ kfRuns \in 0..KfMaxRuns

KfInit ==
  /\ kfManifest = [p \in KfPorts |-> 1]
  /\ kfHashes = [p \in KfPorts |-> HashesWith(p, 1)]
  /\ kfCommitted = [manifest |-> kfManifest, hashes |-> kfHashes]
  /\ kfPc = "idle" /\ kfTarget = 1 /\ kfAt = 1 /\ kfStatus = "OK" /\ kfRuns = 0

-----------------------------------------------------------------------------
Port == KfList[kfAt]

\* update_overall_status
Worse(level) == IF "ERROR" \in {kfStatus, level} THEN "ERROR" ELSE level

\* The maintainer runs the script for a version.
KfRun(v) ==
  /\ kfPc \in {"idle", "done", "killed"} /\ kfRuns < KfMaxRuns
  /\ kfPc' = "fetch" /\ kfTarget' = v /\ kfAt' = 1 /\ kfStatus' = "OK"
  /\ kfRuns' = kfRuns + 1
  /\ UNCHANGED <<kfTree, kfCommitted>>

NextPort == kfAt' = kfAt + 1 /\ kfPc' = "fetch"

\* No REPO in the portfile: it is cut before that.
NoRepo ==
  /\ kfPc = "fetch" /\ kfAt \in DOMAIN KfList /\ kfHashes[Port] = <<>>
  /\ kfStatus' = Worse("WARN") /\ NextPort
  /\ UNCHANGED <<kfTree, kfCommitted, kfTarget, kfRuns>>

Fetch ==
  /\ kfPc = "fetch" /\ kfAt \in DOMAIN KfList
  /\ kfPc' = "portfile"
  /\ UNCHANGED <<kfTree, kfCommitted, kfTarget, kfAt, kfStatus, kfRuns>>

\* Mutated form of FetchFails: the failure is printed only.
FetchFailsQuietly ==
  /\ kfPc = "fetch" /\ kfAt \in DOMAIN KfList
  /\ kfPc' = "manifest"
  /\ UNCHANGED <<kfTree, kfCommitted, kfTarget, kfAt, kfStatus, kfRuns>>

\* An exception in fetch_sha512_from_github: the manifest comes all the same.
FetchFails ==
  /\ kfPc = "fetch" /\ kfAt \in DOMAIN KfList
  /\ kfStatus' = Worse("ERROR") /\ kfPc' = "manifest"
  /\ UNCHANGED <<kfTree, kfCommitted, kfTarget, kfAt, kfRuns>>

\* The first SHA512 of the portfile becomes the new one.
Replaced(hashes) == [hashes EXCEPT ![1] = kfTarget]

WritePortfile ==
  /\ kfPc = "portfile" /\ kfHashes[Port] # <<>>
  /\ kfHashes' = [kfHashes EXCEPT ![Port] = Replaced(@)]
  /\ kfPc' = "manifest"
  /\ UNCHANGED <<kfManifest, kfCommitted, kfTarget, kfAt, kfStatus, kfRuns>>

\* No SHA512 in the portfile: it is cut between REPO and that.
NoPattern ==
  /\ kfPc = "portfile" /\ kfHashes[Port] = <<>>
  /\ kfStatus' = Worse("WARN") /\ kfPc' = "manifest"
  /\ UNCHANGED <<kfTree, kfCommitted, kfTarget, kfAt, kfRuns>>

WriteManifest ==
  /\ kfPc = "manifest" /\ kfManifest[Port] # 0
  /\ kfManifest' = [kfManifest EXCEPT ![Port] = kfTarget]
  /\ NextPort
  /\ UNCHANGED <<kfHashes, kfCommitted, kfTarget, kfStatus, kfRuns>>

\* A write that is not completed, or not even begun.
CutPortfile ==
  /\ kfPc = "portfile" /\ kfHashes[Port] # <<>>
  /\ \/ UNCHANGED kfHashes
     \/ \E n \in 0..Len(kfHashes[Port]) :
          kfHashes' = [kfHashes EXCEPT ![Port] = SubSeq(Replaced(@), 1, n)]
  /\ UNCHANGED kfManifest

CutManifest ==
  /\ kfPc = "manifest"
  /\ \/ UNCHANGED kfManifest
     \/ kfManifest' = [kfManifest EXCEPT ![Port] = 0]
  /\ UNCHANGED kfHashes

\* The exceptions that update_port catches: a write fails, or the manifest is
\* cut and does not parse.
PortfileFails ==
  /\ CutPortfile
  /\ kfStatus' = Worse("ERROR") /\ kfPc' = "manifest"
  /\ UNCHANGED <<kfCommitted, kfTarget, kfAt, kfRuns>>

ManifestFails ==
  /\ CutManifest
  /\ kfStatus' = Worse("ERROR") /\ NextPort
  /\ UNCHANGED <<kfCommitted, kfTarget, kfRuns>>

\* "Final Result"
KfFinish ==
  /\ kfPc = "fetch" /\ kfAt \notin DOMAIN KfList
  /\ kfPc' = "done"
  /\ UNCHANGED <<kfTree, kfCommitted, kfTarget, kfAt, kfStatus, kfRuns>>

\* Ctrl-C, perhaps in the middle of a write.
KfKill ==
  /\ kfPc \in {"fetch", "portfile", "manifest"}
  /\ CutPortfile \/ CutManifest \/ UNCHANGED kfTree
  /\ kfPc' = "killed"
  /\ UNCHANGED <<kfCommitted, kfTarget, kfAt, kfStatus, kfRuns>>

\* The maintainer commits what a run without a warning has left.
KfCommit ==
  /\ kfPc = "done" /\ kfStatus = "OK"
  /\ kfCommitted' = [manifest |-> kfManifest, hashes |-> kfHashes]
  /\ kfPc' = "idle"
  /\ UNCHANGED <<kfTree, kfTarget, kfAt, kfStatus, kfRuns>>

\* Or goes back to the last commit.
KfRestore ==
  /\ kfPc \in {"done", "killed"}
  /\ kfManifest' = kfCommitted.manifest /\ kfHashes' = kfCommitted.hashes
  /\ kfPc' = "idle"
  /\ UNCHANGED <<kfCommitted, kfTarget, kfAt, kfStatus, kfRuns>>

KfNext ==
  \/ \E v \in KfVersions : KfRun(v)
  \/ NoRepo \/ Fetch \/ FetchFails
  \/ WritePortfile \/ NoPattern \/ PortfileFails
  \/ WriteManifest \/ ManifestFails
  \/ KfFinish \/ KfKill \/ KfCommit \/ KfRestore

KfSpec == KfInit /\ [][KfNext]_kfVars

-----------------------------------------------------------------------------
\* When the final result is OK, every port is at NEW_VERSION with the SHA512
\* of that version's archive, whatever earlier runs, for whatever versions,
\* had left: no failed fetch is forgotten, and no SHA512 of a license text is
\* replaced by that of an archive.
OkMeansConsistent ==
  kfPc = "done" /\ kfStatus = "OK" =>
    \A p \in KfPorts :
      /\ kfManifest[p] = kfTarget
      /\ kfHashes[p] # <<>> /\ kfHashes[p][1] = kfTarget
      /\ \A i \in DOMAIN kfHashes[p] \ {1} : kfHashes[p][i] = License
=============================================================================
