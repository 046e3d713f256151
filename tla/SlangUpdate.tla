---------------------------- MODULE SlangUpdate ----------------------------
(***************************************************************************)
(* ports/shader-slang/update_shas.py: the maintainer sets the version in   *)
(* vcpkg.json and runs the script, which downloads the file of every       *)
(* vcpkg_download_distfile block for that version, from the last block to  *)
(* the first, and writes the portfile once, at the end.                    *)
(*                                                                         *)
(* The SHA512 of a file is identified with the version the file is of: all *)
(* URLs of the portfile contain ${VERSION}.                                *)
(***************************************************************************)
EXTENDS Naturals, Sequences

CONSTANTS
  SlangBlocks,   \* vcpkg_download_distfile blocks of the portfile
  SlangLatest,   \* versions are 1..SlangLatest
  SlangMaxRuns   \* bound on the runs of the script

SlangVersions == 1..SlangLatest

ASSUME SlangAssumption ==
  SlangBlocks \in Nat /\ SlangLatest \in Nat \ {0} /\ SlangMaxRuns \in Nat

NoHash == 0    \* what a maintainer writes for a hash to be found out

VARIABLES
  sVersion,   \* the version in vcpkg.json
  sHashes,    \* the SHA512 of each block of the portfile
  sPc,        \* where the script is
  sRead,      \* the version it has read
  sNew,       \* new_content
  sTodo,      \* the blocks it has found and not updated
  sFailed,    \* the blocks it has printed an ERROR for
  sRuns       \* runs so far

sVars == <<sVersion, sHashes, sPc, sRead, sNew, sTodo, sFailed, sRuns>>

SlangTypeOK ==
  /\ sVersion \in SlangVersions /\ sRead \in SlangVersions
  /\ sHashes \in Seq({NoHash} \cup SlangVersions) /\ Len(sHashes) <= SlangBlocks
  /\ sNew \in Seq({NoHash} \cup SlangVersions)
  /\ sPc \in {"idle", "download", "written", "killed"}
  /\ sTodo \subseteq 1..SlangBlocks
  /\ sFailed \subseteq 1..SlangBlocks /\ sRuns \in 0..SlangMaxRuns

SlangInit ==
  /\ sVersion = 1 /\ sHashes = [b \in 1..SlangBlocks |-> 1]
  /\ sPc = "idle" /\ sRead = 1 /\ sNew = <<>> /\ sTodo = {}
  /\ sFailed = {} /\ sRuns = 0

-----------------------------------------------------------------------------
\* The maintainer sets the version, at any time.
SetVersion(v) ==
  /\ v # sVersion
  /\ sVersion' = v
  /\ UNCHANGED <<sHashes, sPc, sRead, sNew, sTodo, sFailed, sRuns>>

\* The maintainer writes SHA512 0 into a block, but not while the script runs.
ForgetHash(b) ==
  /\ sPc # "download" /\ sPc' = "idle" /\ b \in DOMAIN sHashes
  /\ sHashes' = [sHashes EXCEPT ![b] = NoHash]
  /\ UNCHANGED <<sVersion, sRead, sNew, sTodo, sFailed, sRuns>>

\* find_download_blocks: those with a SHA512 of 128 hexadecimal digits.
Blocks(content) == {b \in DOMAIN content : content[b] # NoHash}

\* main: the version and the portfile are read.
ReadFiles ==
  /\ sPc # "download" /\ sRuns < SlangMaxRuns
  /\ sRead' = sVersion /\ sNew' = sHashes /\ sTodo' = Blocks(sHashes)
  /\ sPc' = IF sTodo' = {} THEN "idle" ELSE "download"    \* "Nothing to update."
  /\ sFailed' = {} /\ sRuns' = sRuns + 1
  /\ UNCHANGED <<sVersion, sHashes>>

\* reversed(blocks)
Last(blocks) == CHOOSE b \in blocks : \A c \in blocks : c <= b

\* compute_sha512_from_url, with the version in place of ${VERSION}.
Download ==
  /\ sPc = "download" /\ sTodo # {}
  /\ sNew' = [sNew EXCEPT ![Last(sTodo)] = sRead]
  /\ sTodo' = sTodo \ {Last(sTodo)}
  /\ UNCHANGED <<sVersion, sHashes, sPc, sRead, sFailed, sRuns>>

\* An exception of one download: the block keeps its SHA512.
DownloadFails ==
  /\ sPc = "download" /\ sTodo # {}
  /\ sFailed' = sFailed \cup {Last(sTodo)}
  /\ sTodo' = sTodo \ {Last(sTodo)}
  /\ UNCHANGED <<sVersion, sHashes, sPc, sRead, sNew, sRuns>>

\* Mutated form of WriteBack: the first block is left out.
WriteBackEarly ==
  /\ sPc = "download" /\ sTodo \subseteq {1}
  /\ sHashes' = sNew /\ sPc' = "written"
  /\ UNCHANGED <<sVersion, sRead, sNew, sTodo, sFailed, sRuns>>

\* "[OK]", whether or not downloads have failed.
WriteBack ==
  /\ sPc = "download" /\ sTodo = {}
  /\ sHashes' = sNew /\ sPc' = "written"
  /\ UNCHANGED <<sVersion, sRead, sNew, sTodo, sFailed, sRuns>>

\* Ctrl-C, or the write fails: the portfile is as it was or cut.
SlangKill ==
  /\ sPc = "download" /\ sPc' = "killed"
  /\ \/ UNCHANGED sHashes
     \/ sTodo = {} /\ \E n \in 0..Len(sNew) : sHashes' = SubSeq(sNew, 1, n)
  /\ UNCHANGED <<sVersion, sRead, sNew, sTodo, sFailed, sRuns>>

SlangNext ==
  \/ \E v \in SlangVersions : SetVersion(v)
  \/ \E b \in 1..SlangBlocks : ForgetHash(b)
  \/ ReadFiles \/ Download \/ DownloadFails \/ WriteBack \/ SlangKill

SlangSpec == SlangInit /\ [][SlangNext]_sVars

-----------------------------------------------------------------------------
\* When the script has printed [OK], which it does after failed downloads too,
\* and the manifest still has the version it had read, every block with a hash
\* has the one of its file of that version, whatever earlier runs had left:
\* only the blocks it has printed an ERROR for may keep an outdated one.
RefreshMatchesManifest ==
  sPc = "written" /\ sRead = sVersion =>
    \A b \in Blocks(sHashes) \ sFailed : sHashes[b] = sVersion
=============================================================================
