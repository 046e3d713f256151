----------------------------- MODULE Bootstrap -----------------------------
(***************************************************************************)
(* bootstrap-vcpkg.sh, which runs scripts/bootstrap.sh under sh -e: the    *)
(* executable of vcpkg-tool-metadata.txt is downloaded to vcpkg.part,      *)
(* checked and renamed to vcpkg.  Several bootstraps of one root may run,  *)
(* none of which looks for another; each may be killed.                    *)
(*                                                                         *)
(* A file is named by what it holds.  One that is being written holds the  *)
(* name of the bootstrap that opened it last: its curl truncated the file, *)
(* so the file is whole when that curl, and no earlier one, is done.       *)
(***************************************************************************)
EXTENDS FiniteSets

CONSTANT Actors    \* who runs the script: configures, and users by hand

ASSUME ActorsAssumption == Actors \cap {"none", "whole", "wrong"} = {}

Running == {"remove", "open", "fetch", "check", "chmod", "move", "version"}

VARIABLES
  exe,        \* the file vcpkg
  part,       \* the file vcpkg.part
  boot,       \* boot[a]: where a's script is
  overlapped  \* history: two bootstraps ran at the same time

bootVars == <<exe, part, boot, overlapped>>

NoFile == [data |-> "none", x |-> FALSE]
Whole(file) == file.data = "whole"
Files == [data : Actors \cup {"none", "whole", "wrong"}, x : BOOLEAN]

BootTypeOK ==
  /\ exe \in Files /\ part \in Files
  /\ boot \in [Actors -> Running \cup {"idle", "done", "failed"}]
  /\ overlapped \in BOOLEAN

BootInit ==
  /\ exe = NoFile /\ part = NoFile
  /\ boot = [a \in Actors |-> "idle"] /\ overlapped = FALSE

-----------------------------------------------------------------------------
Goto(a, step) == boot' = [boot EXCEPT ![a] = step]

\* The beginning: the root, the options, the tools that are needed, the release.
BootStart(a) ==
  /\ boot[a] \notin Running
  /\ Goto(a, "remove")
  /\ overlapped' = (overlapped \/ \E b \in Actors \ {a} : boot[b] \in Running)
  /\ UNCHANGED <<exe, part>>

\* A tool is missing, an option unknown, or the download directory missing.
Refuse(a) ==
  /\ boot[a] \notin Running
  /\ Goto(a, "failed")
  /\ UNCHANGED <<exe, part, overlapped>>

\* vcpkgDownloadFile: rm -rf vcpkg.part
RemovePart(a) ==
  /\ boot[a] = "remove" /\ Goto(a, "open")
  /\ part' = NoFile
  /\ UNCHANGED <<exe, overlapped>>

\* curl opens vcpkg.part, which may have come into being again.
Open(a) ==
  /\ boot[a] = "open" /\ Goto(a, "fetch")
  /\ part' = [part EXCEPT !.data = a]
  /\ UNCHANGED <<exe, overlapped>>

\* The file that a writes is data from now on, unless it was removed since.
Ended(a, data) ==
  LET end(file) == IF file.data = a THEN [file EXCEPT !.data = data] ELSE file
  IN exe' = end(exe) /\ part' = end(part)

\* curl is done; what it was sent may be anything.
Fetched(a) ==
  /\ boot[a] = "fetch" /\ Goto(a, "check")
  /\ \E data \in {"whole", "wrong"} : Ended(a, data)
  /\ UNCHANGED overlapped

\* curl ... || exit 1
FetchStops(a) ==
  /\ boot[a] \in {"open", "fetch"} /\ Goto(a, "failed")
  /\ Ended(a, "wrong")
  /\ UNCHANGED overlapped

\* Mutated form of Check: the hash is printed only.
CheckNot(a) ==
  /\ boot[a] = "check"
  /\ Goto(a, IF part # NoFile THEN "chmod" ELSE "failed")
  /\ UNCHANGED <<exe, part, overlapped>>

\* vcpkgCheckEqualFileHash
Check(a) ==
  /\ boot[a] = "check"
  /\ Goto(a, IF Whole(part) THEN "chmod" ELSE "failed")
  /\ UNCHANGED <<exe, part, overlapped>>

\* chmod and mv fail if somebody has removed the file since, and sh -e exits.
Chmod(a) ==
  /\ boot[a] = "chmod"
  /\ \/ part = NoFile /\ Goto(a, "failed") /\ UNCHANGED part
     \/ part # NoFile /\ Goto(a, "move") /\ part' = [part EXCEPT !.x = TRUE]
  /\ UNCHANGED <<exe, overlapped>>

Move(a) ==
  /\ boot[a] = "move"
  /\ \/ part = NoFile /\ Goto(a, "failed") /\ UNCHANGED <<exe, part>>
     \/ part # NoFile /\ Goto(a, "version") /\ exe' = part /\ part' = NoFile
  /\ UNCHANGED overlapped

Runs(file) == Whole(file) /\ file.x

\* vcpkg version, and the marker of the metrics; the system may be unable to
\* run what was downloaded.
Version(a) ==
  /\ boot[a] = "version"
  /\ Goto(a, "failed") \/ (Runs(exe) /\ Goto(a, "done"))
  /\ UNCHANGED <<exe, part, overlapped>>

\* The script and its curl are killed.
BootKilled(a) ==
  /\ Goto(a, "idle")
  /\ Ended(a, "wrong")
  /\ UNCHANGED overlapped

BootStep(a) ==
  \/ RemovePart(a) \/ Open(a) \/ Fetched(a) \/ FetchStops(a)
  \/ Check(a) \/ Chmod(a) \/ Move(a) \/ Version(a)

-----------------------------------------------------------------------------
\* Unless two bootstraps of the root ran at the same time, there is no
\* executable or one that is whole and may be run, whatever was killed or
\* failed: the toolchain bootstraps only if no executable exists, so a broken
\* one would stay.
ExecutableIsWhole == ~overlapped => exe = NoFile \/ Runs(exe)
=============================================================================
