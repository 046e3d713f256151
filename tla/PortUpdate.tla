----------------------------- MODULE PortUpdate -----------------------------
(***************************************************************************)
(* scripts/update_suitesparse.py: a maintainer updates the SuiteSparse     *)
(* ports to a release.  The script rewrites two files of each port, one    *)
(* after the other; it may raise an exception or be killed between any two *)
(* writes, and is then run again on what it left, until the maintainer     *)
(* commits the ports and so publishes their versions.                      *)
(*                                                                         *)
(* A REF and the SHA512 that goes with it are written by one step and are  *)
(* identified with the release they belong to.                             *)
(***************************************************************************)
EXTENDS Naturals

CONSTANTS
  MaxRelease,  \* releases are 1..MaxRelease
  Libs,        \* libraries of the releases, each a port
  GraphBLAS,   \* the one with an archive of its own
  Umbrella,    \* the port suitesparse, which has no sources
  Version,     \* Version[r, l]: the version of l in release r
  Torn,        \* a half-written file
  MaxRuns      \* bound on the runs of the script

Releases == 1..MaxRelease
Ports == Libs \cup {Umbrella}

ASSUME BoundsAssumption == MaxRelease \in Nat \ {0} /\ MaxRuns \in Nat
ASSUME NamesAssumption == GraphBLAS \in Libs /\ Umbrella \notin Libs
ASSUME VersionAssumption ==
  /\ Version \in [Releases \X Libs -> Nat]
  /\ \A l \in Libs, r, s \in Releases : r <= s => Version[r, l] <= Version[s, l]

ASSUME TornAssumption == Torn \notin [version : Nat, port : Nat] \cup Nat

VersionOf(r, p) == IF p = Umbrella THEN r ELSE Version[r, p]

\* What the REF and SHA512 of a portfile stand for.
SourceOf(r, l) == IF l = GraphBLAS THEN Version[r, l] ELSE r

VARIABLES
  manifest,   \* manifest[p]: version-semver and port-version of p's vcpkg.json
  portfile,   \* portfile[l]: REF and SHA512 of l's portfile.cmake
  committed,  \* both, as committed last
  published,  \* history: all that was committed so far
  pc,         \* where the script is
  release,    \* the release it was called for
  todo,       \* the libraries it has not updated
  current,    \* the one whose portfile comes next, Umbrella if none
  wentBack,   \* history: a release older than the one before was asked for
  runs        \* runs so far

tree == <<manifest, portfile>>
past == <<committed, published>>
script == <<pc, release, todo, current>>
vars == <<tree, past, script, wentBack, runs>>

Manifests == [version : Nat, port : Nat]

TypeOK ==
  /\ manifest \in [Ports -> Manifests \cup {Torn}]
  /\ portfile \in [Libs -> Nat \cup {Torn}]
  /\ committed \in [manifest : [Ports -> Manifests], portfile : [Libs -> Nat]]
  /\ published \subseteq [lib : Libs, manifest : Manifests, source : Nat]
  /\ pc \in {"idle", "update", "done", "failed", "killed"}
  /\ release \in Releases /\ todo \subseteq Libs /\ current \in Ports
  /\ wentBack \in BOOLEAN /\ runs \in 0..MaxRuns

Publications(m, f) == {[lib |-> l, manifest |-> m[l], source |-> f[l]] : l \in Libs}

\* The ports are at the first release, some with a port-version.
Init ==
  /\ manifest = [p \in Ports |->
       [version |-> VersionOf(1, p), port |-> IF p = GraphBLAS THEN 1 ELSE 0]]
  /\ portfile = [l \in Libs |-> SourceOf(1, l)]
  /\ committed = [manifest |-> manifest, portfile |-> portfile]
  /\ published = Publications(manifest, portfile)
  /\ pc = "idle" /\ release = 1 /\ todo = {} /\ current = Umbrella
  /\ wentBack = FALSE /\ runs = 0

-----------------------------------------------------------------------------
\* main: the archive is downloaded and the versions are read from it.
Run(r) ==
  /\ pc # "update" /\ runs < MaxRuns
  /\ pc' = "update" /\ release' = r /\ todo' = Libs /\ current' = Umbrella
  /\ wentBack' = (wentBack \/ r < release)
  /\ runs' = runs + 1
  /\ UNCHANGED <<tree, past>>

\* Mutated form of Bumped: a port that is at the version already is done.
BumpedOnce(m, v) == IF m.version = v THEN m ELSE [version |-> v, port |-> 0]

\* update_manifest; no port-version counts as 0.
Bumped(m, v) ==
  IF m.version = v THEN [version |-> v, port |-> m.port + 1]
                   ELSE [version |-> v, port |-> 0]

\* Mutated form of Manifest: port-version is dropped, not counted.
ManifestRaw(l) ==
  /\ pc = "update" /\ current = Umbrella /\ l \in todo /\ manifest[l] # Torn
  /\ manifest' = [manifest EXCEPT ![l] = [version |-> Version[release, l]]]
  /\ current' = l
  /\ UNCHANGED <<portfile, past, pc, release, todo, wentBack, runs>>

\* update_port begins with the manifest.
Manifest(l) ==
  /\ pc = "update" /\ current = Umbrella /\ l \in todo /\ manifest[l] # Torn
  /\ manifest' = [manifest EXCEPT ![l] = Bumped(@, Version[release, l])]
  /\ current' = l
  /\ UNCHANGED <<portfile, past, pc, release, todo, wentBack, runs>>

\* Mutated form of Portfile: a port whose version is unchanged keeps its REF.
PortfileIfNew(l) ==
  /\ pc = "update" /\ current = l /\ l \in Libs /\ portfile[l] # Torn
  /\ portfile' = IF manifest[l].port = 0
                 THEN [portfile EXCEPT ![l] = SourceOf(release, l)] ELSE portfile
  /\ todo' = todo \ {l} /\ current' = Umbrella
  /\ UNCHANGED <<manifest, past, pc, release, wentBack, runs>>

\* update_portfile, after the download of GraphBLAS if it is that port's turn.
Portfile(l) ==
  /\ pc = "update" /\ current = l /\ l \in Libs /\ portfile[l] # Torn
  /\ portfile' = [portfile EXCEPT ![l] = SourceOf(release, l)]
  /\ todo' = todo \ {l} /\ current' = Umbrella
  /\ UNCHANGED <<manifest, past, pc, release, wentBack, runs>>

\* The manifest of suitesparse comes last; "Done!".
Finish ==
  /\ pc = "update" /\ current = Umbrella /\ todo = {} /\ manifest[Umbrella] # Torn
  /\ manifest' = [manifest EXCEPT ![Umbrella] = Bumped(@, release)]
  /\ pc' = "done"
  /\ UNCHANGED <<portfile, past, release, todo, current, wentBack, runs>>

\* An exception: no such port, a file that does not parse, a download that
\* fails, a portfile without exactly one REF and one SHA512.
Raise ==
  /\ pc = "update"
  /\ pc' = "failed"
  /\ UNCHANGED <<tree, past, release, todo, current, wentBack, runs>>

\* Ctrl-C, perhaps in the middle of a write.
Kill ==
  /\ pc = "update"
  /\ pc' = "killed"
  /\ \/ UNCHANGED tree
     \/ /\ current = Umbrella
        /\ \E p \in IF todo = {} THEN {Umbrella} ELSE todo :
             manifest' = [manifest EXCEPT ![p] = Torn]
        /\ UNCHANGED portfile
     \/ /\ current # Umbrella
        /\ portfile' = [portfile EXCEPT ![current] = Torn]
        /\ UNCHANGED manifest
  /\ UNCHANGED <<past, release, todo, current, wentBack, runs>>

\* The maintainer commits the ports after the script said "Done!".
Commit ==
  /\ pc = "done"
  /\ committed' = [manifest |-> manifest, portfile |-> portfile]
  /\ published' = published \cup Publications(manifest, portfile)
  /\ pc' = "idle"
  /\ UNCHANGED <<tree, release, todo, current, wentBack, runs>>

\* Or goes back to the last commit.
Restore ==
  /\ pc \in {"failed", "killed"}
  /\ manifest' = committed.manifest /\ portfile' = committed.portfile
  /\ release' = committed.manifest[Umbrella].version
  /\ pc' = "idle"
  /\ UNCHANGED <<past, todo, current, wentBack, runs>>

Next ==
  \/ \E r \in Releases : Run(r)
  \/ \E l \in Libs : Manifest(l) \/ Portfile(l)
  \/ Finish \/ Raise \/ Kill \/ Commit \/ Restore

Spec == Init /\ [][Next]_vars

-----------------------------------------------------------------------------
\* When the script says "Done!", every port is at the release, whatever earlier
\* runs, for whatever releases, had left half done: the version of its library
\* in the manifest, and the REF and SHA512 of that version in the portfile.
DoneIsConsistent ==
  pc = "done" =>
    /\ \A p \in Ports : manifest[p] # Torn /\ manifest[p].version = VersionOf(release, p)
    /\ \A l \in Libs : portfile[l] = SourceOf(release, l)

\* No pair of version and port-version is published for two different sources
\* of a port, however often the script failed and was run again in between, as
\* long as no older release is asked for after a newer one.
PairsAreUnique ==
  ~wentBack =>
    \A x, y \in published :
      x.lib = y.lib /\ x.manifest = y.manifest => x.source = y.source
=============================================================================
