------------------------------ MODULE FromGit ------------------------------
(***************************************************************************)
(* vcpkg_from_git (scripts/cmake/vcpkg_from_git.cmake): how a port build   *)
(* gets the sources of a commit through a git directory and an archive     *)
(* cache that live in DOWNLOADS and are shared by every port, every vcpkg  *)
(* run and, when roots share a downloads directory, several vcpkg          *)
(* processes at once.  A build is one call of the function.                *)
(***************************************************************************)
EXTENDS Naturals

CONSTANTS
  Builds,   \* calls of vcpkg_from_git
  Ports,
  Commits,  \* commits of the remote repositories, by full SHA
  Branches, \* names a repository can move: branches and tags
  Shorts,   \* abbreviated SHAs
  Expand,   \* Expand[s]: the commit that s abbreviates
  History,  \* History[c]: the commits reachable from c
  Absent,   \* an argument, file or value that is not there
  Shared,   \* the directory DOWNLOADS/git-tmp
  Offered   \* the arguments and settings the builds may have

Refs == Commits \cup Branches \cup Shorts
Options == [port : Ports, ref : Refs \cup {Absent},
            fetchRef : Branches \cup {Absent}, headRef : Branches \cup {Absent},
            useHead : BOOLEAN, noDownloads : BOOLEAN]

ASSUME NamesAssumption ==
  /\ Commits \cap (Branches \cup Shorts) = {}
  /\ Absent \notin Refs /\ Shared \notin Builds
ASSUME HistoryAssumption ==
  /\ Expand \in [Shorts -> Commits]
  /\ History \in [Commits -> SUBSET Commits]
  /\ \A c \in Commits : c \in History[c]
ASSUME OfferedAssumption == Offered \subseteq Options

VARIABLES
  tip,        \* tip[n]: the commit that branch or tag n is at on its server
  opt,        \* opt[b]: the arguments and settings of b
  pc,         \* pc[b]: where b is
  objects,    \* objects[d]: the commits in git directory d
  fetchHead,  \* fetchHead[d]: FETCH_HEAD of d
  temp,       \* DOWNLOADS/temp/PORT-REF.tar.gz
  archive,    \* DOWNLOADS/PORT-REF.tar.gz
  renamed,    \* renamed[b]: the file b writes was renamed under it
  rev,        \* rev[b]: rev_parse_ref
  version,    \* version[b]: the VCPKG_HEAD_VERSION b sets
  source,     \* source[b]: the commit whose files b hands to the port
  exclusive   \* TRUE if one vcpkg root, so one lock, covers all builds

remote == <<tip, opt, exclusive>>
git == <<objects, fetchHead>>
files == <<temp, archive, renamed>>
results == <<rev, version, source>>
vars == <<remote, pc, git, files, results>>

\* PORT-<sanitized_ref>, the name of both archives.
Keys == Ports \X Refs
Contents == [commit : Commits \cup {Absent}, whole : BOOLEAN]
None == [commit |-> Absent, whole |-> FALSE]

Dirs == Builds \cup {Shared}
Running == {"check", "fetch", "revParse", "open", "write", "rename", "extract"}
Failures == {"badArguments", "downloadsDisabled", "fetchFailed", "refInaccessible",
             "refMismatch", "archiveFailed", "renameFailed", "extractFailed", "killed"}

TypeOK ==
  /\ tip \in [Branches -> Commits]
  /\ opt \in [Builds -> Offered]
  /\ pc \in [Builds -> {"idle", "done"} \cup Running \cup Failures]
  /\ objects \in [Dirs -> SUBSET Commits]
  /\ fetchHead \in [Dirs -> Commits \cup {Absent}]
  /\ temp \in [Keys -> Contents]
  /\ archive \in [Keys -> Contents]
  /\ renamed \in [Builds -> BOOLEAN]
  /\ rev \in [Builds -> Commits \cup {Absent}]
  /\ version \in [Builds -> Commits \cup {Absent}]
  /\ source \in [Builds -> Commits \cup {Absent}]
  /\ exclusive \in BOOLEAN

Init ==
  /\ tip \in [Branches -> Commits]
  /\ opt \in [Builds -> Offered]
  /\ pc = [b \in Builds |-> "idle"]
  /\ objects = [d \in Dirs |-> {}]
  /\ fetchHead = [d \in Dirs |-> Absent]
  /\ temp = [k \in Keys |-> None]
  /\ archive = [k \in Keys |-> None]
  /\ renamed = [b \in Builds |-> FALSE]
  /\ rev = [b \in Builds |-> Absent]
  /\ version = [b \in Builds |-> Absent]
  /\ source = [b \in Builds |-> Absent]
  /\ exclusive \in BOOLEAN

Goto(b, label) == pc' = [pc EXCEPT ![b] = label]

-----------------------------------------------------------------------------
\* The build follows HEAD_REF; any other build is one of REF.
UsesHead(b) == opt[b].useHead /\ opt[b].headRef # Absent

RefToFetch(b) ==
  IF UsesHead(b) THEN opt[b].headRef
  ELSE IF opt[b].fetchRef # Absent THEN opt[b].fetchRef ELSE opt[b].ref

Key(b) == <<opt[b].port, IF UsesHead(b) THEN opt[b].headRef ELSE opt[b].ref>>

\* HEAD builds have a git directory in their own build tree.
Dir(b) == IF UsesHead(b) THEN b ELSE Shared

\* The lock vcpkg takes on its root directory for as long as it runs.
MayStart == exclusive => \A q \in Builds : pc[q] \notin Running

\* The argument checks; the last two lines are "must be built using --head".
BadArguments(o) ==
  \/ o.ref = Absent /\ o.headRef = Absent
  \/ o.fetchRef # Absent /\ o.ref = Absent
  \/ ~(o.useHead /\ o.headRef # Absent) /\ o.ref = Absent

Start(b) ==
  /\ pc[b] = "idle"
  /\ MayStart
  /\ Goto(b, IF BadArguments(opt[b]) THEN "badArguments" ELSE "check")
  /\ UNCHANGED <<remote, git, files, results>>

\* Mutated form of Check: downloads disabled or not, the archive is the cache.
CheckIgnoresHead(b) ==
  /\ pc[b] = "check"
  /\ Goto(b, IF archive[Key(b)] # None THEN "extract"
             ELSE IF opt[b].noDownloads THEN "downloadsDisabled" ELSE "fetch")
  /\ UNCHANGED <<remote, git, files, results>>

\* if(NOT EXISTS archive): a HEAD build downloads anyway unless it must not.
Check(b) ==
  /\ pc[b] = "check"
  /\ \/ /\ archive[Key(b)] = None
        /\ Goto(b, IF opt[b].noDownloads THEN "downloadsDisabled" ELSE "fetch")
     \/ /\ archive[Key(b)] # None
        /\ Goto(b, IF UsesHead(b) /\ ~opt[b].noDownloads THEN "fetch" ELSE "extract")
  /\ UNCHANGED <<remote, git, files, results>>

\* git init; git fetch URL RefToFetch (with the LFS steps).  Only FETCH_REF is
\* fetched with its history.  The server may refuse, and knows no abbreviation.
Fetch(b) ==
  /\ pc[b] = "fetch"
  /\ \/ /\ RefToFetch(b) \in Commits \cup Branches
        /\ LET c == IF RefToFetch(b) \in Branches THEN tip[RefToFetch(b)]
                                                  ELSE RefToFetch(b)
               deep == ~UsesHead(b) /\ opt[b].fetchRef # Absent
           IN  /\ fetchHead' = [fetchHead EXCEPT ![Dir(b)] = c]
               /\ objects' = [objects EXCEPT ![Dir(b)] =
                                @ \cup IF deep THEN History[c] ELSE {c}]
        /\ Goto(b, "revParse")
     \/ Goto(b, "fetchFailed") /\ UNCHANGED git
  /\ UNCHANGED <<remote, files, results>>

\* git rev-parse of FETCH_HEAD or of REF.  A full SHA is echoed whether or not
\* the object is there; a name that a fetch by URL left no ref for fails.
Parsed(b) ==
  IF opt[b].useHead THEN fetchHead[Dir(b)]
  ELSE IF opt[b].ref \in Commits THEN opt[b].ref
  ELSE IF opt[b].ref \in Shorts /\ Expand[opt[b].ref] \in objects[Dir(b)]
       THEN Expand[opt[b].ref] ELSE Absent

\* Mutated form of RevParse: REF may be anything git resolves.
RevParseUnchecked(b) ==
  /\ pc[b] = "revParse"
  /\ rev' = [rev EXCEPT ![b] = Parsed(b)]
  /\ version' = [version EXCEPT ![b] = IF opt[b].useHead THEN Parsed(b) ELSE @]
  /\ Goto(b, IF Parsed(b) = Absent THEN "refInaccessible" ELSE "open")
  /\ UNCHANGED <<remote, git, files, source>>

\* Mutated form of RevParse: VCPKG_HEAD_VERSION is the name of the ref.
RevParseNames(b) ==
  /\ pc[b] = "revParse"
  /\ rev' = [rev EXCEPT ![b] = Parsed(b)]
  /\ version' = [version EXCEPT ![b] = IF opt[b].useHead THEN RefToFetch(b) ELSE @]
  /\ \/ Parsed(b) = Absent /\ Goto(b, "refInaccessible")
     \/ Parsed(b) # Absent /\ opt[b].useHead /\ Goto(b, "open")
     \/ Parsed(b) # Absent /\ ~opt[b].useHead
          /\ Goto(b, IF Parsed(b) = opt[b].ref THEN "open" ELSE "refMismatch")
  /\ UNCHANGED <<remote, git, files, source>>

RevParse(b) ==
  /\ pc[b] = "revParse"
  /\ rev' = [rev EXCEPT ![b] = Parsed(b)]
  /\ version' = [version EXCEPT ![b] = IF opt[b].useHead THEN Parsed(b) ELSE @]
  /\ \/ Parsed(b) = Absent /\ Goto(b, "refInaccessible")
     \/ Parsed(b) # Absent /\ opt[b].useHead /\ Goto(b, "open")
     \/ Parsed(b) # Absent /\ ~opt[b].useHead
          /\ Goto(b, IF Parsed(b) = opt[b].ref THEN "open" ELSE "refMismatch")
  /\ UNCHANGED <<remote, git, files, source>>

\* Mutated form of OpenTemp: git archive writes to the cached name itself.
OpenArchive(b) ==
  /\ pc[b] = "open"
  /\ archive' = [archive EXCEPT ![Key(b)] = [commit |-> rev[b], whole |-> FALSE]]
  /\ temp' = [temp EXCEPT ![Key(b)] = [commit |-> rev[b], whole |-> FALSE]]
  /\ renamed' = [renamed EXCEPT ![b] = FALSE]
  /\ Goto(b, "write")
  /\ UNCHANGED <<remote, git, results>>

\* git archive opens and truncates its output...
OpenTemp(b) ==
  /\ pc[b] = "open"
  /\ \/ /\ rev[b] \in objects[Dir(b)]
        /\ temp' = [temp EXCEPT ![Key(b)] = [commit |-> rev[b], whole |-> FALSE]]
        /\ renamed' = [renamed EXCEPT ![b] = FALSE]
        /\ Goto(b, "write")
     \/ /\ rev[b] \notin objects[Dir(b)]
        /\ Goto(b, "archiveFailed")
        /\ UNCHANGED <<temp, renamed>>
  /\ UNCHANGED <<remote, git, archive, results>>

\* Another process has the same file open and may have left a hole in it.
Contended(b) ==
  \E q \in Builds \ {b} :
    pc[q] = "write" /\ Key(q) = Key(b) /\ renamed[q] = renamed[b]

\* ...and later has written all of it, under the name the file has by then.
WriteTemp(b) ==
  /\ pc[b] = "write"
  /\ \E w \in {TRUE, ~Contended(b)} :
       LET written == [commit |-> rev[b], whole |-> w]
       IN  IF renamed[b]
           THEN archive' = [archive EXCEPT ![Key(b)] = written] /\ UNCHANGED temp
           ELSE temp' = [temp EXCEPT ![Key(b)] = written] /\ UNCHANGED archive
  /\ Goto(b, "rename")
  /\ UNCHANGED <<remote, git, renamed, results>>

\* file(RENAME temp archive), fatal if temp is not there.
Rename(b) ==
  /\ pc[b] = "rename"
  /\ \/ /\ temp[Key(b)] # None
        /\ archive' = [archive EXCEPT ![Key(b)] = temp[Key(b)]]
        /\ temp' = [temp EXCEPT ![Key(b)] = None]
        /\ renamed' = [q \in Builds |->
             renamed[q] \/ (pc[q] = "write" /\ Key(q) = Key(b) /\ q # b)]
        /\ Goto(b, "extract")
     \/ temp[Key(b)] = None /\ Goto(b, "renameFailed") /\ UNCHANGED files
  /\ UNCHANGED <<remote, git, results>>

\* vcpkg_extract_source_archive_ex: a truncated archive does not extract.
Extract(b) ==
  /\ pc[b] = "extract"
  /\ IF archive[Key(b)].whole
     THEN /\ source' = [source EXCEPT ![b] = archive[Key(b)].commit]
          /\ Goto(b, "done")
     ELSE Goto(b, "extractFailed") /\ UNCHANGED source
  /\ UNCHANGED <<remote, git, files, rev, version>>

\* The vcpkg process is killed at any point.
Kill(b) ==
  /\ pc[b] \in Running
  /\ Goto(b, "killed")
  /\ UNCHANGED <<remote, git, files, results>>

\* Somebody pushes to a branch or moves a tag.
Push(n) ==
  /\ \E c \in Commits : tip' = [tip EXCEPT ![n] = c]
  /\ UNCHANGED <<opt, exclusive, pc, git, files, results>>

Step(b) ==
  \/ Start(b) \/ Check(b) \/ Fetch(b) \/ RevParse(b) \/ OpenTemp(b)
  \/ WriteTemp(b) \/ Rename(b) \/ Extract(b)

Next ==
  \/ \E b \in Builds : Step(b) \/ Kill(b)
  \/ \E n \in Branches : Push(n)

Spec == Init /\ [][Next]_vars

-----------------------------------------------------------------------------
\* "Package does not specify HEAD_REF. Falling back to non-HEAD version."
FallsBack(b) == opt[b].useHead /\ opt[b].headRef = Absent

\* q may leave another commit than REF under the archive name b uses: it
\* follows HEAD_REF, which is also b's REF, or it falls back, which archives
\* FETCH_HEAD, while it fetched another name or git-tmp is not its own.
Poisons(q, b) ==
  /\ Key(q) = Key(b)
  /\ \/ UsesHead(q)
     \/ FallsBack(q) /\ (opt[q].fetchRef # Absent \/ ~exclusive
                           \/ opt[q].ref \notin Commits)

\* A build that does not follow HEAD_REF hands its port the files of the very
\* commit REF names, although the archive it unpacks may come from an earlier
\* run, from another root, or from a git directory others fetch into, and REF
\* may be a branch or an abbreviation; unless a build poisons its archive.
RefBuildsGetRef ==
  \A b \in Builds :
    pc[b] = "done" /\ ~UsesHead(b) =>
      source[b] = opt[b].ref \/ \E q \in Builds : Poisons(q, b)

\* The version a HEAD build reports is the commit of the files it builds, when
\* it may download and no other vcpkg process replaces the archive meanwhile,
\* wherever the branch has moved since the archive was cached.
HeadVersionIsSource ==
  \A b \in Builds :
    exclusive /\ pc[b] = "done" /\ UsesHead(b) /\ ~opt[b].noDownloads =>
      version[b] # Absent /\ version[b] = source[b]

\* Where one lock covers all builds, an archive that exists is whole, whatever
\* build was killed at whatever step: later builds take it without a check.
CachedArchivesWhole ==
  exclusive => \A k \in Keys : archive[k] # None => archive[k].whole

\* What the fallback message says of every build without HEAD_REF: it builds
\* the non-HEAD version, the one REF names.
NonHeadBuildsGetRef ==
  \A b \in Builds : pc[b] = "done" /\ ~UsesHead(b) => source[b] = opt[b].ref
=============================================================================
