----------------------------- MODULE VersionsDb -----------------------------
(***************************************************************************)
(* The versions database of the ports: scripts/generatePortVersionsDb.py   *)
(* writes a version file for every port with a pool of processes, and      *)
(* scripts/generateBaseline.py collects the newest version of every port   *)
(* from these files.  The scripts may run at the same time, be killed, and *)
(* be run again; commits are made and checked out meanwhile, which may add *)
(* and remove ports.                                                       *)
(*                                                                         *)
(* A version of a port is identified with the commit that introduced it,   *)
(* and a commit with its place in one line of history.                     *)
(***************************************************************************)
EXTENDS Naturals, FiniteSets

CONSTANTS
  Ports,
  MaxCommit,    \* bound on the commits
  MaxTouched,   \* bound on the ports that a commit but the first touches
  MaxProcesses, \* size of the process pool
  Torn,         \* a file that is half written
  Blank         \* a version file of no versions

ASSUME FilesAssumption == {Torn, Blank} \cap Nat = {} /\ Torn # Blank
ASSUME BoundsAssumption ==
  MaxCommit \in Nat \ {0} /\ MaxProcesses \in Nat \ {0} /\ MaxTouched \in Nat

Commits == 1..MaxCommit
Versions == Commits \cup {0}
Files == Versions \cup {Torn, Blank}    \* 0 for no file

VARIABLES
  changes,   \* changes[c]: the ports that commit c adds or gives a new version
  removes,   \* removes[c]: the ports that commit c removes
  head,      \* the commit that is checked out
  receded,   \* history: a checkout took ports away while the generator ran
  db,        \* db[p]: the version file of p
  marked,    \* the commits whose rev_file exists
  genPc,     \* where generatePortVersionsDb is
  revision,  \* its revision
  queue,     \* ports its pool has not taken
  running,   \* ports its processes run x-history for
  clean,     \* no x-history failed and no generator was killed
  basePc,    \* where generateBaseline is
  pending,   \* ports it has not read
  entries,   \* baseline_entries, 0 for no entry
  before,    \* history: the files of the ports it lists, when the last run
             \* that was not killed started
  baseline   \* baseline.json, Torn while it is written

repo == <<changes, removes, head, receded>>
generator == <<db, marked, genPc, revision, queue, running, clean>>
baser == <<basePc, pending, entries, before, baseline>>
vars == <<repo, generator, baser>>

NoEntries == [p \in Ports |-> 0]

\* The newest version of p in the history of commit c; 0 if there is none.
Newest(p, c) ==
  LET own == {k \in 1..c : p \in changes[k]}
  IN  IF own = {} THEN 0 ELSE CHOOSE k \in own : \A j \in own : j <= k

\* The ports in the tree of commit c: added, and not removed since.
PortsAt(c) ==
  {p \in Ports :
     \E k \in 1..c : p \in changes[k] /\ \A j \in 1..c : j > k => p \notin removes[j]}

TypeOK ==
  /\ {changes, removes} \subseteq [Commits -> SUBSET Ports]
  /\ head \in Commits /\ receded \in BOOLEAN
  /\ db \in [Ports -> Files]
  /\ marked \subseteq Commits
  /\ genPc \in {"idle", "list", "pool"} /\ revision \in Versions
  /\ queue \subseteq Ports /\ running \subseteq Ports /\ clean \in BOOLEAN
  /\ Cardinality(running) <= MaxProcesses
  /\ basePc \in {"idle", "read", "write"} /\ pending \subseteq Ports
  /\ entries \in [Ports -> Versions] /\ before \in [Ports -> Files]
  /\ baseline = Torn \/ baseline \in [Ports -> Versions]

Init ==
  /\ changes \in [Commits -> SUBSET Ports] /\ removes \in [Commits -> SUBSET Ports]
  /\ removes[1] = {}
  /\ \A c \in Commits \ {1} :
       /\ removes[c] \subseteq PortsAt(c - 1) \ changes[c]
       /\ Cardinality(changes[c] \cup removes[c]) <= MaxTouched
  /\ head = 1 /\ receded = FALSE
  /\ db = NoEntries /\ marked = {}
  /\ genPc = "idle" /\ revision = 0 /\ queue = {} /\ running = {} /\ clean = TRUE
  /\ basePc = "idle" /\ pending = {} /\ entries = NoEntries /\ before = NoEntries
  /\ baseline = NoEntries

-----------------------------------------------------------------------------
\* git commit, git pull or git checkout: another commit and its tree.
Checkout(c) ==
  /\ c # head /\ head' = c
  /\ receded' = (receded \/ (genPc # "idle" /\ ~(PortsAt(head) \subseteq PortsAt(c))))
  /\ UNCHANGED <<changes, removes, generator, baser>>

\* get_current_git_ref, and the check for the rev_file of that revision.
GenStart ==
  /\ genPc = "idle" /\ head \notin marked
  /\ revision' = head /\ genPc' = "list"
  /\ UNCHANGED <<repo, db, marked, queue, running, clean, baser>>

\* os.listdir(PORTS_DIRECTORY), by then perhaps of another commit.
GenList ==
  /\ genPc = "list"
  /\ queue' = PortsAt(head) /\ genPc' = "pool"
  /\ UNCHANGED <<repo, db, marked, revision, running, clean, baser>>

\* Mutated form of Take: the pool has no bound.
TakeUnbounded(p) ==
  /\ genPc = "pool" /\ p \in queue
  /\ queue' = queue \ {p}
  /\ running' = IF db[p] = 0 THEN running \cup {p} ELSE running
  /\ UNCHANGED <<repo, db, marked, genPc, revision, clean, baser>>

\* A process of the pool starts generate_versions_file: only a port without a
\* version file needs x-history.
Take(p) ==
  /\ genPc = "pool" /\ p \in queue
  /\ Cardinality(running) < MaxProcesses
  /\ queue' = queue \ {p}
  /\ running' = IF db[p] = 0 THEN running \cup {p} ELSE running
  /\ UNCHANGED <<repo, db, marked, genPc, revision, clean, baser>>

\* vcpkg x-history writes the versions in the history of HEAD, which may be none,
\* or fails, which is printed and passed over.
History(p) ==
  /\ p \in running
  /\ running' = running \ {p}
  /\ \/ /\ db' = [db EXCEPT ![p] = IF Newest(p, head) = 0 THEN Blank ELSE Newest(p, head)]
        /\ UNCHANGED clean
     \/ clean' = FALSE /\ UNCHANGED db
  /\ UNCHANGED <<repo, marked, genPc, revision, queue, baser>>

\* Mutated form of Mark: the pool is not joined.
MarkEarly ==
  /\ genPc = "pool" /\ queue = {}
  /\ marked' = marked \cup {revision} /\ genPc' = "idle" /\ revision' = 0
  /\ UNCHANGED <<repo, db, queue, running, clean, baser>>

\* The pool has been joined; Path(rev_file).touch().
Mark ==
  /\ genPc = "pool" /\ queue = {} /\ running = {}
  /\ marked' = marked \cup {revision} /\ genPc' = "idle" /\ revision' = 0
  /\ UNCHANGED <<repo, db, queue, running, clean, baser>>

\* The generator is killed with its pool; a file may be half written.
GenKill ==
  /\ genPc \in {"list", "pool"}
  /\ \E half \in SUBSET running :
       db' = [p \in Ports |-> IF p \in half THEN Torn ELSE db[p]]
  /\ genPc' = "idle" /\ revision' = 0 /\ queue' = {} /\ running' = {}
  /\ clean' = FALSE
  /\ UNCHANGED <<repo, marked, baser>>

\* generate_baseline lists the ports.
BaseStart ==
  /\ basePc = "idle"
  /\ basePc' = "read" /\ pending' = PortsAt(head) /\ entries' = NoEntries
  /\ before' = [p \in Ports |-> IF p \in PortsAt(head) THEN db[p] ELSE 0]
  /\ UNCHANGED <<repo, generator, baseline>>

\* Mutated form of BaseRead: an undecodable file ends the reading.
BaseReadStops(p) ==
  /\ basePc = "read" /\ p \in pending
  /\ pending' = IF db[p] = Torn THEN {} ELSE pending \ {p}
  /\ entries' = [entries EXCEPT ![p] = IF db[p] \in Commits THEN db[p] ELSE 0]
  /\ UNCHANGED <<repo, generator, basePc, before, baseline>>

\* One round of the loop: a file that is missing, cannot be decoded or has no
\* versions gives no entry; one that x-history is writing is as good as missing.
BaseRead(p) ==
  /\ basePc = "read" /\ p \in pending
  /\ pending' = pending \ {p}
  /\ entries' = [entries EXCEPT ![p] = IF db[p] \in Commits THEN db[p] ELSE 0]
  /\ UNCHANGED <<repo, generator, basePc, before, baseline>>

\* open(baseline_path, 'w') empties the file...
BaseOpen ==
  /\ basePc = "read" /\ pending = {}
  /\ basePc' = "write" /\ baseline' = Torn
  /\ UNCHANGED <<repo, generator, pending, entries, before>>

\* ...and json.dump fills it.
BaseDump ==
  /\ basePc = "write"
  /\ basePc' = "idle" /\ baseline' = entries /\ entries' = NoEntries
  /\ UNCHANGED <<repo, generator, pending, before>>

BaseKill ==
  /\ basePc # "idle" /\ basePc' = "idle" /\ pending' = {}
  /\ entries' = NoEntries /\ before' = NoEntries
  /\ UNCHANGED <<repo, generator, baseline>>

Next ==
  \/ \E c \in Commits : Checkout(c)
  \/ GenStart \/ GenList \/ Mark \/ GenKill
  \/ \E p \in Ports : Take(p) \/ History(p) \/ BaseRead(p)
  \/ BaseStart \/ BaseOpen \/ BaseDump \/ BaseKill

Spec == Init /\ [][Next]_vars

-----------------------------------------------------------------------------
\* As long as no x-history failed, no generator was killed and no checkout took
\* ports away while one ran, every port of a marked commit has a version file
\* with its versions, also if commits were made or checked out between the
\* reading of the revision, the listing of the ports and the running of the
\* pool: a later run at that commit, which does nothing, misses none.  When a
\* port goes away meanwhile, the listing lacks it or x-history finds no version
\* of it, and the revision is marked all the same.
MarkedIsComplete ==
  clean /\ ~receded => \A c \in marked : \A p \in PortsAt(c) : db[p] \in Commits

\* A baseline.json that was not being written has the versions of the files:
\* each port of the tree with a readable file when the script started is there
\* with that version, and no version is there that the port's file does not
\* begin with, whatever is checked out since.
BaselineIsFaithful ==
  baseline # Torn =>
    \A p \in Ports :
      /\ baseline[p] # 0 => baseline[p] = db[p]
      /\ basePc = "idle" /\ before[p] \in Commits => baseline[p] # 0
=============================================================================
