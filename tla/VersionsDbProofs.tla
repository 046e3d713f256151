-------------------------- MODULE VersionsDbProofs --------------------------
(***************************************************************************)
(* Proofs about the versions database, for any number of ports and commits *)
(* and a pool of any size: a revision whose rev_file exists has a version  *)
(* file for each of its ports, unless ports went away while a generator    *)
(* ran, and a baseline has the versions of the files, while commits are    *)
(* made and checked out, and scripts run and are killed.                   *)
(*                                                                         *)
(* The argument is that, as long as no port goes away during a run, the    *)
(* tree of the revision lies in the tree that is listed, and this in the   *)
(* one whose history x-history finds.  And a file that has a version keeps *)
(* it, because only ports without a file are given to x-history.           *)
(***************************************************************************)
EXTENDS VersionsDb, FiniteSetTheorems, WellFoundedInduction, TLAPS

-----------------------------------------------------------------------------
\* A set of commits that is not empty has a newest one.
LEMMA NewestExists ==
  ASSUME NEW c \in Nat, NEW own \in SUBSET (1..c), own # {}
  PROVE  \E k \in own : \A j \in own : j <= k
<1> DEFINE after == {c - k : k \in own}
<1>1. after \subseteq Nat /\ after # {}
  <2>1. \A k \in own : c - k \in Nat
    OBVIOUS
  <2> QED
    BY <2>1, Zenon
<1>2. \A x, y \in Nat : x < y => <<x, y>> \in OpToRel(<, Nat)
  BY DEF OpToRel
<1> HIDE DEF after
<1>3. PICK t \in after : \A y \in after : <<y, t>> \notin OpToRel(<, Nat)
  BY <1>1, NatLessThanWellFounded, WFMin
<1>4. \A y \in after : ~(y < t)
  BY <1>1, <1>2, <1>3
<1>5. PICK k \in own : t = c - k
  BY DEF after
<1>6. ASSUME NEW j \in own PROVE j <= k
  <2>1. c - j \in after
    BY DEF after
  <2>2. ~(c - j < c - k)
    BY <1>4, <1>5, <2>1
  <2> QED
    BY <2>2
<1> QED
  BY <1>6

\* x-history finds a version of every port of the tree.
LEMMA PortsHaveVersions ==
  ASSUME NEW c \in Commits, NEW p \in Ports
  PROVE  /\ Newest(p, c) \in Versions
         /\ p \in PortsAt(c) => Newest(p, c) \in Commits
<1> DEFINE own == {k \in 1..c : p \in changes[k]}
<1>1. c \in Nat /\ 1..c \subseteq Commits
  BY BoundsAssumption DEF Commits
<1>2. CASE own = {}
  <2>1. Newest(p, c) = 0
    BY <1>2 DEF Newest
  <2>2. p \notin PortsAt(c)
    BY <1>2 DEF PortsAt
  <2> QED
    BY <2>1, <2>2 DEF Versions
<1>3. CASE own # {}
  <2>1. \E n \in own : \A j \in own : j <= n
    BY <1>1, <1>3, NewestExists
  <2>2. Newest(p, c) = CHOOSE n \in own : \A j \in own : j <= n
    BY <1>3 DEF Newest
  <2>3. Newest(p, c) \in own
    BY <2>1, <2>2
  <2> QED
    BY <1>1, <2>3 DEF Versions
<1> QED
  BY <1>2, <1>3

-----------------------------------------------------------------------------
\* Only ports without a file are given to x-history.
GenShape ==
  /\ IsFiniteSet(running)
  /\ genPc \in {"list", "pool"} => revision \in Commits
  /\ genPc # "pool" => queue = {} /\ running = {}
  /\ \A p \in running : db[p] = 0

\* What the run has achieved if nothing failed and no port went away: the ports
\* of its revision that its pool has not come to are the only ones without a
\* version file, and x-history has versions of those it will be run for.
GenSoFar ==
  clean /\ ~receded =>
    /\ \A p \in Ports : db[p] \notin {Torn, Blank}
    /\ genPc # "idle" => PortsAt(revision) \subseteq PortsAt(head)
    /\ queue \cup running \subseteq PortsAt(head)
    /\ genPc = "pool" =>
         \A p \in PortsAt(revision) \ (queue \cup running) : db[p] \in Commits

\* What generateBaseline has read is still in the files, and it has read all
\* that was there when it started but what is pending.
BaseSoFar ==
  /\ \A p \in Ports :
       /\ entries[p] # 0 => entries[p] = db[p]
       /\ before[p] \in Commits => before[p] = db[p]
  /\ basePc = "read" =>
       \A p \in Ports \ pending : before[p] \in Commits => entries[p] # 0
  /\ basePc = "write" =>
       \A p \in Ports : before[p] \in Commits => entries[p] # 0

DbInv ==
  TypeOK /\ GenShape /\ GenSoFar /\ MarkedIsComplete /\ BaseSoFar /\ BaselineIsFaithful

\* A file has versions, none, or half of one, or does not exist.
LEMMA FileForms ==
  /\ Torn \notin Versions /\ Blank \notin Versions /\ 0 \notin Commits /\ Commits \subseteq Nat
  /\ \A v \in Files : v \in Commits <=> v \notin {0, Torn, Blank}
  /\ Commits \subseteq Versions /\ Versions \subseteq Files
  /\ {0, Torn, Blank} \subseteq Files /\ {0, Torn, Blank} \cap Commits = {} /\ 0 \in Versions
  /\ 1 \in Commits
BY FilesAssumption, BoundsAssumption DEF Files, Versions, Commits

\* The history does not change.
LEMMA SameHistory ==
  ASSUME changes' = changes, removes' = removes
  PROVE  /\ PortsAt(head)' = PortsAt(head')
         /\ PortsAt(revision)' = PortsAt(revision')
         /\ \A c \in Commits : PortsAt(c)' = PortsAt(c)
         /\ \A c \in Commits : PortsAt(c) \subseteq Ports
BY DEF PortsAt

\* At the start there are no version files.
LEMMA DbInitHasInv == Init => DbInv
<1> SUFFICES ASSUME Init PROVE DbInv
  OBVIOUS
<1>1. db = NoEntries /\ entries = NoEntries /\ before = NoEntries /\ baseline = NoEntries
        /\ running = {} /\ marked = {} /\ genPc = "idle" /\ basePc = "idle"
  BY DEF Init
<1>2. NoEntries \in [Ports -> Versions] /\ \A p \in Ports : NoEntries[p] = 0
  BY DEF NoEntries, Versions
<1>3. TypeOK
  <2>1. Cardinality(running) = 0 /\ MaxProcesses \in Nat
    BY <1>1, FS_EmptySet, BoundsAssumption
  <2>2. Cardinality(running) <= MaxProcesses
    BY <2>1
  <2>3. NoEntries \in [Ports -> Files]
    BY <1>2, FileForms
  <2> QED
    BY <1>1, <1>2, <2>2, <2>3, FileForms DEF Init, TypeOK, Versions
<1>4. GenShape
  BY <1>1, <1>2, FS_EmptySet, FileForms DEF Init, GenShape
<1>5. GenSoFar /\ MarkedIsComplete
  BY <1>1, <1>2, FileForms DEF Init, GenSoFar, MarkedIsComplete
<1>6. BaseSoFar /\ BaselineIsFaithful
  BY <1>1, <1>2, FileForms DEF BaseSoFar, BaselineIsFaithful
<1> QED
  BY <1>3, <1>4, <1>5, <1>6 DEF DbInv

\* As long as files with a version keep it, a baseline stays faithful.
LEMMA FilesKept ==
  ASSUME DbInv, UNCHANGED baser, \A p \in Ports : db[p] \in Commits => db'[p] = db[p]
  PROVE  BaseSoFar' /\ BaselineIsFaithful'
<1>1. ASSUME NEW p \in Ports
      PROVE  /\ entries[p] # 0 => entries[p] = db'[p]
             /\ before[p] \in Commits => before[p] = db'[p]
             /\ baseline # Torn => (baseline[p] # 0 => baseline[p] = db'[p])
  <2>1. /\ entries[p] # 0 => entries[p] = db[p] /\ db[p] \in Commits
        /\ before[p] \in Commits => before[p] = db[p] /\ db[p] \in Commits
    BY FileForms DEF DbInv, BaseSoFar, TypeOK, Versions
  <2>2. baseline # Torn => (baseline[p] # 0 => baseline[p] = db[p] /\ db[p] \in Commits)
    BY FileForms DEF DbInv, BaselineIsFaithful, TypeOK, Versions
  <2> QED
    BY <2>1, <2>2
<1> QED
  BY <1>1 DEF DbInv, BaseSoFar, BaselineIsFaithful, baser

\* A script that writes no version file disturbs nothing of the generator.
LEMMA GeneratorKept ==
  ASSUME DbInv, UNCHANGED <<repo, generator>>
  PROVE  GenShape' /\ GenSoFar' /\ MarkedIsComplete'
<1>1. PortsAt(head)' = PortsAt(head) /\ PortsAt(revision)' = PortsAt(revision)
        /\ \A c \in Commits : PortsAt(c)' = PortsAt(c)
  BY SameHistory DEF repo, generator
<1> QED
  BY <1>1 DEF DbInv, TypeOK, GenShape, GenSoFar, MarkedIsComplete, repo, generator

\* Another commit is checked out: during a run it has all ports, or the tree has
\* receded.
LEMMA CheckoutKeepsInv ==
  ASSUME DbInv, NEW c \in Commits, Checkout(c)
  PROVE  DbInv'
<1>1. /\ head' = c /\ UNCHANGED generator /\ UNCHANGED baser
      /\ receded' = (receded \/ (genPc # "idle" /\ ~(PortsAt(head) \subseteq PortsAt(c))))
      /\ changes' = changes /\ removes' = removes
  BY DEF Checkout
<1>2. PortsAt(head)' = PortsAt(c) /\ \A k \in Commits : PortsAt(k)' = PortsAt(k)
  BY <1>1, SameHistory
<1>3. TypeOK'
  BY <1>1 DEF DbInv, TypeOK, generator, baser
<1>4. GenShape'
  BY <1>1 DEF DbInv, GenShape, generator
<1>5. GenSoFar'
  <2> SUFFICES ASSUME clean, ~receded' PROVE GenSoFar'
    BY <1>1 DEF GenSoFar, generator
  <2>1. ~receded /\ (genPc # "idle" => PortsAt(head) \subseteq PortsAt(c))
    BY <1>1
  <2>2. CASE genPc = "idle"
    BY <1>1, <2>1, <2>2 DEF DbInv, GenShape, GenSoFar, generator
  <2>3. CASE genPc # "idle"
    <3>1. revision \in Commits
      BY <2>3 DEF DbInv, GenShape, TypeOK
    <3>2. PortsAt(revision)' = PortsAt(revision)
      BY <1>1, SameHistory DEF generator
    <3> QED
      BY <1>1, <1>2, <2>1, <2>3, <3>2 DEF DbInv, GenSoFar, generator
  <2> QED
    BY <2>2, <2>3
<1>6. MarkedIsComplete'
  BY <1>1, <1>2 DEF DbInv, TypeOK, MarkedIsComplete, generator
<1>7. BaseSoFar' /\ BaselineIsFaithful'
  BY <1>1, FilesKept DEF generator
<1> QED
  BY <1>3, <1>4, <1>5, <1>6, <1>7 DEF DbInv

\* A run begins at the revision that is checked out.
LEMMA GenStartKeepsInv ==
  ASSUME DbInv, GenStart
  PROVE  DbInv'
<1>1. PortsAt(head)' = PortsAt(head) /\ head \in Commits /\ PortsAt(revision)' = PortsAt(head)
  BY SameHistory DEF GenStart, repo, DbInv, TypeOK
<1>2. TypeOK'
  BY <1>1, FileForms DEF GenStart, DbInv, TypeOK, repo, baser
<1>3. GenShape'
  BY <1>1 DEF GenStart, DbInv, GenShape
<1>4. GenSoFar' /\ MarkedIsComplete'
  BY <1>1, SameHistory DEF GenStart, DbInv, TypeOK, GenSoFar, MarkedIsComplete, repo
<1>5. BaseSoFar' /\ BaselineIsFaithful'
  BY FilesKept DEF GenStart
<1> QED
  BY <1>2, <1>3, <1>4, <1>5 DEF DbInv

\* The listing may be of another commit, whose tree has all ports of the revision
\* unless some went away.
LEMMA GenListKeepsInv ==
  ASSUME DbInv, GenList
  PROVE  DbInv'
<1>1. PortsAt(head)' = PortsAt(head) /\ PortsAt(revision)' = PortsAt(revision)
        /\ \A c \in Commits : PortsAt(c)' = PortsAt(c)
  BY SameHistory DEF GenList, repo
<1>2. TypeOK'
  BY DEF GenList, DbInv, TypeOK, repo, baser, PortsAt
<1>3. GenShape'
  BY DEF GenList, DbInv, GenShape
<1>4. GenSoFar' /\ MarkedIsComplete'
  BY <1>1 DEF GenList, DbInv, TypeOK, GenShape, GenSoFar, MarkedIsComplete, repo
<1>5. BaseSoFar' /\ BaselineIsFaithful'
  BY FilesKept DEF GenList
<1> QED
  BY <1>2, <1>3, <1>4, <1>5 DEF DbInv

\* A port leaves the queue for x-history, or because it has a version file.
LEMMA TakeKeepsInv ==
  ASSUME DbInv, NEW p \in Ports, Take(p)
  PROVE  DbInv'
<1>1. PortsAt(head)' = PortsAt(head) /\ PortsAt(revision)' = PortsAt(revision)
        /\ \A c \in Commits : PortsAt(c)' = PortsAt(c)
  BY SameHistory DEF Take, repo
<1>2. IsFiniteSet(running') /\ Cardinality(running') <= MaxProcesses
  <2>1. IsFiniteSet(running) /\ Cardinality(running) \in Nat /\ MaxProcesses \in Nat
          /\ Cardinality(running) < MaxProcesses
    BY FS_CardinalityType, BoundsAssumption DEF Take, DbInv, GenShape
  <2>2. /\ IsFiniteSet(running \cup {p})
        /\ \/ Cardinality(running \cup {p}) = Cardinality(running)
           \/ Cardinality(running \cup {p}) = Cardinality(running) + 1
    BY <2>1, FS_AddElement, Zenon
  <2>3. \A n, m \in Nat : n < m => n <= m /\ n + 1 <= m
    OBVIOUS
  <2>4. IsFiniteSet(running \cup {p}) /\ Cardinality(running \cup {p}) <= MaxProcesses
    BY <2>1, <2>2, <2>3, Zenon
  <2>5. running' = running \/ running' = running \cup {p}
    BY DEF Take
  <2> QED
    BY <2>1, <2>3, <2>4, <2>5, Zenon
<1>3. TypeOK'
  BY <1>2 DEF Take, DbInv, TypeOK, repo, baser
<1>4. GenShape'
  BY <1>1, <1>2 DEF Take, DbInv, GenShape, repo
<1>5. GenSoFar'
  <2> SUFFICES ASSUME clean, ~receded PROVE GenSoFar'
    BY DEF GenSoFar, Take, repo
  <2>1. ASSUME NEW q \in PortsAt(revision) \ (queue' \cup running') PROVE db[q] \in Commits
    <3>1. CASE q = p
      <4>1. db[p] \notin {0, Torn, Blank}
        BY <2>1, <3>1 DEF Take, DbInv, GenSoFar
      <4> QED
        BY <3>1, <4>1, FileForms DEF DbInv, TypeOK
    <3>2. CASE q # p
      BY <2>1, <3>2 DEF Take, DbInv, GenSoFar
    <3> QED
      BY <3>1, <3>2
  <2> QED
    BY <1>1, <2>1 DEF Take, DbInv, GenSoFar, repo
<1>6. MarkedIsComplete'
  BY <1>1 DEF Take, DbInv, TypeOK, MarkedIsComplete, repo
<1>7. BaseSoFar' /\ BaselineIsFaithful'
  BY FilesKept DEF Take
<1> QED
  BY <1>3, <1>4, <1>5, <1>6, <1>7 DEF DbInv

\* x-history finds a version of every port it runs for, or fails.
LEMMA HistoryKeepsInv ==
  ASSUME DbInv, NEW p \in Ports, History(p)
  PROVE  DbInv'
<1>1. PortsAt(head)' = PortsAt(head) /\ PortsAt(revision)' = PortsAt(revision)
        /\ \A c \in Commits : PortsAt(c)' = PortsAt(c)
  BY SameHistory DEF History, repo
<1>2. db[p] = 0 /\ running' = running \ {p} /\ (clean /\ ~receded => p \in PortsAt(head))
  BY DEF History, DbInv, GenShape, GenSoFar
<1> DEFINE written == IF Newest(p, head) = 0 THEN Blank ELSE Newest(p, head)
<1>3. written \in Files /\ (clean /\ ~receded => written \in Commits)
  BY <1>2, PortsHaveVersions, FileForms DEF DbInv, TypeOK
<1>4. IsFiniteSet(running') /\ Cardinality(running') <= MaxProcesses
  <2>1. IsFiniteSet(running) /\ Cardinality(running) \in Nat /\ MaxProcesses \in Nat
          /\ Cardinality(running) <= MaxProcesses
    BY FS_CardinalityType, BoundsAssumption DEF DbInv, GenShape, TypeOK
  <2>2. /\ IsFiniteSet(running \ {p})
        /\ \/ Cardinality(running \ {p}) = Cardinality(running)
           \/ Cardinality(running \ {p}) = Cardinality(running) - 1
    BY <2>1, FS_RemoveElement, Zenon
  <2>3. \A n, m \in Nat : n <= m => n - 1 <= m
    OBVIOUS
  <2> QED
    BY <1>2, <2>1, <2>2, <2>3, Zenon
<1>5. /\ db' \in [Ports -> Files]
      /\ \A q \in Ports \ {p} : db'[q] = db[q]
      /\ clean' /\ ~receded => clean /\ db'[p] \in Commits
  <2>1. CASE db' = [db EXCEPT ![p] = written] /\ UNCHANGED clean
    BY <1>3, <2>1 DEF DbInv, TypeOK
  <2>2. CASE clean' = FALSE /\ UNCHANGED db
    BY <2>2 DEF DbInv, TypeOK
  <2> QED
    BY <2>1, <2>2 DEF History
<1> HIDE DEF written
<1>6. TypeOK'
  <2>1. clean' \in BOOLEAN
    BY DEF History, DbInv, TypeOK
  <2> QED
    BY <1>4, <1>5, <2>1 DEF History, DbInv, TypeOK, repo, baser
<1>7. GenShape'
  <2>1. \A q \in running' : q \in Ports \ {p}
    BY <1>2 DEF DbInv, TypeOK
  <2>2. \A q \in running' : db'[q] = 0
    BY <1>2, <1>5, <2>1 DEF DbInv, GenShape
  <2> QED
    BY <1>2, <1>4, <2>2 DEF History, DbInv, GenShape
<1>8. GenSoFar'
  <2> SUFFICES ASSUME clean', ~receded PROVE GenSoFar'
    BY DEF GenSoFar, History, repo
  <2>1. PortsAt(revision) \subseteq Ports
    BY DEF PortsAt
  <2>2. \A q \in Ports : db'[q] \notin {Torn, Blank}
    BY <1>5, FileForms DEF DbInv, GenSoFar
  <2>3. ASSUME genPc = "pool", NEW q \in PortsAt(revision) \ (queue \cup running')
        PROVE  db'[q] \in Commits
    BY <1>2, <1>5, <2>1, <2>3 DEF DbInv, GenSoFar
  <2> QED
    BY <1>1, <1>2, <1>5, <2>2, <2>3 DEF History, DbInv, GenSoFar, repo
<1>9. MarkedIsComplete'
  <2>1. \A c \in Commits : PortsAt(c) \subseteq Ports
    BY DEF PortsAt
  <2> QED
    BY <1>1, <1>5, <2>1 DEF History, DbInv, TypeOK, MarkedIsComplete, repo
<1>10. BaseSoFar' /\ BaselineIsFaithful'
  BY <1>2, <1>5, FileForms, FilesKept DEF History
<1> QED
  BY <1>6, <1>7, <1>8, <1>9, <1>10 DEF DbInv

\* When the pool has been joined, every port of the revision has its file.
LEMMA MarkKeepsInv ==
  ASSUME DbInv, Mark
  PROVE  DbInv'
<1>1. PortsAt(head)' = PortsAt(head) /\ \A c \in Commits : PortsAt(c)' = PortsAt(c)
  BY SameHistory DEF Mark, repo
<1>2. revision \in Commits
  BY DEF Mark, DbInv, GenShape
<1>3. TypeOK'
  BY <1>2, FileForms DEF Mark, DbInv, TypeOK, repo, baser
<1>4. GenShape'
  BY DEF Mark, DbInv, GenShape
<1>5. GenSoFar'
  BY <1>1 DEF Mark, DbInv, GenSoFar, repo
<1>6. MarkedIsComplete'
  BY <1>1, <1>2 DEF Mark, DbInv, TypeOK, GenSoFar, MarkedIsComplete, repo
<1>7. BaseSoFar' /\ BaselineIsFaithful'
  BY FilesKept DEF Mark
<1> QED
  BY <1>3, <1>4, <1>5, <1>6, <1>7 DEF DbInv

\* A kill spoils only files that had no version.
LEMMA GenKillKeepsInv ==
  ASSUME DbInv, GenKill
  PROVE  DbInv'
<1>2. PICK half \in SUBSET running : db' = [p \in Ports |-> IF p \in half THEN Torn ELSE db[p]]
  BY DEF GenKill
<1>3. \A p \in Ports : db'[p] = db[p] \/ (db'[p] = Torn /\ db[p] = 0)
  BY <1>2 DEF DbInv, GenShape
<1>4. IsFiniteSet(running') /\ Cardinality(running') = 0 /\ MaxProcesses \in Nat
  BY FS_EmptySet, BoundsAssumption DEF GenKill
<1>5. db' \in [Ports -> Files]
  BY <1>2, FileForms DEF DbInv, TypeOK
<1>6. TypeOK'
  <2>1. Cardinality(running') <= MaxProcesses
    BY <1>4
  <2> QED
    BY <1>5, <2>1, FileForms DEF GenKill, DbInv, TypeOK, repo, baser
<1>7. GenShape'
  BY <1>4 DEF GenKill, GenShape
<1>8. GenSoFar' /\ MarkedIsComplete'
  BY DEF GenKill, GenSoFar, MarkedIsComplete
<1>9. BaseSoFar' /\ BaselineIsFaithful'
  BY <1>3, FileForms, FilesKept DEF GenKill
<1> QED
  BY <1>6, <1>7, <1>8, <1>9 DEF DbInv

\* generateBaseline lists the ports of the tree.
LEMMA BaseStartKeepsInv ==
  ASSUME DbInv, BaseStart
  PROVE  DbInv'
<1>1. \A p \in Ports : before'[p] = IF p \in PortsAt(head) THEN db[p] ELSE 0
  BY DEF BaseStart
<1>2. TypeOK'
  <2>1. before' \in [Ports -> Files]
    BY FileForms DEF BaseStart, DbInv, TypeOK
  <2> QED
    BY <2>1 DEF BaseStart, DbInv, TypeOK, NoEntries, Versions, PortsAt, repo, generator
<1>3. BaseSoFar'
  BY <1>1, FileForms DEF BaseStart, BaseSoFar, NoEntries, generator
<1>4. BaselineIsFaithful'
  BY DEF BaseStart, DbInv, BaselineIsFaithful, generator
<1> QED
  BY <1>2, <1>3, <1>4, GeneratorKept DEF DbInv, BaseStart

\* One port more has been read.
LEMMA BaseReadKeepsInv ==
  ASSUME DbInv, NEW p \in Ports, BaseRead(p)
  PROVE  DbInv'
<1> DEFINE e == IF db[p] \in Commits THEN db[p] ELSE 0
<1>1. e \in Versions /\ (e # 0 => e = db[p]) /\ (db[p] \in Commits => e # 0)
  BY FileForms DEF DbInv, TypeOK, Versions
<1>2. entries' = [entries EXCEPT ![p] = e]
  BY DEF BaseRead
<1> HIDE DEF e
<1>3. /\ entries' \in [Ports -> Versions] /\ entries'[p] = e
      /\ \A q \in Ports \ {p} : entries'[q] = entries[q]
  BY <1>1, <1>2 DEF DbInv, TypeOK
<1>4. TypeOK'
  BY <1>3 DEF BaseRead, DbInv, TypeOK, repo, generator
<1>5. BaseSoFar'
  BY <1>1, <1>3 DEF BaseRead, DbInv, BaseSoFar, generator
<1>6. BaselineIsFaithful'
  BY DEF BaseRead, DbInv, BaselineIsFaithful, generator
<1> QED
  BY <1>4, <1>5, <1>6, GeneratorKept DEF DbInv, BaseRead

\* baseline.json is emptied, filled, or left as it is by a kill.
LEMMA BaseWriteKeepsInv ==
  ASSUME DbInv, BaseOpen \/ BaseDump \/ BaseKill
  PROVE  DbInv'
<1>1. UNCHANGED <<repo, generator>> /\ entries' \in {entries, NoEntries}
  BY DEF BaseOpen, BaseDump, BaseKill
<1>2. TypeOK'
  <2>1. NoEntries \in [Ports -> Versions] /\ NoEntries \in [Ports -> Files]
    BY FileForms DEF NoEntries
  <2> QED
    BY <1>1, <2>1 DEF BaseOpen, BaseDump, BaseKill, DbInv, TypeOK, repo, generator
<1>3. BaseSoFar' /\ BaselineIsFaithful'
  <2>1. CASE BaseOpen
    BY <1>1, <2>1 DEF BaseOpen, DbInv, BaseSoFar, BaselineIsFaithful, generator
  <2>2. CASE BaseDump
    BY <1>1, <2>2 DEF BaseDump, DbInv, BaseSoFar, BaselineIsFaithful, NoEntries, generator
  <2>3. CASE BaseKill
    BY <1>1, <2>3, FileForms DEF BaseKill, DbInv, BaseSoFar, BaselineIsFaithful, NoEntries, generator
  <2> QED
    BY <2>1, <2>2, <2>3
<1> QED
  BY <1>1, <1>2, <1>3, GeneratorKept DEF DbInv

\* DbInv is inductive: one step for each action of the two scripts.
LEMMA DbNextKeepsInv == DbInv /\ [Next]_vars => DbInv'
<1> SUFFICES ASSUME DbInv, [Next]_vars PROVE DbInv'
  OBVIOUS
<1>1. CASE Next
  BY <1>1, CheckoutKeepsInv, GenStartKeepsInv, GenListKeepsInv, TakeKeepsInv,
     HistoryKeepsInv, MarkKeepsInv, GenKillKeepsInv, BaseStartKeepsInv,
     BaseReadKeepsInv, BaseWriteKeepsInv
  DEF Next
<1>2. CASE UNCHANGED vars
  <2>1. TypeOK' /\ BaseSoFar' /\ BaselineIsFaithful'
    BY <1>2 DEF vars, repo, generator, baser, DbInv, TypeOK, BaseSoFar, BaselineIsFaithful
  <2> QED
    BY <1>2, <2>1, GeneratorKept DEF vars, DbInv
<1> QED
  BY <1>1, <1>2

-----------------------------------------------------------------------------
\* The types of the state, and the pool never runs more processes than it has.
THEOREM DbTypeIsInvariant == Spec => []TypeOK
<1>1. DbInv => TypeOK
  BY DEF DbInv
<1> QED
  BY <1>1, DbInitHasInv, DbNextKeepsInv, PTL DEF Spec

\* A revision whose rev_file exists is complete, if nothing failed and no port
\* went away while a generator ran.
THEOREM MarkedMeansComplete == Spec => []MarkedIsComplete
<1>1. DbInv => MarkedIsComplete
  BY DEF DbInv
<1> QED
  BY <1>1, DbInitHasInv, DbNextKeepsInv, PTL DEF Spec

\* A baseline.json that is not being written has the versions of the files.
THEOREM BaselineHasTheVersions == Spec => []BaselineIsFaithful
<1>1. DbInv => BaselineIsFaithful
  BY DEF DbInv
<1> QED
  BY <1>1, DbInitHasInv, DbNextKeepsInv, PTL DEF Spec
=============================================================================
