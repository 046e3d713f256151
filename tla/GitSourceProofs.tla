-------------------------- MODULE GitSourceProofs --------------------------
(***************************************************************************)
(* Theorems about how sources come from git: about vcpkg_from_git for any  *)
(* number of builds, ports and commits, and about the tree that the port   *)
(* of WebRTC puts together from it for any labels and exports of abseil.   *)
(*                                                                         *)
(* That a REF build gets REF cannot be seen from one build: the archive it *)
(* unpacks is what any build of the same name left.  IInv says what every  *)
(* such build has in hand at each step (the commit it parsed, FETCH_HEAD), *)
(* and what the two shared files hold, for as long as nothing poisons the  *)
(* name.  Under the lock it also follows the temporary archive from the    *)
(* build that opens it to the one that renames it.                         *)
(*                                                                         *)
(* For WebRTC, every file has an owner that writes it: an overlay, abseil, *)
(* a repository or the portfile.  WebrtcInv says which owners have yet to  *)
(* write before GN reads the tree next, that all others have their files   *)
(* in it, and that these fit the configuration; it is kept because no      *)
(* directory that is removed as a whole holds the files of an owner that   *)
(* does not write again.                                                   *)
(***************************************************************************)
EXTENDS FromGit, Webrtc, SequenceTheorems, FiniteSetTheorems, TLAPS

\* A build that got past the argument checks has sound arguments.
ArgumentsChecked ==
  \A b \in Builds : pc[b] \notin {"idle", "badArguments"} => ~BadArguments(opt[b])

\* The lock lets one build run at a time.
OneRuns ==
  exclusive => \A q, b \in Builds : pc[q] \in Running /\ pc[b] \in Running => q = b

\* Under the lock, a build renames the whole archive that it wrote itself.
OwnTempIsWhole ==
  exclusive => \A b \in Builds :
    /\ pc[b] = "write" => ~renamed[b]
    /\ pc[b] = "rename" => temp[Key(b)].whole

\* Builds of REF whose archive name no build poisons.
Sound(b) == /\ ~UsesHead(b) /\ opt[b].ref # Absent
            /\ ~\E q \in Builds : Poisons(q, b)

\* Under the lock, FETCH_HEAD is what the build that fetches asked for.
FetchHeadIsRef ==
  \A b \in Builds :
    exclusive /\ pc[b] = "revParse" /\ FallsBack(b) /\ opt[b].fetchRef = Absent
      /\ opt[b].ref \in Commits
    => fetchHead[Shared] = opt[b].ref

\* What the builds of a sound name archive is REF...
RevIsRef ==
  \A b, q \in Builds :
    Sound(b) /\ Key(q) = Key(b) /\ pc[q] \in {"open", "write"} => rev[q] = opt[b].ref

\* ...and so is what the two files of that name hold.
FilesAreRef ==
  \A b \in Builds : Sound(b) =>
    /\ temp[Key(b)] = None \/ temp[Key(b)].commit = opt[b].ref
    /\ archive[Key(b)] = None \/ archive[Key(b)].commit = opt[b].ref

IInv == /\ TypeOK /\ ArgumentsChecked /\ OneRuns /\ OwnTempIsWhole
        /\ CachedArchivesWhole /\ FetchHeadIsRef /\ RevIsRef /\ FilesAreRef
        /\ RefBuildsGetRef

\* Under the lock, a HEAD build that downloads hands the commit it reports on
\* from file to file; no other build can come in between.
HeadIsStaged ==
  \A b \in Builds : exclusive /\ UsesHead(b) /\ ~opt[b].noDownloads =>
    /\ pc[b] \in {"open", "write", "rename", "extract", "done"} => version[b] # Absent
    /\ pc[b] \in {"open", "write"} => version[b] = rev[b]
    /\ pc[b] = "rename" => temp[Key(b)].commit = version[b]
    /\ pc[b] = "extract" => archive[Key(b)].commit = version[b]
    /\ pc[b] = "done" => source[b] = version[b]

-----------------------------------------------------------------------------
\* What the arguments of a build are; used wherever a step looks at them.
LEMMA OptType ==
  ASSUME TypeOK, NEW b \in Builds
  PROVE  /\ opt[b] \in Options
         /\ opt[b].port \in Ports /\ opt[b].ref \in Refs \cup {Absent}
         /\ opt[b].fetchRef \in Branches \cup {Absent}
         /\ opt[b].headRef \in Branches \cup {Absent}
         /\ opt[b].useHead \in BOOLEAN /\ opt[b].noDownloads \in BOOLEAN
BY OfferedAssumption DEF TypeOK, Options

\* The archives of a build with sound arguments have a name.
LEMMA KeyType ==
  ASSUME TypeOK, NEW b \in Builds, ~BadArguments(opt[b])
  PROVE  Key(b) \in Keys
<1>1. opt[b].port \in Ports
  BY OptType
<1>2. CASE UsesHead(b)
  BY <1>1, <1>2, OptType DEF UsesHead, Key, Keys, Refs
<1>3. CASE ~UsesHead(b)
  BY <1>1, <1>3, OptType DEF UsesHead, BadArguments, Key, Keys
<1> QED
  BY <1>2, <1>3

\* The git directory of a build is one.
LEMMA DirType == ASSUME NEW b \in Builds PROVE Dir(b) \in Dirs
BY DEF Dir, Dirs

\* No step changes what the builds are called with or whether a lock covers
\* them, nor anything that is defined from that.
LEMMA Fixed ==
  ASSUME [Next]_vars
  PROVE  /\ opt' = opt /\ exclusive' = exclusive
         /\ \A b \in Builds : Key(b)' = Key(b) /\ Sound(b)' = Sound(b)
<1>1. opt' = opt /\ exclusive' = exclusive
  BY DEF Next, Step, vars, remote, Start, Check, Fetch, RevParse, OpenTemp, WriteTemp,
         Rename, Extract, Kill, Push
<1> QED
  BY <1>1 DEF Key, UsesHead, Sound, Poisons, FallsBack

-----------------------------------------------------------------------------
\* The types hold at first.
LEMMA TypeInit == Init => TypeOK
BY DEF Init, TypeOK, Contents, None, Dirs

\* What git rev-parse prints is a commit, if anything.
LEMMA ParsedType ==
  ASSUME TypeOK, NEW b \in Builds
  PROVE  Parsed(b) \in Commits \cup {Absent}
<1>1. fetchHead[Dir(b)] \in Commits \cup {Absent}
  BY DirType DEF TypeOK
<1>2. opt[b].ref \in Shorts => Expand[opt[b].ref] \in Commits
  BY HistoryAssumption
<1> QED
  BY <1>1, <1>2 DEF Parsed

\* A step keeps the types.
LEMMA TypeNext ==
  ASSUME TypeOK, ArgumentsChecked, [Next]_vars
  PROVE  TypeOK'
<1> USE DEF TypeOK, Goto, Running, Failures, remote, git, files, results
<1>1. CASE UNCHANGED vars
  BY <1>1 DEF vars
<1>2. ASSUME NEW b \in Builds, Start(b) PROVE TypeOK'
  BY <1>2 DEF Start
<1>3. ASSUME NEW b \in Builds, Check(b) PROVE TypeOK'
  BY <1>3 DEF Check
<1>4. ASSUME NEW b \in Builds, Fetch(b) PROVE TypeOK'
  <2>1. CASE UNCHANGED git /\ Goto(b, "fetchFailed")
    BY <1>4, <2>1 DEF Fetch
  <2>2. CASE RefToFetch(b) \in Commits \cup Branches /\ Goto(b, "revParse")
    <3> DEFINE c == IF RefToFetch(b) \in Branches THEN tip[RefToFetch(b)] ELSE RefToFetch(b)
               got == IF ~UsesHead(b) /\ opt[b].fetchRef # Absent THEN History[c] ELSE {c}
    <3>1. c \in Commits
      BY <2>2
    <3>2. got \in SUBSET Commits
      BY <3>1, HistoryAssumption
    <3>3. /\ fetchHead' = [fetchHead EXCEPT ![Dir(b)] = c]
          /\ objects' = [objects EXCEPT ![Dir(b)] = @ \cup got]
      BY <1>4, <2>2 DEF Fetch
    <3> HIDE DEF c, got
    <3> QED
      BY <1>4, <2>2, <3>1, <3>2, <3>3 DEF Fetch
  <2> QED
    BY <1>4, <2>1, <2>2 DEF Fetch
<1>5. ASSUME NEW b \in Builds, RevParse(b) PROVE TypeOK'
  BY <1>5, ParsedType DEF RevParse
<1>6. ASSUME NEW b \in Builds, OpenTemp(b) PROVE TypeOK'
  <2>1. [commit |-> rev[b], whole |-> FALSE] \in Contents
    BY DEF Contents
  <2>2. temp' \in [Keys -> Contents]
    BY <1>6, <2>1 DEF OpenTemp
  <2> QED
    BY <1>6, <2>2 DEF OpenTemp
<1>7. ASSUME NEW b \in Builds, WriteTemp(b) PROVE TypeOK'
  <2>1. PICK w \in BOOLEAN : LET written == [commit |-> rev[b], whole |-> w]
       IN  IF renamed[b]
           THEN archive' = [archive EXCEPT ![Key(b)] = written] /\ UNCHANGED temp
           ELSE temp' = [temp EXCEPT ![Key(b)] = written] /\ UNCHANGED archive
    BY <1>7 DEF WriteTemp
  <2>2. [commit |-> rev[b], whole |-> w] \in Contents
    BY DEF Contents
  <2> QED
    BY <1>7, <2>1, <2>2 DEF WriteTemp
<1>8. ASSUME NEW b \in Builds, Rename(b) PROVE TypeOK'
  <2>1. Key(b) \in Keys
    BY <1>8, KeyType DEF Rename, ArgumentsChecked
  <2>2. None \in Contents
    BY DEF None, Contents
  <2>3. temp' \in [Keys -> Contents] /\ archive' \in [Keys -> Contents]
    BY <1>8, <2>1, <2>2 DEF Rename
  <2>4. renamed' \in [Builds -> BOOLEAN]
    BY <1>8 DEF Rename
  <2> QED
    BY <1>8, <2>3, <2>4 DEF Rename
<1>9. ASSUME NEW b \in Builds, Extract(b) PROVE TypeOK'
  <2>1. Key(b) \in Keys
    BY <1>9, KeyType DEF Extract, ArgumentsChecked
  <2>2. archive[Key(b)].commit \in Commits \cup {Absent}
    BY <2>1 DEF Contents
  <2> QED
    BY <1>9, <2>2 DEF Extract
<1>10. ASSUME NEW b \in Builds, Kill(b) PROVE TypeOK'
  BY <1>10 DEF Kill
<1>11. ASSUME NEW n \in Branches, Push(n) PROVE TypeOK'
  BY <1>11 DEF Push
<1> QED
  BY <1>1, <1>2, <1>3, <1>4, <1>5, <1>6, <1>7, <1>8, <1>9, <1>10, <1>11 DEF Next, Step

-----------------------------------------------------------------------------
\* A step keeps ArgumentsChecked.
LEMMA ArgumentsNext ==
  ASSUME TypeOK, ArgumentsChecked, [Next]_vars
  PROVE  ArgumentsChecked'
<1> SUFFICES ASSUME NEW b \in Builds, pc'[b] \notin {"idle", "badArguments"}
             PROVE  ~BadArguments(opt'[b])
  BY DEF ArgumentsChecked, BadArguments
<1>1. CASE pc[b] \notin {"idle", "badArguments"}
  BY <1>1, Fixed DEF ArgumentsChecked
<1>2. CASE pc[b] \in {"idle", "badArguments"}
  <2>1. Start(b)
    BY <1>2 DEF Next, Step, vars, TypeOK, Goto, Start, Check, Fetch, RevParse, OpenTemp,
                WriteTemp, Rename, Extract, Kill, Push, Running
  <2> QED
    BY <2>1, Fixed DEF Start, Goto, TypeOK
<1> QED
  BY <1>1, <1>2

\* The lock lets one build run, after a step too.
LEMMA OneRunsNext ==
  ASSUME TypeOK, OneRuns, [Next]_vars
  PROVE  OneRuns'
<1> SUFFICES ASSUME exclusive, NEW q \in Builds, NEW b \in Builds,
                    pc'[q] \in Running, pc'[b] \in Running
             PROVE  q = b
  BY Fixed DEF OneRuns
<1>1. CASE \E r \in Builds : Start(r)
  <2> PICK r \in Builds : Start(r)
    BY <1>1
  <2>1. \A x \in Builds : pc[x] \notin Running
    BY DEF Start, MayStart
  <2>2. \A x \in Builds \ {r} : pc'[x] = pc[x]
    BY DEF Start, Goto, TypeOK
  <2> QED
    BY <2>1, <2>2
<1>2. CASE ~\E r \in Builds : Start(r)
  <2>1. pc' = pc \/ \E r \in Builds : pc[r] \in Running
                        /\ \A x \in Builds \ {r} : pc'[x] = pc[x]
    <3>1. ASSUME NEW r \in Builds, Check(r) \/ Fetch(r) \/ RevParse(r) \/ OpenTemp(r)
                          \/ WriteTemp(r) \/ Rename(r) \/ Extract(r) \/ Kill(r)
          PROVE  pc[r] \in Running /\ \A x \in Builds \ {r} : pc'[x] = pc[x]
      BY <3>1 DEF TypeOK, Goto, Check, Fetch, RevParse, OpenTemp, WriteTemp, Rename,
                  Extract, Kill, Running
    <3> QED
      BY <1>2, <3>1 DEF Next, Step, vars, Push
  <2> QED
    BY <2>1 DEF OneRuns
<1> QED
  BY <1>1, <1>2

\* Where one build runs at a time, a step leaves the others where they are.
LEMMA OthersStay ==
  ASSUME TypeOK, OneRuns, exclusive, NEW b \in Builds, pc[b] \in Running,
         NEW q \in Builds, q # b
  PROVE  pc[q] \notin Running
BY DEF OneRuns

\* A step keeps OwnTempIsWhole.
LEMMA OwnTempNext ==
  ASSUME TypeOK, ArgumentsChecked, OneRuns, OwnTempIsWhole, [Next]_vars
  PROVE  OwnTempIsWhole'
<1> SUFFICES ASSUME exclusive, NEW q \in Builds
             PROVE  /\ pc'[q] = "write" => ~renamed'[q]
                    /\ pc'[q] = "rename" => temp'[Key(q)].whole
  BY Fixed DEF OwnTempIsWhole
<1> USE DEF OwnTempIsWhole, Goto, Running
<1>1. CASE UNCHANGED <<pc, temp, renamed>>
  BY <1>1
<1>2. ASSUME NEW b \in Builds, Start(b) \/ Check(b) \/ Fetch(b) \/ RevParse(b)
                                \/ Extract(b) \/ Kill(b)
      PROVE  /\ pc'[q] = "write" => ~renamed'[q]
             /\ pc'[q] = "rename" => temp'[Key(q)].whole
  BY <1>2 DEF Start, Check, Fetch, RevParse, Extract, Kill, files, TypeOK
<1>3. ASSUME NEW b \in Builds, OpenTemp(b)
      PROVE  /\ pc'[q] = "write" => ~renamed'[q]
             /\ pc'[q] = "rename" => temp'[Key(q)].whole
  <2>1. q # b => pc'[q] \notin {"write", "rename"}
    BY <1>3, OthersStay DEF OpenTemp, TypeOK
  <2> QED
    BY <1>3, <2>1 DEF OpenTemp, TypeOK
<1>4. ASSUME NEW b \in Builds, WriteTemp(b)
      PROVE  /\ pc'[q] = "write" => ~renamed'[q]
             /\ pc'[q] = "rename" => temp'[Key(q)].whole
  <2>1. q # b => pc'[q] \notin {"write", "rename"}
    BY <1>4, OthersStay DEF WriteTemp, TypeOK
  <2>2. ~Contended(b)
    BY <1>4, OthersStay DEF WriteTemp, Contended
  <2>3. temp' = [temp EXCEPT ![Key(b)] = [commit |-> rev[b], whole |-> TRUE]]
    BY <1>4, <2>2 DEF WriteTemp
  <2>4. Key(b) \in Keys
    BY <1>4, KeyType DEF WriteTemp, ArgumentsChecked
  <2> QED
    BY <1>4, <2>1, <2>3, <2>4 DEF WriteTemp, TypeOK
<1>5. ASSUME NEW b \in Builds, Rename(b)
      PROVE  /\ pc'[q] = "write" => ~renamed'[q]
             /\ pc'[q] = "rename" => temp'[Key(q)].whole
  <2>1. q # b => pc'[q] \notin {"write", "rename"}
    BY <1>5, OthersStay DEF Rename, TypeOK
  <2> QED
    BY <1>5, <2>1 DEF Rename, TypeOK
<1> QED
  BY <1>1, <1>2, <1>3, <1>4, <1>5 DEF Next, Step, vars, files, Push

\* A step keeps the cached archives whole.
LEMMA WholeNext ==
  ASSUME TypeOK, ArgumentsChecked, OneRuns, OwnTempIsWhole, CachedArchivesWhole,
         [Next]_vars
  PROVE  CachedArchivesWhole'
<1> SUFFICES ASSUME exclusive, NEW k \in Keys, archive'[k] # None
             PROVE  archive'[k].whole
  BY Fixed DEF CachedArchivesWhole
<1>1. CASE UNCHANGED archive
  BY <1>1 DEF CachedArchivesWhole
<1>2. ASSUME NEW b \in Builds, Rename(b) PROVE archive'[k].whole
  <2>1. temp[Key(b)].whole
    BY <1>2 DEF Rename, OwnTempIsWhole
  <2>2. archive'[k] \in {archive[k], temp[Key(b)]}
    BY <1>2 DEF Rename, TypeOK, files
  <2> QED
    BY <2>1, <2>2 DEF CachedArchivesWhole
<1>3. ASSUME NEW b \in Builds, WriteTemp(b) PROVE UNCHANGED archive
  BY <1>3 DEF WriteTemp, OwnTempIsWhole
<1> QED
  BY <1>1, <1>2, <1>3 DEF Next, Step, vars, files, Start, Check, Fetch, RevParse,
     OpenTemp, Extract, Kill, Push

-----------------------------------------------------------------------------
\* A step keeps FetchHeadIsRef.
LEMMA FetchHeadNext ==
  ASSUME TypeOK, OneRuns, FetchHeadIsRef, [Next]_vars
  PROVE  FetchHeadIsRef'
<1> SUFFICES ASSUME NEW b \in Builds, exclusive, pc'[b] = "revParse", FallsBack(b),
                    opt[b].fetchRef = Absent, opt[b].ref \in Commits
             PROVE  fetchHead'[Shared] = opt[b].ref
  BY Fixed DEF FetchHeadIsRef, FallsBack
<1>1. CASE UNCHANGED <<pc, fetchHead>>
  BY <1>1 DEF FetchHeadIsRef
<1>2. ASSUME NEW r \in Builds, Fetch(r) PROVE fetchHead'[Shared] = opt[b].ref
  <2>1. r = b
    BY <1>2, OthersStay DEF Fetch, Goto, TypeOK, Running
  <2>2. Dir(b) = Shared /\ RefToFetch(b) = opt[b].ref
    BY DEF FallsBack, UsesHead, Dir, RefToFetch
  <2>3. opt[b].ref \notin Branches
    BY NamesAssumption
  <2>4. fetchHead' = [fetchHead EXCEPT ![Shared] = opt[b].ref]
    BY <1>2, <2>1, <2>2, <2>3 DEF Fetch, Goto, TypeOK
  <2> QED
    BY <2>4 DEF TypeOK, Dirs
<1>3. ASSUME NEW r \in Builds,
             Start(r) \/ Check(r) \/ RevParse(r) \/ OpenTemp(r) \/ WriteTemp(r)
               \/ Rename(r) \/ Extract(r) \/ Kill(r)
      PROVE  pc[b] = "revParse" /\ fetchHead' = fetchHead
  BY <1>3 DEF Start, Check, RevParse, OpenTemp, WriteTemp, Rename, Extract, Kill, git,
     Goto, TypeOK
<1> QED
  BY <1>1, <1>2, <1>3 DEF Next, Step, vars, git, Push, FetchHeadIsRef

\* The builds that share the archive of a sound build are builds of its REF...
LEMMA SameRef ==
  ASSUME NEW b \in Builds, Sound(b), NEW q \in Builds, Key(q) = Key(b)
  PROVE  ~UsesHead(q) /\ opt[q].ref = opt[b].ref
<1>1. ~UsesHead(q)
  BY DEF Sound, Poisons
<1> QED
  BY <1>1 DEF Sound, Key

\* ...and what they parse is REF, when they go on.
LEMMA ParsedIsRef ==
  ASSUME TypeOK, FetchHeadIsRef, NEW b \in Builds, Sound(b),
         NEW q \in Builds, Key(q) = Key(b), RevParse(q), pc'[q] = "open"
  PROVE  rev'[q] = opt[b].ref
<1>1. ~UsesHead(q) /\ opt[q].ref = opt[b].ref
  BY SameRef
<1>2. rev'[q] = Parsed(q)
  BY DEF RevParse, TypeOK
<1>3. CASE opt[q].useHead
  <2>1. FallsBack(q) /\ opt[q].fetchRef = Absent /\ exclusive /\ opt[q].ref \in Commits
    BY <1>1, <1>3 DEF Sound, Poisons, FallsBack, UsesHead
  <2>2. Dir(q) = Shared
    BY <1>1 DEF Dir
  <2> QED
    BY <1>1, <1>2, <1>3, <2>1, <2>2 DEF RevParse, FetchHeadIsRef, Parsed
<1>4. CASE ~opt[q].useHead
  BY <1>1, <1>2, <1>4 DEF RevParse, Goto, TypeOK
<1> QED
  BY <1>3, <1>4

\* A step keeps RevIsRef.
LEMMA RevNext ==
  ASSUME TypeOK, FetchHeadIsRef, RevIsRef, [Next]_vars
  PROVE  RevIsRef'
<1> SUFFICES ASSUME NEW b \in Builds, NEW q \in Builds, Sound(b), Key(q) = Key(b),
                    pc'[q] \in {"open", "write"}
             PROVE  rev'[q] = opt[b].ref
  BY Fixed DEF RevIsRef
<1>1. CASE pc[q] \in {"open", "write"}
  <2>1. rev'[q] = rev[q]
    BY <1>1 DEF Next, Step, vars, results, Start, Check, Fetch, RevParse, OpenTemp,
       WriteTemp, Rename, Extract, Kill, Push, TypeOK
  <2> QED
    BY <1>1, <2>1 DEF RevIsRef
<1>2. CASE pc[q] \notin {"open", "write"}
  <2>1. RevParse(q)
    BY <1>2 DEF Next, Step, vars, Goto, Start, Check, Fetch, RevParse, OpenTemp,
       WriteTemp, Rename, Extract, Kill, Push, TypeOK
  <2>2. pc'[q] = "open"
    BY <2>1 DEF RevParse, Goto, TypeOK
  <2> QED
    BY <2>1, <2>2, ParsedIsRef
<1> QED
  BY <1>1, <1>2

\* A step keeps FilesAreRef.
LEMMA FilesNext ==
  ASSUME TypeOK, ArgumentsChecked, RevIsRef, FilesAreRef, [Next]_vars
  PROVE  FilesAreRef'
<1> SUFFICES ASSUME NEW b \in Builds, Sound(b)
             PROVE  /\ temp'[Key(b)] = None \/ temp'[Key(b)].commit = opt[b].ref
                    /\ archive'[Key(b)] = None \/ archive'[Key(b)].commit = opt[b].ref
  BY Fixed DEF FilesAreRef
<1> DEFINE Holds(c) == c = None \/ c.commit = opt[b].ref
<1>0. Holds(None) /\ Holds(temp[Key(b)]) /\ Holds(archive[Key(b)])
  BY DEF FilesAreRef
<1>1. Key(b) \in Keys
  BY OptType DEF Sound, Key, Keys
<1>2. ASSUME NEW q \in Builds, OpenTemp(q)
      PROVE  Holds(temp'[Key(b)]) /\ Holds(archive'[Key(b)])
  <2>1. CASE Key(q) = Key(b)
    BY <1>0, <1>1, <1>2, <2>1 DEF OpenTemp, RevIsRef, TypeOK
  <2>2. CASE Key(q) # Key(b)
    BY <1>0, <1>1, <1>2, <2>2 DEF OpenTemp, TypeOK
  <2> QED
    BY <2>1, <2>2
<1>3. ASSUME NEW q \in Builds, WriteTemp(q)
      PROVE  Holds(temp'[Key(b)]) /\ Holds(archive'[Key(b)])
  <2>1. CASE Key(q) = Key(b)
    <3>1. rev[q] = opt[b].ref
      BY <1>3, <2>1 DEF WriteTemp, RevIsRef
    <3>2. PICK w \in BOOLEAN :
            LET written == [commit |-> rev[q], whole |-> w]
            IN  IF renamed[q]
                THEN archive' = [archive EXCEPT ![Key(b)] = written] /\ UNCHANGED temp
                ELSE temp' = [temp EXCEPT ![Key(b)] = written] /\ UNCHANGED archive
      BY <1>3, <2>1 DEF WriteTemp
    <3>3. Holds([commit |-> rev[q], whole |-> w])
      BY <3>1
    <3> QED
      BY <1>0, <1>1, <3>2, <3>3 DEF TypeOK
  <2>2. CASE Key(q) # Key(b)
    BY <1>0, <1>1, <1>3, <2>2 DEF WriteTemp, TypeOK
  <2> QED
    BY <2>1, <2>2
<1>4. ASSUME NEW q \in Builds, Rename(q)
      PROVE  Holds(temp'[Key(b)]) /\ Holds(archive'[Key(b)])
  <2>1. CASE Key(q) = Key(b)
    BY <1>0, <1>1, <1>4, <2>1 DEF Rename, TypeOK, files
  <2>2. CASE Key(q) # Key(b)
    BY <1>0, <1>1, <1>4, <2>2 DEF Rename, TypeOK, files
  <2> QED
    BY <2>1, <2>2
<1>5. CASE UNCHANGED <<temp, archive>>
  BY <1>0, <1>5
<1> QED
  BY <1>2, <1>3, <1>4, <1>5 DEF Next, Step, vars, files, Start, Check, Fetch, RevParse,
     Extract, Kill, Push

\* A step keeps RefBuildsGetRef.
LEMMA RefNext ==
  ASSUME TypeOK, ArgumentsChecked, FilesAreRef, RefBuildsGetRef, [Next]_vars
  PROVE  RefBuildsGetRef'
<1> SUFFICES ASSUME NEW b \in Builds, pc'[b] = "done", ~UsesHead(b),
                    ~\E q \in Builds : Poisons(q, b)
             PROVE  source'[b] = opt[b].ref
  <2>1. \A b \in Builds : UsesHead(b)' = UsesHead(b)
    BY Fixed DEF UsesHead
  <2>2. \A b, q \in Builds : Poisons(q, b)' = Poisons(q, b)
    BY Fixed, <2>1 DEF Poisons, FallsBack
  <2> QED
    BY Fixed, <2>1, <2>2 DEF RefBuildsGetRef
<1>1. CASE pc[b] = "done"
  <2>1. source'[b] = source[b]
    BY <1>1 DEF Next, Step, vars, results, Start, Check, Fetch, RevParse, OpenTemp,
       WriteTemp, Rename, Extract, Kill, Push, TypeOK
  <2> QED
    BY <1>1, <2>1 DEF RefBuildsGetRef
<1>2. CASE pc[b] # "done"
  <2>1. Extract(b)
    BY <1>2 DEF Next, Step, vars, Goto, Start, Check, Fetch, RevParse, OpenTemp,
       WriteTemp, Rename, Extract, Kill, Push, TypeOK
  <2>2. archive[Key(b)].whole /\ source'[b] = archive[Key(b)].commit
    BY <2>1 DEF Extract, Goto, TypeOK
  <2>3. Sound(b)
    BY <2>1 DEF Extract, ArgumentsChecked, Sound, BadArguments, UsesHead
  <2> QED
    BY <2>2, <2>3 DEF FilesAreRef, None
<1> QED
  BY <1>1, <1>2

\* What a HEAD build hands on, after a step.
LEMMA HeadNext ==
  ASSUME TypeOK, ArgumentsChecked, OneRuns, OwnTempIsWhole, HeadIsStaged, [Next]_vars
  PROVE  HeadIsStaged'
<1> DEFINE Staged(b) ==
      /\ pc[b] \in {"open", "write", "rename", "extract", "done"} => version[b] # Absent
      /\ pc[b] \in {"open", "write"} => version[b] = rev[b]
      /\ pc[b] = "rename" => temp[Key(b)].commit = version[b]
      /\ pc[b] = "extract" => archive[Key(b)].commit = version[b]
      /\ pc[b] = "done" => source[b] = version[b]
<1> SUFFICES ASSUME exclusive, NEW q \in Builds, UsesHead(q), ~opt[q].noDownloads
             PROVE  Staged(q)'
  BY Fixed DEF HeadIsStaged, UsesHead
<1>1. Staged(q) /\ Key(q)' = Key(q)
  BY Fixed DEF HeadIsStaged
<1>2. CASE UNCHANGED <<pc, temp, archive, rev, version, source>>
  BY <1>1, <1>2
<1>3. ASSUME NEW b \in Builds, Step(b) \/ Kill(b), q # b PROVE Staged(q)'
  <2>1. pc[q] \notin Running
    BY <1>3, OthersStay DEF Step, Start, MayStart, Check, Fetch, RevParse, OpenTemp,
       WriteTemp, Rename, Extract, Kill, Running
  <2>2. pc'[q] = pc[q] /\ version'[q] = version[q] /\ source'[q] = source[q]
    BY <1>3 DEF Step, Start, Check, Fetch, RevParse, OpenTemp, WriteTemp, Rename, Extract,
       Kill, Goto, TypeOK, results
  <2> QED
    BY <1>1, <2>1, <2>2 DEF Running
<1>4. CASE Start(q) \/ Check(q) \/ Fetch(q) \/ Kill(q)
  BY <1>4 DEF Start, Check, Fetch, Kill, Goto, TypeOK
<1>5. CASE RevParse(q)
  <2>1. opt[q].useHead
    BY DEF UsesHead
  <2>2. version'[q] = Parsed(q) /\ rev'[q] = Parsed(q)
    BY <1>5, <2>1 DEF RevParse, TypeOK
  <2>3. (pc'[q] = "open" /\ Parsed(q) # Absent) \/ pc'[q] \in Failures
    BY <1>5, <2>1 DEF RevParse, Goto, TypeOK, Failures
  <2> QED
    BY <2>2, <2>3 DEF Failures
<1>6. CASE OpenTemp(q)
  BY <1>1, <1>6 DEF OpenTemp, Goto, TypeOK, results
<1>7. CASE WriteTemp(q)
  <2>1. pc[q] = "write" /\ Key(q) \in Keys /\ ~renamed[q]
    BY <1>7, KeyType DEF WriteTemp, ArgumentsChecked, OwnTempIsWhole
  <2>2. temp'[Key(q)].commit = rev[q]
    BY <1>7, <2>1 DEF WriteTemp, TypeOK
  <2> QED
    BY <1>1, <1>7, <2>1, <2>2 DEF WriteTemp, Goto, TypeOK, results
<1>8. CASE Rename(q)
  <2>1. pc[q] = "rename" /\ Key(q) \in Keys
    BY <1>8, KeyType DEF Rename, ArgumentsChecked
  <2> QED
    BY <1>1, <1>8, <2>1 DEF Rename, Goto, TypeOK, results
<1>9. CASE Extract(q)
  BY <1>1, <1>9 DEF Extract, Goto, TypeOK
<1> HIDE DEF Staged
<1>10. \A b \in Builds : Step(b) \/ Kill(b) => Staged(q)'
  BY <1>3, <1>4, <1>5, <1>6, <1>7, <1>8, <1>9 DEF Step
<1>11. (\E n \in Branches : Push(n)) \/ UNCHANGED vars
         => UNCHANGED <<pc, temp, archive, rev, version, source>>
  BY DEF Push, vars, files, results
<1> QED
  BY <1>2, <1>10, <1>11 DEF Next

-----------------------------------------------------------------------------
\* The invariant holds at first...
LEMMA InvInit == Init => IInv
<1> SUFFICES ASSUME Init PROVE IInv
  OBVIOUS
<1>1. FilesAreRef
  <2>1. \A b \in Builds : opt[b] \in Options
    BY OfferedAssumption DEF Init
  <2>2. \A b \in Builds : Sound(b) => Key(b) \in Keys
    BY <2>1 DEF Sound, Key, Keys, Options
  <2> QED
    BY <2>2 DEF Init, FilesAreRef
<1> QED
  BY <1>1, TypeInit DEF Init, IInv, ArgumentsChecked, OneRuns, Running, OwnTempIsWhole,
     CachedArchivesWhole, FetchHeadIsRef, RevIsRef, RefBuildsGetRef

\* ...every step keeps it...
LEMMA InvNext == IInv /\ [Next]_vars => IInv'
BY TypeNext, ArgumentsNext, OneRunsNext, OwnTempNext, WholeNext, FetchHeadNext, RevNext,
   FilesNext, RefNext DEF IInv

\* ...and so it holds throughout.
LEMMA Invariance == Spec => []IInv
BY InvInit, InvNext, PTL DEF Spec

-----------------------------------------------------------------------------
\* Every variable keeps its type; the commit a build hands on is a commit.
THEOREM TypeCorrect == Spec => []TypeOK
<1>1. IInv => TypeOK
  BY DEF IInv
<1> QED
  BY <1>1, Invariance, PTL

\* A build of REF gets REF's files unless its archive name is poisoned, for any
\* number of builds, with or without a common lock.
THEOREM RefIsBuilt == Spec => []RefBuildsGetRef
<1>1. IInv => RefBuildsGetRef
  BY DEF IInv
<1> QED
  BY <1>1, Invariance, PTL

\* Under the lock, no killed build leaves a torn archive in the cache.
THEOREM ArchivesAreWhole == Spec => []CachedArchivesWhole
<1>1. IInv => CachedArchivesWhole
  BY DEF IInv
<1> QED
  BY <1>1, Invariance, PTL

\* Under the lock, a HEAD build that downloads reports the commit that it builds.
THEOREM HeadVersionIsBuilt == Spec => []HeadVersionIsSource
<1>1. Init => HeadIsStaged
  BY DEF Init, HeadIsStaged
<1>2. IInv /\ HeadIsStaged /\ [Next]_vars => HeadIsStaged'
  BY HeadNext DEF IInv
<1>3. HeadIsStaged => HeadVersionIsSource
  BY DEF HeadIsStaged, HeadVersionIsSource
<1> QED
  BY <1>1, <1>2, <1>3, Invariance, PTL DEF Spec

-----------------------------------------------------------------------------
\* The overlays.
Overlays == DOMAIN SPECS

\* What is written for each configuration: those, and the generated abseil.
Late == Overlays \cup {"abseil-cpp"}

\* The names of the files of a list, or of the overlays of one.
Names(s) == {x.name : x \in ToSet(s)}

\* What puts files into the tree: a unit, or the portfile's own settings.
Owners == Late \cup {"src", "build", "buildtools", "rnnoise", "settings"}

\* The files that an owner has in the tree once it is done with.
AbslNames == {"absl.gni", "BUILD.gn"} \cup LabelPaths
FilesOf(o) ==
  CASE o = "src" -> {<<"src", "all">>}
    [] o = "build" -> RepoFiles("build") \ {Dse}
    [] o = "buildtools" -> RepoFiles("buildtools")
    [] o = "rnnoise" -> {"rnnoise"} \X ToSet(RnnoiseFiles)
    [] o = "settings" -> OwnFiles
    [] o = "abseil-cpp" -> {"abseil-cpp"} \X AbslNames
    [] OTHER -> {o} \X Names(SPECS[o].files)

\* The owners that write their files before GN reads the tree next, for a run at
\* place p with the queue q and the unit u.
AfterPre == {"abseil-cpp"} \cup Names(PostAbsl)
Remaining(p, q, u) ==
  CASE p \in {"stage", "unstaged"} -> ToSet(q) \cup {"rnnoise", "settings"} \cup Late
    [] p = "blobs" -> {"rnnoise", "settings"} \cup Late
    [] p = "settings" -> {"settings"} \cup Late
    [] p = "probe" -> Late
    [] p \in {"generate", "write"} /\ u # "abseil-cpp" ->
         Names(q) \cup (IF Head(q).phase = "pre_absl" THEN AfterPre ELSE {})
    [] p \in {"absl", "plan", "exports"} \/ (p = "write" /\ u = "abseil-cpp") -> AfterPre
    [] p \in {"gn", "install"} -> {}
    [] OTHER -> Owners \ {"src"}

\* The owners that a run has not written yet.
ToCome == Remaining(place, queue, unit)

\* A run is about to build a configuration.
Configuring == place \in {"generate", "write", "absl", "plan", "exports", "gn"}

\* What a place says about the queue and the unit that is written.
QueueInv ==
  /\ place = "stage" => queue \in {Repos, <<"buildtools">>, <<>>}
  /\ place = "unstaged" => queue \in {Repos, <<"buildtools">>}
  /\ place = "generate" => queue # <<>>
  /\ place \in {"generate", "write"} =>
       \E p \in {"pre_absl", "post_absl"} : ToSet(queue) \subseteq ToSet(InPhase(p))
  /\ place = "write" => \/ unit = "abseil-cpp" /\ queue = <<>>
                        \/ queue # <<>> /\ unit = Head(queue).name
  /\ place \in {"absl", "plan", "exports", "gn", "install"} => queue = <<>>
  /\ place # "write" => unit = NONE

\* The files of an overlay or of abseil.
NamesOf(u) == IF u = "abseil-cpp" THEN AbslNames ELSE Names(SPECS[u].files)

\* All owners but those still to come have their files in the tree, and so have the
\* ones that are being written all but the files of theirs that are still to come.
TreeInv ==
  /\ ~Resting => dotgn # NONE
  /\ dotgn # NONE => \A o \in Owners \ ToCome : FilesOf(o) \subseteq DOMAIN tree
  /\ place = "blobs" =>
       \A n \in ToSet(RnnoiseFiles) \ ToSet(queue) : <<"rnnoise", n>> \in DOMAIN tree
  /\ place = "write" =>
       \A n \in NamesOf(unit) \ Names(left) : <<unit, n>> \in DOMAIN tree

\* After ScriptExecutable .gn is no longer the one of upstream.
DotgnInv ==
  place \in {"settings", "probe", "install"} \/ Configuring => dotgn \in {"patched", "torn"}

\* From the staging of the build repository until AdjustDse looks for it, the
\* lifetime-dse block is there.
DseInv ==
  \/ place \in {"blobs", "settings", "probe"}
  \/ place \in {"stage", "unstaged"} /\ "build" \notin ToSet(queue)
  => Dse \in DOMAIN tree

\* The owners whose files link a library.
Linkers == {"libsrtp", "libyuv", "libvpx", "opus", "libaom", "jsoncpp", "pffft", "abseil-cpp"}

\* Only these do, and each that is not to be written again does so for the
\* configuration of the run.
LinkInv ==
  \A f \in DOMAIN tree : tree[f].libs # {} =>
    /\ f[1] \in Linkers
    /\ f[1] \in ToCome \ {unit} \/ tree[f].lib = Configs[config]

\* The assembler is in its file, or the file is still to be written.
Assemble == <<"nasm", "nasm_assemble.gni">>
NasmInv ==
  \/ "nasm" \in ToCome \ {unit}
  \/ unit = "nasm" /\ "nasm_assemble.gni" \in Names(left)
  \/ Assemble \in DOMAIN tree /\ tree[Assemble].tool

\* The exports and the libraries of the generated abseil are those of the abseil
\* that is installed, or are still to be written.
AbslBuild == <<"abseil-cpp", "BUILD.gn">>
AbslInv ==
  \/ "abseil-cpp" \in ToCome \ {unit}
  \/ /\ archives = Static(exports)
     /\ \/ unit = "abseil-cpp" /\ "BUILD.gn" \in Names(left)
        \/ AbslBuild \in DOMAIN tree /\ tree[AbslBuild].libs = Static(exports)

\* The configurations are built one after the other.
InstInv ==
  /\ Configuring /\ config = 2 => "debug" \in installed
  /\ place = "install" => installed = {"debug", "release"}

\* The inductive invariant.
WebrtcInv == /\ WebrtcTypeOK /\ QueueInv /\ TreeInv /\ DotgnInv /\ DseInv /\ LinkInv
             /\ NasmInv /\ AbslInv /\ InstInv /\ ExportsAgree /\ RebuildsSucceed

-----------------------------------------------------------------------------
\* The elements of a sequence.
LEMMA ToSetType ==
  ASSUME NEW S, NEW s \in Seq(S)
  PROVE  /\ ToSet(s) \subseteq S /\ s \in Seq(ToSet(s))
         /\ ToSet(s) = {} <=> s = <<>>
<1>1. s \in [1..Len(s) -> S] /\ DOMAIN s = 1..Len(s) /\ Len(s) \in Nat
  BY LenProperties
<1>2. s \in [1..Len(s) -> ToSet(s)]
  BY <1>1 DEF ToSet
<1>3. s \in Seq(ToSet(s))
  BY <1>1, <1>2, SeqDef
<1>4. ToSet(s) \subseteq S
  BY <1>1 DEF ToSet
<1>5. s # <<>> => s[1] \in ToSet(s)
  BY <1>1, EmptySeq DEF ToSet
<1>6. ToSet(<<>>) = {}
  BY DEF ToSet
<1> QED
  BY <1>3, <1>4, <1>5, <1>6

\* What is still to come once the first element has been dealt with.
LEMMA ToSetTail ==
  ASSUME NEW S, NEW s \in Seq(S), s # <<>>
  PROVE  /\ Head(s) \in S /\ Tail(s) \in Seq(S)
         /\ ToSet(s) = {Head(s)} \cup ToSet(Tail(s))
<1>1. /\ Len(s) \in Nat /\ Len(s) >= 1 /\ DOMAIN s = 1..Len(s)
      /\ Head(s) = s[1] /\ Head(s) \in S
  BY LenProperties, EmptySeq
<1>2. /\ Tail(s) \in Seq(S) /\ Len(Tail(s)) = Len(s) - 1
      /\ \A i \in 1..Len(Tail(s)) : Tail(s)[i] = s[i + 1]
  BY HeadTailProperties
<1>3. DOMAIN Tail(s) = 1..(Len(s) - 1)
  BY <1>2, LenProperties
<1>4. ToSet(s) \subseteq {Head(s)} \cup ToSet(Tail(s))
  <2> SUFFICES ASSUME NEW i \in 1..Len(s), s[i] # s[1]
               PROVE  s[i] \in ToSet(Tail(s))
    BY <1>1 DEF ToSet
  <2>1. i - 1 \in DOMAIN Tail(s) /\ i - 1 \in 1..Len(Tail(s)) /\ (i - 1) + 1 = i
    BY <1>1, <1>2, <1>3
  <2>2. Tail(s)[i - 1] = s[i]
    BY <1>2, <2>1
  <2> QED
    BY <2>1, <2>2 DEF ToSet
<1>5. ToSet(Tail(s)) \subseteq ToSet(s)
  <2> SUFFICES ASSUME NEW i \in 1..(Len(s) - 1)
               PROVE  Tail(s)[i] \in ToSet(s)
    BY <1>3 DEF ToSet
  <2>1. i + 1 \in DOMAIN s /\ Tail(s)[i] = s[i + 1]
    BY <1>1, <1>2
  <2> QED
    BY <2>1 DEF ToSet
<1>6. Head(s) \in ToSet(s)
  BY <1>1 DEF ToSet
<1> QED
  BY <1>1, <1>2, <1>4, <1>5, <1>6

\* Two lists of files one after the other.
LEMMA ToSetConcat ==
  ASSUME NEW S, NEW s \in Seq(S), NEW t \in Seq(S)
  PROVE  s \o t \in Seq(S) /\ ToSet(s \o t) = ToSet(s) \cup ToSet(t)
<1>1. /\ s \o t \in Seq(S) /\ Len(s \o t) = Len(s) + Len(t)
      /\ \A i \in 1..(Len(s) + Len(t)) :
           (s \o t)[i] = IF i <= Len(s) THEN s[i] ELSE t[i - Len(s)]
  BY ConcatProperties
<1>2. /\ Len(s) \in Nat /\ Len(t) \in Nat
      /\ DOMAIN s = 1..Len(s) /\ DOMAIN t = 1..Len(t)
      /\ DOMAIN (s \o t) = 1..(Len(s) + Len(t))
  BY <1>1, LenProperties
<1> DEFINE st == s \o t
<1> HIDE DEF st
<1>3. ToSet(st) \subseteq ToSet(s) \cup ToSet(t)
  <2> SUFFICES ASSUME NEW i \in 1..(Len(s) + Len(t))
               PROVE  st[i] \in ToSet(s) \cup ToSet(t)
    BY <1>2 DEF ToSet, st
  <2>1. CASE i <= Len(s)
    BY <1>1, <1>2, <2>1 DEF ToSet, st
  <2>2. CASE ~(i <= Len(s))
    <3>1. i - Len(s) \in DOMAIN t /\ st[i] = t[i - Len(s)]
      BY <1>1, <1>2, <2>2 DEF st
    <3> QED
      BY <3>1 DEF ToSet
  <2> QED
    BY <2>1, <2>2
<1>4. ToSet(s) \subseteq ToSet(st)
  <2> SUFFICES ASSUME NEW i \in 1..Len(s)
               PROVE  s[i] \in ToSet(st)
    BY <1>2 DEF ToSet
  <2>1. i \in DOMAIN st /\ st[i] = s[i]
    BY <1>1, <1>2 DEF st
  <2> QED
    BY <2>1 DEF ToSet
<1>5. ToSet(t) \subseteq ToSet(st)
  <2> SUFFICES ASSUME NEW i \in 1..Len(t)
               PROVE  t[i] \in ToSet(st)
    BY <1>2 DEF ToSet
  <2>1. Len(s) + i \in DOMAIN st /\ st[Len(s) + i] = t[i]
    <3>1. /\ Len(s) + i \in 1..(Len(s) + Len(t))
          /\ ~(Len(s) + i <= Len(s)) /\ (Len(s) + i) - Len(s) = i
      BY <1>2
    <3> QED
      BY <1>1, <1>2, <3>1 DEF st
  <2> QED
    BY <2>1 DEF ToSet
<1>6. ToSet(st) = ToSet(s) \cup ToSet(t)
  BY <1>3, <1>4, <1>5
<1> QED
  BY <1>1, <1>6 DEF st

-----------------------------------------------------------------------------
\* Where a unit is: no directory that is removed as a whole holds another unit.
Cleared == (Late \ {"third_party_root"}) \cup {"build", "buildtools", "rnnoise"}
Units == Late \cup {"src", "build", "buildtools", "rnnoise", "compiler-rt"}

\* The overlays by name.
LEMMA OverlayNames ==
  Overlays = {"libsrtp", "opus", "libvpx", "libyuv", "libaom", "jsoncpp", "dav1d", "llvm_libc",
              "protobuf", "pffft", "alsa", "pulseaudio", "third_party_root", "testing",
              "googletest", "catapult", "tools", "nasm"}
BY DEF Overlays, SPECS

\* Most overlays replace a library of third_party.
LEMMA ThirdPartyRoots ==
  /\ SPECS.libsrtp.root = <<"third_party", "libsrtp">>
  /\ SPECS.opus.root = <<"third_party", "opus">>
  /\ SPECS.libvpx.root = <<"third_party", "libvpx">>
  /\ SPECS.libyuv.root = <<"third_party", "libyuv">>
  /\ SPECS.libaom.root = <<"third_party", "libaom">>
  /\ SPECS.jsoncpp.root = <<"third_party", "jsoncpp">>
  /\ SPECS.dav1d.root = <<"third_party", "dav1d">>
  /\ SPECS.llvm_libc.root = <<"third_party", "llvm-libc">>
  /\ SPECS.protobuf.root = <<"third_party", "protobuf">>
  /\ SPECS.pffft.root = <<"third_party", "pffft">>
  /\ SPECS.alsa.root = <<"third_party", "alsa">>
  /\ SPECS.pulseaudio.root = <<"third_party", "pulseaudio">>
  /\ SPECS.googletest.root = <<"third_party", "googletest">>
  /\ SPECS.catapult.root = <<"third_party", "catapult">>
  /\ SPECS.nasm.root = <<"third_party", "nasm">>
BY DEF SPECS, LibSrtp, Opus, LibVpx, LibYuv, LibAom, JsonCpp, Dav1d, LlvmLibc, Protobuf, Pffft,
       Alsa, PulseAudio, GoogleTest, Catapult, Nasm, LinkedHeaders, ThirdParty, Overlay

\* Three do not.
LEMMA OtherRoots ==
  /\ SPECS.third_party_root.root = <<"third_party">>
  /\ SPECS.testing.root = <<"testing">>
  /\ SPECS.tools.root = <<"tools">>
BY DEF SPECS, ThirdPartyRoot, Testing, Tools, Overlay

\* Only the overlay of third_party itself shares its directory.
LEMMA SharedRoot ==
  \A d \in Overlays : SPECS[d].preserve_root = (d = "third_party_root")
<1>1. SPECS.third_party_root.preserve_root = TRUE
  BY DEF SPECS, ThirdPartyRoot, Overlay
<1>2. /\ SPECS.testing.preserve_root = FALSE /\ SPECS.tools.preserve_root = FALSE
      /\ SPECS.libsrtp.preserve_root = FALSE /\ SPECS.opus.preserve_root = FALSE
      /\ SPECS.libvpx.preserve_root = FALSE /\ SPECS.libyuv.preserve_root = FALSE
      /\ SPECS.libaom.preserve_root = FALSE /\ SPECS.jsoncpp.preserve_root = FALSE
      /\ SPECS.dav1d.preserve_root = FALSE /\ SPECS.llvm_libc.preserve_root = FALSE
      /\ SPECS.protobuf.preserve_root = FALSE /\ SPECS.pffft.preserve_root = FALSE
      /\ SPECS.alsa.preserve_root = FALSE /\ SPECS.pulseaudio.preserve_root = FALSE
      /\ SPECS.googletest.preserve_root = FALSE /\ SPECS.catapult.preserve_root = FALSE
      /\ SPECS.nasm.preserve_root = FALSE
  BY DEF SPECS, LibSrtp, Opus, LibVpx, LibYuv, LibAom, JsonCpp, Dav1d, LlvmLibc,
       Protobuf, Pffft, Alsa, PulseAudio, GoogleTest, Catapult, Nasm, Testing, Tools,
       LinkedHeaders, ThirdParty, Overlay
<1> QED
  BY <1>1, <1>2, OverlayNames

\* The units below third_party, and the name of their directory there.
BelowThirdParty == (Overlays \ {"third_party_root", "testing", "tools"})
                     \cup {"rnnoise", "compiler-rt", "abseil-cpp"}
DirName(u) == IF u = "llvm_libc" THEN "llvm-libc" ELSE u

\* The directory of every unit.
LEMMA Roots ==
  /\ \A u \in BelowThirdParty : Root(u) = <<"third_party", DirName(u)>>
  /\ \A u \in {"testing", "tools", "build", "buildtools"} : Root(u) = <<u>>
  /\ Root("third_party_root") = <<"third_party">> /\ Root("src") = <<>>
<1>1. \A u \in Overlays : Root(u) = SPECS[u].root
  BY OverlayNames DEF Root
<1>2. \A u \in {"rnnoise", "compiler-rt", "abseil-cpp"} : Root(u) = <<"third_party", u>>
  BY DEF Root
<1>3. Root("build") = <<"build">> /\ Root("buildtools") = <<"buildtools">> /\ Root("src") = <<>>
  BY DEF Root
<1>4. \A u \in BelowThirdParty \cap Overlays : SPECS[u].root = <<"third_party", DirName(u)>>
  BY OverlayNames, ThirdPartyRoots DEF BelowThirdParty, DirName
<1>5. \A u \in BelowThirdParty : Root(u) = <<"third_party", DirName(u)>>
  BY <1>1, <1>2, <1>4 DEF BelowThirdParty, DirName
<1>6. /\ Root("third_party_root") = <<"third_party">>
      /\ Root("testing") = <<"testing">> /\ Root("tools") = <<"tools">>
  BY <1>1, OtherRoots, OverlayNames
<1> QED
  BY <1>3, <1>5, <1>6

\* Prefixes among paths of at most two parts.
LEMMA ShortPrefixes ==
  ASSUME NEW a, NEW b, NEW c, NEW d
  PROVE  /\ IsPrefix(<<a>>, <<c>>) <=> a = c
         /\ IsPrefix(<<a>>, <<c, d>>) <=> a = c
         /\ ~IsPrefix(<<a, b>>, <<c>>) /\ ~IsPrefix(<<a>>, <<>>) /\ ~IsPrefix(<<a, b>>, <<>>)
<1>1. IsPrefix(<<a>>, <<c>>) <=> a = c
  BY DEF IsPrefix
<1>2. IsPrefix(<<a>>, <<c, d>>) <=> a = c
  BY DEF IsPrefix
<1>3. ~IsPrefix(<<a, b>>, <<c>>) /\ ~IsPrefix(<<a>>, <<>>) /\ ~IsPrefix(<<a, b>>, <<>>)
  BY DEF IsPrefix
<1> QED
  BY <1>1, <1>2, <1>3

\* Two directories below the same one.
LEMMA Siblings ==
  ASSUME NEW a, NEW b, NEW d
  PROVE  IsPrefix(<<a, b>>, <<a, d>>) <=> b = d
BY DEF IsPrefix

\* No directory that is removed as a whole holds a unit other than its own.
LEMMA DisjointUnits ==
  ASSUME NEW u \in Cleared, NEW v \in Units
  PROVE  IsPrefix(Root(u), Root(v)) <=> u = v
<1> DEFINE Tops == {"testing", "tools", "build", "buildtools"}
<1>1. /\ Cleared \subseteq BelowThirdParty \cup Tops
      /\ Units \subseteq BelowThirdParty \cup Tops \cup {"third_party_root", "src"}
  BY OverlayNames DEF Cleared, Units, Late, BelowThirdParty
<1>2. BelowThirdParty \cap (Tops \cup {"third_party_root", "src", "third_party", "llvm-libc"}) = {}
  BY OverlayNames DEF BelowThirdParty
<1>3. CASE u \in BelowThirdParty
  <2>1. Root(u) = <<"third_party", DirName(u)>>
    BY <1>3, Roots
  <2>2. CASE v \in BelowThirdParty
    <3>1. Root(v) = <<"third_party", DirName(v)>>
      BY <2>2, Roots
    <3>2. DirName(u) = DirName(v) <=> u = v
      BY <1>2, <1>3, <2>2 DEF DirName
    <3>3. IsPrefix(<<"third_party", DirName(u)>>, <<"third_party", DirName(v)>>)
            <=> DirName(u) = DirName(v)
      BY Siblings, Zenon
    <3>4. IsPrefix(Root(u), Root(v)) <=> DirName(u) = DirName(v)
      BY <2>1, <3>1, <3>3
    <3> QED
      BY <3>2, <3>4
  <2>3. CASE v \in Tops \cup {"third_party_root"}
    <3>1. PICK x : Root(v) = <<x>>
      BY <2>3, Roots
    <3>2. ~IsPrefix(<<"third_party", DirName(u)>>, <<x>>)
      BY ShortPrefixes, Zenon
    <3>3. u # v
      BY <1>2, <1>3, <2>3
    <3> QED
      BY <2>1, <3>1, <3>2, <3>3, Zenon
  <2>4. CASE v = "src"
    <3>1. ~IsPrefix(<<"third_party", DirName(u)>>, <<>>)
      BY ShortPrefixes, Zenon
    <3>2. u # v
      BY <1>2, <1>3, <2>4
    <3> QED
      BY <2>1, <2>4, <3>1, <3>2, Roots, Zenon
  <2> QED
    BY <1>1, <2>2, <2>3, <2>4
<1>4. CASE u \in Tops
  <2>1. Root(u) = <<u>> /\ u # "third_party" /\ u # "third_party_root" /\ u # "src"
    BY <1>4, Roots
  <2>2. CASE v \in BelowThirdParty
    <3>1. Root(v) = <<"third_party", DirName(v)>>
      BY <2>2, Roots
    <3>2. IsPrefix(<<u>>, <<"third_party", DirName(v)>>) <=> u = "third_party"
      BY ShortPrefixes, Zenon
    <3>3. u # v
      BY <1>2, <1>4, <2>2
    <3> QED
      BY <2>1, <3>1, <3>2, <3>3, Zenon
  <2>3. CASE v \in Tops \cup {"third_party_root"}
    <3>1. Root(v) = IF v = "third_party_root" THEN <<"third_party">> ELSE <<v>>
      BY <2>3, Roots
    <3>2. /\ IsPrefix(<<u>>, <<v>>) <=> u = v
          /\ IsPrefix(<<u>>, <<"third_party">>) <=> u = "third_party"
      BY ShortPrefixes, Zenon
    <3> QED
      BY <2>1, <3>1, <3>2, Zenon
  <2>4. CASE v = "src"
    <3>1. ~IsPrefix(<<u>>, <<>>)
      BY ShortPrefixes, Zenon
    <3> QED
      BY <2>1, <2>4, <3>1, Roots, Zenon
  <2> QED
    BY <1>1, <2>2, <2>3, <2>4
<1> QED
  BY <1>1, <1>3, <1>4

-----------------------------------------------------------------------------
\* Lists, of whatever elements they have.
IsList(s) == s \in Seq(ToSet(s))

\* Two lists one after the other.
LEMMA ListConcat ==
  ASSUME NEW s, NEW t, IsList(s), IsList(t)
  PROVE  IsList(s \o t) /\ ToSet(s \o t) = ToSet(s) \cup ToSet(t)
<1> DEFINE S == ToSet(s) \cup ToSet(t)
<1>1. s \in Seq(S) /\ t \in Seq(S)
  BY SeqMonotonic DEF IsList
<1>2. s \o t \in Seq(S) /\ ToSet(s \o t) = S
  BY <1>1, ToSetConcat
<1> QED
  BY <1>2 DEF IsList

\* Lists that are written out.
LEMMA List1 ==
  ASSUME NEW x
  PROVE  IsList(<<x>>) /\ ToSet(<<x>>) = {x}
<1>1. ToSet(<<x>>) = {x}
  BY DEF ToSet
<1>2. <<x>> \in Seq({x})
  OBVIOUS
<1> QED
  BY <1>1, <1>2 DEF IsList

\* With two elements.
LEMMA List2 ==
  ASSUME NEW x, NEW y
  PROVE  IsList(<<x, y>>) /\ ToSet(<<x, y>>) = {x, y}
<1>1. ToSet(<<x, y>>) = {x, y}
  BY DEF ToSet
<1>2. <<x, y>> \in Seq({x, y})
  OBVIOUS
<1> QED
  BY <1>1, <1>2 DEF IsList

\* With three.
LEMMA List3 ==
  ASSUME NEW x, NEW y, NEW z
  PROVE  IsList(<<x, y, z>>) /\ ToSet(<<x, y, z>>) = {x, y, z}
<1>1. ToSet(<<x, y, z>>) = {x, y, z}
  BY DEF ToSet
<1>2. <<x, y, z>> \in Seq({x, y, z})
  OBVIOUS
<1> QED
  BY <1>1, <1>2 DEF IsList

\* With fifteen.
LEMMA List15 ==
  ASSUME NEW x1, NEW x2, NEW x3, NEW x4, NEW x5, NEW x6, NEW x7, NEW x8,
         NEW x9, NEW x10, NEW x11, NEW x12, NEW x13, NEW x14, NEW x15
  PROVE  /\ IsList(<<x1, x2, x3, x4, x5, x6, x7, x8, x9, x10, x11, x12, x13, x14, x15>>)
         /\ ToSet(<<x1, x2, x3, x4, x5, x6, x7, x8, x9, x10, x11, x12, x13, x14, x15>>) =
              {x1, x2, x3, x4, x5, x6, x7, x8, x9, x10, x11, x12, x13, x14, x15}
<1>1. ToSet(<<x1, x2, x3, x4, x5, x6, x7, x8, x9, x10, x11, x12, x13, x14, x15>>) =
        {x1, x2, x3, x4, x5, x6, x7, x8, x9, x10, x11, x12, x13, x14, x15}
  BY DEF ToSet
<1>2. <<x1, x2, x3, x4, x5, x6, x7, x8, x9, x10, x11, x12, x13, x14, x15>> \in
        Seq({x1, x2, x3, x4, x5, x6, x7, x8, x9, x10, x11, x12, x13, x14, x15})
  OBVIOUS
<1> QED
  BY <1>1, <1>2 DEF IsList

\* What the overlays import from the build repository.
GniFiles == {"compiled_action.gni", "config/cast.gni", "config/chromeos/ui_mode.gni",
             "config/ios/config.gni", "config/ios/ios_sdk_overrides.gni",
             "config/sanitizers/sanitizers.gni"}

\* What is used of the build directory, the portfile's own file in it included.
BuildFiles == (RepoFiles("build") \ {Dse}) \cup {<<"build", "config/gclient_args.gni">>}

\* The build directory holds that, and the block.
LEMMA BuildContents ==
  /\ RepoFiles("build") = {Dse} \cup ({"build"} \X GniFiles)
  /\ BuildFiles = {"build"} \X (GniFiles \cup {"config/gclient_args.gni"})
<1>1. RepoFiles("build") = {Dse} \cup ({"build"} \X GniFiles)
  BY DEF RepoFiles, GniFiles
<1>2. Dse \notin {"build"} \X GniFiles
  BY DEF Dse, GniFiles
<1> HIDE DEF GniFiles
<1> QED
  BY <1>1, <1>2 DEF BuildFiles

\* A list of files that link a library only where an overlay may, and that name
\* nothing but files of the same overlay and of the build directory.
FilesFit(d, fs) ==
  /\ IsList(fs)
  /\ \A f \in ToSet(fs) :
       /\ f.tool \in BOOLEAN
       /\ f.libs # {} => d \in Linkers
       /\ f.needs \subseteq ({d} \X Names(fs)) \cup BuildFiles

\* A file without needs or placeholders.
LEMMA TextFields ==
  ASSUME NEW n
  PROVE  Text(n).name = n /\ Text(n).needs = {} /\ Text(n).libs = {} /\ Text(n).tool = FALSE
BY DEF Text

\* Such files, one for each of a list of names.
LEMMA TextsOfNames ==
  ASSUME NEW names, IsList(names)
  PROVE  /\ IsList(Texts(names))
         /\ ToSet(Texts(names)) = {Text(n) : n \in ToSet(names)}
         /\ Names(Texts(names)) = ToSet(names)
<1>1. /\ DOMAIN names = 1..Len(names) /\ Len(names) \in Nat
      /\ \A i \in 1..Len(names) : names[i] \in ToSet(names)
  BY LenProperties DEF IsList
<1>2. Texts(names) \in [1..Len(names) -> ToSet(Texts(names))]
  BY <1>1 DEF Texts, ToSet
<1>3. IsList(Texts(names))
  BY <1>1, <1>2, SeqDef DEF IsList
<1>4. ToSet(Texts(names)) = {Text(n) : n \in ToSet(names)}
  <2>1. DOMAIN Texts(names) = DOMAIN names /\ \A i \in DOMAIN names : Texts(names)[i] = Text(names[i])
    BY DEF Texts
  <2> QED
    BY <2>1, Zenon DEF ToSet
<1>5. Names(Texts(names)) = ToSet(names)
  <2>1. \A x : x \in Names(Texts(names)) <=> \E n \in ToSet(names) : x = Text(n).name
    BY <1>4, Zenon DEF Names
  <2>2. \A n : Text(n).name = n
    BY TextFields, Zenon
  <2>3. \A x : x \in Names(Texts(names)) <=> x \in ToSet(names)
    BY <2>1, <2>2
  <2> QED
    BY <2>3, Zenon
<1> QED
  BY <1>3, <1>4, <1>5

\* Files without needs fit anywhere.
LEMMA TextsFit ==
  ASSUME NEW d, NEW names, IsList(names)
  PROVE  FilesFit(d, Texts(names))
<1>1. IsList(Texts(names)) /\ ToSet(Texts(names)) = {Text(n) : n \in ToSet(names)}
  BY TextsOfNames, Zenon
<1> DEFINE fs == Texts(names)
<1> HIDE DEF fs
<1>2. \A f \in ToSet(fs) : f.libs = {} /\ f.needs = {} /\ f.tool = FALSE
  <2> SUFFICES ASSUME NEW f \in ToSet(fs)
               PROVE  f.libs = {} /\ f.needs = {} /\ f.tool = FALSE
    OBVIOUS
  <2>1. PICK n \in ToSet(names) : f = Text(n)
    BY <1>1 DEF fs
  <2> QED
    BY <2>1, TextFields
<1>3. \A f \in ToSet(fs) : f.needs \subseteq ({d} \X Names(fs)) \cup BuildFiles
  BY <1>2
<1> QED
  BY <1>1, <1>2, <1>3, Zenon DEF FilesFit, fs

\* The overlays of headers and of the source_set that lists them.
LEMMA LinkedHeadersFit ==
  ASSUME NEW d \in Linkers, NEW lib, NEW headers, IsList(headers)
  PROVE  FilesFit(d, LinkedHeaders(d, lib, headers).files)
<1> DEFINE build == Linked(d, lib, headers)
           fs == <<build>> \o Texts(headers)
<1>1. LinkedHeaders(d, lib, headers).files = fs
  BY DEF LinkedHeaders, ThirdParty, Overlay, Forwarders
<1>2. build.name = "BUILD.gn" /\ build.needs = {d} \X ToSet(headers) /\ build.tool = FALSE
  BY DEF Linked
<1> HIDE DEF build
<1>3. ToSet(<<build>>) = {build}
  BY List1, List2, List3, Zenon
<1>4. IsList(<<build>>)
  BY List1, List2, List3, Zenon
<1>5. IsList(fs) /\ ToSet(fs) = {build} \cup {Text(n) : n \in ToSet(headers)}
  <2>1. /\ IsList(Texts(headers))
        /\ ToSet(Texts(headers)) = {Text(n) : n \in ToSet(headers)}
    BY TextsOfNames, Zenon
  <2>2. IsList(fs) /\ ToSet(fs) = ToSet(<<build>>) \cup ToSet(Texts(headers))
    BY <1>4, <2>1, ListConcat, Zenon
  <2> QED
    BY <1>3, <2>1, <2>2
<1> HIDE DEF fs
<1>6. ToSet(headers) \subseteq Names(fs)
  <2>1. \A n \in ToSet(headers) : Text(n) \in ToSet(fs) /\ Text(n).name = n
    BY <1>5, TextFields, Zenon
  <2> QED
    BY <2>1, Zenon DEF Names
<1>7. \A f \in ToSet(fs) : f.needs \subseteq {d} \X Names(fs) /\ f.tool \in BOOLEAN
  <2> SUFFICES ASSUME NEW f \in ToSet(fs)
               PROVE  f.needs \subseteq {d} \X Names(fs) /\ f.tool \in BOOLEAN
    OBVIOUS
  <2>1. CASE f = build
    BY <1>2, <1>6, <2>1
  <2>2. CASE \E n \in ToSet(headers) : f = Text(n)
    BY <2>2, TextFields
  <2> QED
    BY <1>5, <2>1, <2>2
<1> QED
  BY <1>1, <1>5, <1>7 DEF FilesFit

\* The overlays that link the library they stand for.
LEMMA LinkersFit ==
  /\ FilesFit("opus", SPECS.opus.files) /\ FilesFit("libvpx", SPECS.libvpx.files)
  /\ FilesFit("libyuv", SPECS.libyuv.files) /\ FilesFit("jsoncpp", SPECS.jsoncpp.files)
  /\ FilesFit("pffft", SPECS.pffft.files)
<1>1. FilesFit("opus", SPECS.opus.files)
  <2>1. IsList(<<"opus.h", "opus_defines.h", "opus_multistream.h", "opus_types.h">>)
    BY DEF IsList, ToSet
  <2>2. "opus" \in Linkers /\ SPECS.opus = Opus
    BY DEF Linkers, SPECS
  <2> QED
    BY <2>1, <2>2, LinkedHeadersFit, Zenon DEF Opus
<1>2. FilesFit("libvpx", SPECS.libvpx.files)
  <2>1. IsList(<<"vp8.h", "vp8cx.h", "vp8dx.h", "vpx_codec.h", "vpx_decoder.h", "vpx_encoder.h",
                 "vpx_ext_ratectrl.h", "vpx_frame_buffer.h", "vpx_image.h", "vpx_integer.h">>)
    BY DEF IsList, ToSet
  <2>2. "libvpx" \in Linkers /\ SPECS.libvpx = LibVpx
    BY DEF Linkers, SPECS
  <2> QED
    BY <2>1, <2>2, LinkedHeadersFit, Zenon DEF LibVpx
<1>3. FilesFit("libyuv", SPECS.libyuv.files)
  <2>1. IsList(<<"compare.h", "convert.h", "convert_from.h", "planar_functions.h", "rotate.h",
                 "rotate_argb.h", "scale.h", "video_common.h">>)
    BY DEF IsList, ToSet
  <2>2. "libyuv" \in Linkers /\ SPECS.libyuv = LibYuv
    BY DEF Linkers, SPECS
  <2> QED
    BY <2>1, <2>2, LinkedHeadersFit, Zenon DEF LibYuv
<1>4. FilesFit("jsoncpp", SPECS.jsoncpp.files)
  <2>1. IsList(<<"jsoncpp_shim.h">>)
    BY List1, List2, List3, Zenon
  <2>2. "jsoncpp" \in Linkers /\ SPECS.jsoncpp = JsonCpp
    BY DEF Linkers, SPECS
  <2> QED
    BY <2>1, <2>2, LinkedHeadersFit, Zenon DEF JsonCpp
<1>5. FilesFit("pffft", SPECS.pffft.files)
  <2>1. IsList(<<"pffft.h">>)
    BY List1, List2, List3, Zenon
  <2>2. "pffft" \in Linkers /\ SPECS.pffft = Pffft
    BY DEF Linkers, SPECS
  <2> QED
    BY <2>1, <2>2, LinkedHeadersFit, Zenon DEF Pffft
<1> QED
  BY <1>1, <1>2, <1>3, <1>4, <1>5

\* A list of files without needs or libraries fits anywhere.
LEMMA PlainFit ==
  ASSUME NEW d, NEW fs, IsList(fs), \A f \in ToSet(fs) : \E n : f = Text(n)
  PROVE  FilesFit(d, fs)
<1>1. \A f \in ToSet(fs) : f.libs = {} /\ f.needs = {} /\ f.tool = FALSE
  <2> SUFFICES ASSUME NEW f \in ToSet(fs)
               PROVE  f.libs = {} /\ f.needs = {} /\ f.tool = FALSE
    OBVIOUS
  <2>1. PICK n : f = Text(n)
    OBVIOUS
  <2> QED
    BY <2>1, TextFields
<1>2. \A f \in ToSet(fs) : f.needs \subseteq ({d} \X Names(fs)) \cup BuildFiles
  BY <1>1
<1> QED
  BY <1>1, <1>2 DEF FilesFit

\* The overlays that only keep other BUILD.gn files satisfied.
LEMMA StubsFit ==
  /\ FilesFit("dav1d", SPECS.dav1d.files) /\ FilesFit("llvm_libc", SPECS.llvm_libc.files)
  /\ FilesFit("protobuf", SPECS.protobuf.files) /\ FilesFit("alsa", SPECS.alsa.files)
  /\ FilesFit("pulseaudio", SPECS.pulseaudio.files)
  /\ FilesFit("third_party_root", SPECS.third_party_root.files)
  /\ FilesFit("testing", SPECS.testing.files) /\ FilesFit("catapult", SPECS.catapult.files)
  /\ FilesFit("tools", SPECS.tools.files)
<1>1. /\ SPECS.dav1d.files = <<BuildGn>> /\ SPECS.llvm_libc.files = <<BuildGn>>
      /\ SPECS.alsa.files = <<BuildGn>> /\ SPECS.pulseaudio.files = <<BuildGn>>
      /\ SPECS.third_party_root.files = <<BuildGn>>
  BY DEF SPECS, Dav1d, LlvmLibc, Alsa, PulseAudio, ThirdPartyRoot, ThirdParty, Overlay
<1>2. \A d : FilesFit(d, <<BuildGn>>)
  <2>1. IsList(<<BuildGn>>) /\ ToSet(<<BuildGn>>) = {BuildGn}
    BY List1, List2, List3, Zenon
  <2>2. \A f \in ToSet(<<BuildGn>>) : \E n : f = Text(n)
    BY <2>1, Zenon DEF BuildGn
  <2> QED
    BY <2>1, <2>2, PlainFit, Zenon
<1>3. FilesFit("protobuf", SPECS.protobuf.files)
  <2>1. SPECS.protobuf.files = <<BuildGn, Text("proto_library.gni")>>
    BY DEF SPECS, Protobuf, ThirdParty, Overlay
  <2>2. /\ IsList(SPECS.protobuf.files)
        /\ ToSet(SPECS.protobuf.files) = {BuildGn, Text("proto_library.gni")}
    <3>1. IsList(<<BuildGn, Text("proto_library.gni")>>)
      BY List1, List2, List3, Zenon
    <3>2. ToSet(<<BuildGn, Text("proto_library.gni")>>) = {BuildGn, Text("proto_library.gni")}
      BY List1, List2, List3, Zenon
    <3> QED
      BY <2>1, <3>1, <3>2
  <2>3. \A f \in ToSet(SPECS.protobuf.files) : \E n : f = Text(n)
    BY <2>2, Zenon DEF BuildGn
  <2> QED
    BY <2>2, <2>3, PlainFit, Zenon
<1>4. FilesFit("testing", SPECS.testing.files)
  <2>1. SPECS.testing.files = Texts(<<"BUILD.gn", "test.gni", "gtest/BUILD.gn", "gmock/BUILD.gn">>)
    BY DEF SPECS, Testing, Overlay
  <2>2. IsList(<<"BUILD.gn", "test.gni", "gtest/BUILD.gn", "gmock/BUILD.gn">>)
    BY DEF IsList, ToSet
  <2> QED
    BY <2>1, <2>2, TextsFit, Zenon
<1>5. FilesFit("catapult", SPECS.catapult.files)
  <2>1. SPECS.catapult.files = Texts(<<"tracing/BUILD.gn", "tracing/tracing/BUILD.gn",
                                       "tracing/tracing/proto/BUILD.gn">>)
    BY DEF SPECS, Catapult, ThirdParty, Overlay
  <2>2. IsList(<<"tracing/BUILD.gn", "tracing/tracing/BUILD.gn", "tracing/tracing/proto/BUILD.gn">>)
    BY List1, List2, List3, Zenon
  <2> QED
    BY <2>1, <2>2, TextsFit, Zenon
<1>6. FilesFit("tools", SPECS.tools.files)
  <2>1. SPECS.tools.files = Texts(<<"clang/scripts/update.py", "generate_stubs/generate_stubs.py",
                                    "generate_stubs/rules.gni", "rust/update_rust.py">>)
    BY DEF SPECS, Tools, Overlay
  <2>2. IsList(<<"clang/scripts/update.py", "generate_stubs/generate_stubs.py",
                 "generate_stubs/rules.gni", "rust/update_rust.py">>)
    BY DEF IsList, ToSet
  <2> QED
    BY <2>1, <2>2, TextsFit, Zenon
<1> QED
  BY <1>1, <1>2, <1>3, <1>4, <1>5, <1>6, Zenon

\* The overlays with files that import or include others.
LEMMA LibSrtpFits == FilesFit("libsrtp", SPECS.libsrtp.files)
<1> DEFINE build == [Linked("libsrtp", "srtp2", <<"srtp.h">>) EXCEPT
                       !.needs = @ \cup {<<"libsrtp", "options.gni">>}]
           fs == <<LIBSRTP_OPTIONS_GNI, build, Text("srtp.h")>>
<1>1. SPECS.libsrtp.files = fs
  BY DEF SPECS, LibSrtp, ThirdParty, Overlay
<1>2. /\ build.needs = {<<"libsrtp", "srtp.h">>, <<"libsrtp", "options.gni">>}
      /\ build.tool = FALSE
  BY DEF Linked, ToSet
<1> HIDE DEF build
<1>3. IsList(fs) /\ ToSet(fs) = {LIBSRTP_OPTIONS_GNI, build, Text("srtp.h")}
  BY List3
<1> HIDE DEF fs
<1>4. /\ LIBSRTP_OPTIONS_GNI.name = "options.gni" /\ Text("srtp.h").name = "srtp.h"
      /\ \A f \in {LIBSRTP_OPTIONS_GNI, Text("srtp.h")} : f.needs = {} /\ f.tool = FALSE
  BY DEF LIBSRTP_OPTIONS_GNI, Text
<1>5. {"srtp.h", "options.gni"} \subseteq Names(fs)
  BY <1>3, <1>4 DEF Names
<1>6. \A f \in ToSet(fs) : f.tool \in BOOLEAN /\ f.needs \subseteq {"libsrtp"} \X Names(fs)
  <2>1. build.needs \subseteq {"libsrtp"} \X Names(fs)
    BY <1>2, <1>5
  <2> QED
    BY <1>2, <1>3, <1>4, <2>1
<1>7. "libsrtp" \in Linkers
  BY DEF Linkers
<1> QED
  BY <1>1, <1>3, <1>6, <1>7 DEF FilesFit

\* libaom imports what the portfile itself writes into the build directory.
LEMMA LibAomFits == FilesFit("libaom", SPECS.libaom.files)
<1> DEFINE headers == <<"aom_codec.h", "aom_encoder.h", "aom_image.h">>
           fs == <<LIBAOM_OPTIONS_GNI, LIBAOM_BUILD_GN>> \o Texts(headers) \o <<Text("aomcx.h")>>
<1>1. SPECS.libaom.files = fs
  BY DEF SPECS, LibAom, ThirdParty, Overlay, Forwarders
<1>2. /\ LIBAOM_OPTIONS_GNI.needs =
           {"build"} \X {"config/cast.gni", "config/chromeos/ui_mode.gni", "config/gclient_args.gni"}
      /\ LIBAOM_OPTIONS_GNI.tool = FALSE
  BY DEF LIBAOM_OPTIONS_GNI, Needing, Text
<1>3. /\ LIBAOM_BUILD_GN.needs =
           {"libaom"} \X {"aom_codec.h", "aom_encoder.h", "aom_image.h", "aomcx.h"}
      /\ LIBAOM_BUILD_GN.tool = FALSE
  BY DEF LIBAOM_BUILD_GN, Linked, ToSet
<1>4. /\ IsList(Texts(headers))
      /\ ToSet(Texts(headers)) = {Text(n) : n \in {"aom_codec.h", "aom_encoder.h", "aom_image.h"}}
  <2>1. IsList(headers) /\ ToSet(headers) = {"aom_codec.h", "aom_encoder.h", "aom_image.h"}
    BY List3
  <2>2. IsList(Texts(headers)) /\ ToSet(Texts(headers)) = {Text(n) : n \in ToSet(headers)}
    BY <2>1, TextsOfNames, Zenon
  <2> QED
    BY <2>1, <2>2
<1> HIDE DEF headers
<1>5. /\ IsList(fs)
      /\ ToSet(fs) = {LIBAOM_OPTIONS_GNI, LIBAOM_BUILD_GN, Text("aom_codec.h"),
                      Text("aom_encoder.h"), Text("aom_image.h"), Text("aomcx.h")}
  <2>1. /\ IsList(<<LIBAOM_OPTIONS_GNI, LIBAOM_BUILD_GN>>) /\ IsList(<<Text("aomcx.h")>>)
        /\ ToSet(<<LIBAOM_OPTIONS_GNI, LIBAOM_BUILD_GN>>) = {LIBAOM_OPTIONS_GNI, LIBAOM_BUILD_GN}
        /\ ToSet(<<Text("aomcx.h")>>) = {Text("aomcx.h")}
    BY List1, List2, List3, Zenon
  <2> DEFINE front == <<LIBAOM_OPTIONS_GNI, LIBAOM_BUILD_GN>> \o Texts(headers)
  <2>2. /\ IsList(front)
        /\ ToSet(front) = ToSet(<<LIBAOM_OPTIONS_GNI, LIBAOM_BUILD_GN>>) \cup ToSet(Texts(headers))
    BY <1>4, <2>1, ListConcat, Zenon
  <2>3. fs = front \o <<Text("aomcx.h")>>
    OBVIOUS
  <2> HIDE DEF front
  <2>4. /\ IsList(front \o <<Text("aomcx.h")>>)
        /\ ToSet(front \o <<Text("aomcx.h")>>) = ToSet(front) \cup ToSet(<<Text("aomcx.h")>>)
    BY <2>1, <2>2, ListConcat, Zenon
  <2> HIDE DEF fs
  <2> QED
    BY <1>4, <2>1, <2>2, <2>3, <2>4
<1> HIDE DEF fs
<1>6. {"aom_codec.h", "aom_encoder.h", "aom_image.h", "aomcx.h"} \subseteq Names(fs)
  <2>1. \A n : Text(n).name = n
    BY TextFields
  <2> QED
    BY <1>5, <2>1 DEF Names
<1>7. \A f \in {"build"} \X {"config/cast.gni", "config/chromeos/ui_mode.gni",
                             "config/gclient_args.gni"} : f \in BuildFiles
  BY BuildContents DEF GniFiles
<1>8. \A f \in ToSet(fs) :
        f.tool \in BOOLEAN /\ f.needs \subseteq ({"libaom"} \X Names(fs)) \cup BuildFiles
  <2>1. \A n : Text(n).needs = {} /\ Text(n).tool = FALSE
    BY TextFields
  <2>2. LIBAOM_OPTIONS_GNI.needs \subseteq BuildFiles
    BY <1>2, <1>7
  <2>3. LIBAOM_BUILD_GN.needs \subseteq {"libaom"} \X Names(fs)
    BY <1>3, <1>6
  <2> QED
    BY <1>2, <1>3, <1>5, <2>1, <2>2, <2>3
<1>9. "libaom" \in Linkers
  BY DEF Linkers
<1> QED
  BY <1>1, <1>5, <1>8, <1>9 DEF FilesFit

\* googletest includes its own headers.
LEMMA GoogleTestFits == FilesFit("googletest", SPECS.googletest.files)
<1> DEFINE first == <<"shims", "gtest.h", "gtest.cc", "gtest_main.cc", "gmock-function-mocker.h">>
           gmock == Needing("gmock.h", {<<"googletest", "gmock-function-mocker.h">>})
           last == <<"gmock.cc", "gmock_main.cc">>
           fs == <<GOOGLETEST_BUILD_GN>> \o Texts(first) \o <<gmock>> \o Texts(last)
<1>1. SPECS.googletest.files = fs
  BY DEF SPECS, GoogleTest, ThirdParty, Overlay
<1>2. /\ GOOGLETEST_BUILD_GN.needs =
           {"googletest"} \X {"gtest.h", "gtest.cc", "gtest_main.cc", "gmock.h", "gmock.cc",
                              "gmock_main.cc"}
      /\ GOOGLETEST_BUILD_GN.tool = FALSE /\ GOOGLETEST_BUILD_GN.libs = {}
  BY DEF GOOGLETEST_BUILD_GN, Needing, Text
<1>3. /\ gmock.name = "gmock.h" /\ gmock.tool = FALSE /\ gmock.libs = {}
      /\ gmock.needs = {<<"googletest", "gmock-function-mocker.h">>}
  BY DEF Needing, Text
<1>4. /\ IsList(Texts(first)) /\ IsList(Texts(last))
      /\ ToSet(Texts(first)) = {Text(n) : n \in {"shims", "gtest.h", "gtest.cc", "gtest_main.cc",
                                                 "gmock-function-mocker.h"}}
      /\ ToSet(Texts(last)) = {Text(n) : n \in {"gmock.cc", "gmock_main.cc"}}
  <2>1. /\ IsList(first)
        /\ ToSet(first) = {"shims", "gtest.h", "gtest.cc", "gtest_main.cc", "gmock-function-mocker.h"}
    BY DEF IsList, ToSet
  <2>2. IsList(last) /\ ToSet(last) = {"gmock.cc", "gmock_main.cc"}
    BY List2
  <2> HIDE DEF first, last
  <2>3. IsList(Texts(first)) /\ ToSet(Texts(first)) = {Text(n) : n \in ToSet(first)}
    BY <2>1, TextsOfNames, Zenon
  <2>4. IsList(Texts(last)) /\ ToSet(Texts(last)) = {Text(n) : n \in ToSet(last)}
    BY <2>2, TextsOfNames, Zenon
  <2> QED
    BY <2>1, <2>2, <2>3, <2>4
<1> HIDE DEF first, last, gmock
<1>5. /\ IsList(fs)
      /\ ToSet(fs) = {GOOGLETEST_BUILD_GN, gmock} \cup ToSet(Texts(first)) \cup ToSet(Texts(last))
  <2>1. /\ IsList(<<GOOGLETEST_BUILD_GN>>) /\ ToSet(<<GOOGLETEST_BUILD_GN>>) = {GOOGLETEST_BUILD_GN}
        /\ IsList(<<gmock>>) /\ ToSet(<<gmock>>) = {gmock}
    BY List1, Zenon
  <2> DEFINE a == <<GOOGLETEST_BUILD_GN>> \o Texts(first)
             b == a \o <<gmock>>
  <2>2. IsList(a) /\ ToSet(a) = {GOOGLETEST_BUILD_GN} \cup ToSet(Texts(first))
    BY <1>4, <2>1, ListConcat
  <2> HIDE DEF a
  <2>3. IsList(b) /\ ToSet(b) = ToSet(a) \cup {gmock}
    BY <2>1, <2>2, ListConcat
  <2>4. fs = b \o Texts(last)
    BY DEF a
  <2> HIDE DEF b
  <2>5. IsList(b \o Texts(last)) /\ ToSet(b \o Texts(last)) = ToSet(b) \cup ToSet(Texts(last))
    BY <1>4, <2>3, ListConcat
  <2> HIDE DEF fs
  <2> QED
    BY <2>2, <2>3, <2>4, <2>5
<1> HIDE DEF fs
<1>6. \A n : Text(n).name = n /\ Text(n).needs = {} /\ Text(n).libs = {} /\ Text(n).tool = FALSE
  BY TextFields
<1>7. {"gtest.h", "gtest.cc", "gtest_main.cc", "gmock.h", "gmock.cc", "gmock_main.cc",
       "gmock-function-mocker.h"} \subseteq Names(fs)
  <2>1. /\ Text("gtest.h") \in ToSet(fs) /\ Text("gtest.cc") \in ToSet(fs)
        /\ Text("gtest_main.cc") \in ToSet(fs) /\ Text("gmock.cc") \in ToSet(fs)
        /\ Text("gmock_main.cc") \in ToSet(fs) /\ Text("gmock-function-mocker.h") \in ToSet(fs)
        /\ gmock \in ToSet(fs)
    BY <1>4, <1>5
  <2> QED
    BY <1>3, <1>6, <2>1 DEF Names
<1>8. \A f \in ToSet(fs) :
        f.tool \in BOOLEAN /\ f.libs = {} /\ f.needs \subseteq {"googletest"} \X Names(fs)
  <2>1. /\ GOOGLETEST_BUILD_GN.needs \subseteq {"googletest"} \X Names(fs)
        /\ gmock.needs \subseteq {"googletest"} \X Names(fs)
    BY <1>2, <1>3, <1>7
  <2> SUFFICES ASSUME NEW f \in ToSet(fs)
               PROVE  f.tool \in BOOLEAN /\ f.libs = {} /\ f.needs \subseteq {"googletest"} \X Names(fs)
    OBVIOUS
  <2>2. CASE f = GOOGLETEST_BUILD_GN
    BY <1>2, <2>1, <2>2
  <2>3. CASE f = gmock
    BY <1>3, <2>1, <2>3
  <2>4. CASE f \in ToSet(Texts(first)) \cup ToSet(Texts(last))
    <3>1. PICK n : f = Text(n)
      BY <1>4, <2>4
    <3> QED
      BY <1>6, <3>1
  <2> QED
    BY <1>5, <2>2, <2>3, <2>4
<1> QED
  BY <1>1, <1>5, <1>8 DEF FilesFit

\* The assembler goes into nasm_assemble.gni.
LEMMA NasmFits ==
  /\ FilesFit("nasm", SPECS.nasm.files)
  /\ "nasm_assemble.gni" \in Names(SPECS.nasm.files)
  /\ \A f \in ToSet(SPECS.nasm.files) : f.name = "nasm_assemble.gni" => f.tool
<1> DEFINE fs == <<BuildGn, NASM_ASSEMBLE_GNI>>
<1>1. SPECS.nasm.files = fs
  BY DEF SPECS, Nasm, ThirdParty, Overlay
<1>2. IsList(fs) /\ ToSet(fs) = {BuildGn, NASM_ASSEMBLE_GNI}
  BY List2
<1> HIDE DEF fs
<1>3. /\ NASM_ASSEMBLE_GNI.needs =
           {"build"} \X {"compiled_action.gni", "config/ios/config.gni",
                         "config/ios/ios_sdk_overrides.gni", "config/sanitizers/sanitizers.gni"}
      /\ NASM_ASSEMBLE_GNI.tool = TRUE /\ NASM_ASSEMBLE_GNI.libs = {}
      /\ NASM_ASSEMBLE_GNI.name = "nasm_assemble.gni"
  BY DEF NASM_ASSEMBLE_GNI, Needing, Text
<1>4. /\ BuildGn.needs = {} /\ BuildGn.tool = FALSE /\ BuildGn.libs = {}
      /\ BuildGn.name # "nasm_assemble.gni"
  BY DEF BuildGn, Text
<1>5. NASM_ASSEMBLE_GNI.needs \subseteq BuildFiles
  BY <1>3, BuildContents DEF GniFiles
<1>6. \A f \in ToSet(fs) : f.tool \in BOOLEAN /\ f.libs = {} /\ f.needs \subseteq BuildFiles
  BY <1>2, <1>3, <1>4, <1>5
<1>7. FilesFit("nasm", fs)
  BY <1>2, <1>6 DEF FilesFit
<1>8. "nasm_assemble.gni" \in Names(fs)
  BY <1>2, <1>3 DEF Names
<1> QED
  BY <1>1, <1>2, <1>3, <1>4, <1>7, <1>8

\* Every overlay fits.
LEMMA SpecsFit == \A d \in Overlays : FilesFit(d, SPECS[d].files)
BY OverlayNames, LinkersFit, StubsFit, LibSrtpFits, LibAomFits, GoogleTestFits, NasmFits

-----------------------------------------------------------------------------
\* The overlays that the portfile declares, before and after abseil.
LEMMA DeclarationFields ==
  ASSUME NEW n, NEW p, NEW l, NEW t
  PROVE  /\ D(n, p, l, t).name = n /\ D(n, p, l, t).phase = p
         /\ D(n, p, l, t).libRootVar = l /\ D(n, p, l, t).toolPathVar = t
BY DEF D

\* Before abseil come three overlays that link nothing.
LEMMA PreDeclared ==
  /\ IsList(PreAbsl) /\ PreAbsl # <<>>
  /\ \A d \in ToSet(PreAbsl) :
       /\ d.phase = "pre_absl" /\ d.name \in Overlays
       /\ d.name \notin Linkers /\ d.name # "nasm"
       /\ d.libRootVar = FALSE /\ d.toolPathVar = FALSE
  /\ Names(PreAbsl) = {"third_party_root", "testing", "tools"}
<1> DEFINE d1 == D("third_party_root", "pre_absl", FALSE, FALSE)
           d2 == D("testing", "pre_absl", FALSE, FALSE)
           d3 == D("tools", "pre_absl", FALSE, FALSE)
<1>1. PreAbsl = <<d1, d2, d3>>
  BY DEF PreAbsl
<1>2. /\ d1.name = "third_party_root" /\ d2.name = "testing" /\ d3.name = "tools"
      /\ \A d \in {d1, d2, d3} :
           d.phase = "pre_absl" /\ d.libRootVar = FALSE /\ d.toolPathVar = FALSE
  BY DEF D
<1> HIDE DEF d1, d2, d3
<1>3. IsList(PreAbsl) /\ ToSet(PreAbsl) = {d1, d2, d3} /\ PreAbsl # <<>>
  BY <1>1, List3
<1>4. Names(PreAbsl) = {"third_party_root", "testing", "tools"}
  BY <1>2, <1>3 DEF Names
<1> QED
  BY <1>2, <1>3, <1>4, OverlayNames DEF Linkers

\* After it come all others; those that link a library get the configuration
\* for a lib_root, and nasm gets its assembler.
LEMMA PostDeclared ==
  /\ IsList(PostAbsl) /\ PostAbsl # <<>>
  /\ \A d \in ToSet(PostAbsl) :
       /\ d.phase = "post_absl" /\ d.name \in Overlays \ {"third_party_root", "testing", "tools"}
       /\ d.libRootVar \in BOOLEAN /\ d.toolPathVar \in BOOLEAN
       /\ d.name \in Linkers => d.libRootVar
       /\ d.name = "nasm" => d.toolPathVar
  /\ Names(PostAbsl) = Overlays \ {"third_party_root", "testing", "tools"}
<1> DEFINE d1 == D("libsrtp", "post_absl", TRUE, FALSE)
           d2 == D("libyuv", "post_absl", TRUE, FALSE)
           d3 == D("libvpx", "post_absl", TRUE, FALSE)
           d4 == D("opus", "post_absl", TRUE, FALSE)
           d5 == D("libaom", "post_absl", TRUE, FALSE)
           d6 == D("jsoncpp", "post_absl", TRUE, FALSE)
           d7 == D("pffft", "post_absl", TRUE, FALSE)
           d8 == D("alsa", "post_absl", FALSE, FALSE)
           d9 == D("pulseaudio", "post_absl", FALSE, FALSE)
           d10 == D("dav1d", "post_absl", FALSE, FALSE)
           d11 == D("llvm_libc", "post_absl", FALSE, FALSE)
           d12 == D("protobuf", "post_absl", FALSE, FALSE)
           d13 == D("googletest", "post_absl", FALSE, FALSE)
           d14 == D("catapult", "post_absl", FALSE, FALSE)
           d15 == D("nasm", "post_absl", FALSE, TRUE)
<1>0. PostAbsl = <<d1, d2, d3, d4, d5, d6, d7, d8, d9, d10, d11, d12, d13, d14, d15>>
  BY DEF PostAbsl
<1> HIDE DEF d1, d2, d3, d4, d5, d6, d7, d8, d9, d10, d11, d12, d13, d14, d15
<1>1. /\ IsList(PostAbsl)
      /\ ToSet(PostAbsl) = {d1, d2, d3, d4, d5, d6, d7, d8, d9, d10, d11, d12, d13, d14, d15}
  BY <1>0, List15
<1>2. PostAbsl # <<>>
  BY <1>0
<1> DEFINE Later == Overlays \ {"third_party_root", "testing", "tools"}
<1>3. \A d \in ToSet(PostAbsl) :
        \E n \in Later, l, t \in BOOLEAN :
          /\ d = D(n, "post_absl", l, t)
          /\ n \in Linkers => l
          /\ n = "nasm" => t
  <2>1. {"libsrtp", "libyuv", "libvpx", "opus", "libaom", "jsoncpp", "pffft", "alsa", "pulseaudio",
         "dav1d", "llvm_libc", "protobuf", "googletest", "catapult", "nasm"} = Later
    BY OverlayNames
  <2>2. /\ Linkers \cap {"alsa", "pulseaudio", "dav1d", "llvm_libc", "protobuf", "googletest",
                         "catapult", "nasm"} = {}
        /\ "nasm" \notin {"libsrtp", "libyuv", "libvpx", "opus", "libaom", "jsoncpp", "pffft", "alsa",
                       "pulseaudio", "dav1d", "llvm_libc", "protobuf", "googletest", "catapult"}
    BY DEF Linkers
  <2> HIDE DEF Later
  <2>3. ASSUME NEW n \in {"libsrtp", "libyuv", "libvpx", "opus", "libaom", "jsoncpp", "pffft"}
        PROVE  \E m \in Later, l, t \in BOOLEAN :
                 /\ D(n, "post_absl", TRUE, FALSE) = D(m, "post_absl", l, t)
                 /\ m \in Linkers => l
                 /\ m = "nasm" => t
    BY <2>1, <2>2
  <2>4. ASSUME NEW n \in {"alsa", "pulseaudio", "dav1d", "llvm_libc", "protobuf", "googletest",
                          "catapult"}
        PROVE  \E m \in Later, l, t \in BOOLEAN :
                 /\ D(n, "post_absl", FALSE, FALSE) = D(m, "post_absl", l, t)
                 /\ m \in Linkers => l
                 /\ m = "nasm" => t
    BY <2>1, <2>2
  <2>5. \E m \in Later, l, t \in BOOLEAN :
          /\ D("nasm", "post_absl", FALSE, TRUE) = D(m, "post_absl", l, t)
          /\ m \in Linkers => l
          /\ m = "nasm" => t
    BY <2>1, <2>2
  <2> DEFINE P(d) == \E m \in Later, l, t \in BOOLEAN :
                       /\ d = D(m, "post_absl", l, t)
                       /\ m \in Linkers => l
                       /\ m = "nasm" => t
  <2>6. P(d1) /\ P(d2) /\ P(d3) /\ P(d4) /\ P(d5) /\ P(d6) /\ P(d7)
    BY <2>3 DEF d1, d2, d3, d4, d5, d6, d7
  <2>7. P(d8) /\ P(d9) /\ P(d10) /\ P(d11) /\ P(d12) /\ P(d13) /\ P(d14) /\ P(d15)
    BY <2>4, <2>5 DEF d8, d9, d10, d11, d12, d13, d14, d15
  <2> HIDE DEF P
  <2>8. \A d \in ToSet(PostAbsl) : P(d)
    BY <1>1, <2>6, <2>7
  <2> QED
    BY <2>8 DEF P
<1>4. \A n \in Later : \E l, t : D(n, "post_absl", l, t) \in ToSet(PostAbsl)
  BY <1>1, OverlayNames DEF d1, d2, d3, d4, d5, d6, d7, d8, d9, d10, d11, d12, d13, d14, d15
<1> HIDE DEF Later
<1>5. \A d \in ToSet(PostAbsl) :
        /\ d.phase = "post_absl" /\ d.name \in Later
        /\ d.libRootVar \in BOOLEAN /\ d.toolPathVar \in BOOLEAN
        /\ d.name \in Linkers => d.libRootVar
        /\ d.name = "nasm" => d.toolPathVar
  <2> SUFFICES ASSUME NEW d \in ToSet(PostAbsl)
               PROVE  /\ d.phase = "post_absl" /\ d.name \in Later
                      /\ d.libRootVar \in BOOLEAN /\ d.toolPathVar \in BOOLEAN
                      /\ d.name \in Linkers => d.libRootVar
                      /\ d.name = "nasm" => d.toolPathVar
    OBVIOUS
  <2>1. PICK n \in Later, l \in BOOLEAN, t \in BOOLEAN :
          /\ d = D(n, "post_absl", l, t)
          /\ n \in Linkers => l
          /\ n = "nasm" => t
    BY <1>3
  <2>2. d.name = n /\ d.phase = "post_absl" /\ d.libRootVar = l /\ d.toolPathVar = t
    BY <2>1, DeclarationFields
  <2> QED
    BY <2>1, <2>2
<1>6. Names(PostAbsl) = Later
  <2>1. \A n \in Later : n \in Names(PostAbsl)
    BY <1>4, DeclarationFields DEF Names
  <2> QED
    BY <1>5, <2>1 DEF Names
<1> QED
  BY <1>1, <1>2, <1>5, <1>6 DEF Later

-----------------------------------------------------------------------------
\* The files of the generated abseil.
LEMMA SetToSeqOf ==
  ASSUME NEW S, IsFiniteSet(S)
  PROVE  /\ Cardinality(S) \in Nat
         /\ SetToSeq(S) \in [1..Cardinality(S) -> S]
         /\ \A x \in S : \E i \in 1..Cardinality(S) : SetToSeq(S)[i] = x
<1> DEFINE N == 1..Cardinality(S)
<1>1. Cardinality(S) \in Nat /\ ExistsBijection(N, S)
  BY FS_CardinalityType
<1>2. PICK f \in [N -> S] : IsInjective(f)
  BY <1>1 DEF ExistsBijection, Bijection, Injection, IsInjective
<1>3. SetToSeq(S) \in [N -> S] /\ IsInjective(SetToSeq(S))
  BY <1>2 DEF SetToSeq
<1> DEFINE g == SetToSeq(S)
<1> HIDE DEF g
<1>4. g \in Injection(N, S)
  BY <1>3 DEF Injection, IsInjective, g
<1>5. IsFiniteSet(N) /\ Cardinality(N) = Cardinality(S)
  BY <1>1, FS_Interval
<1>6. g \in Surjection(N, S)
  BY <1>4, <1>5, FS_Injection
<1> QED
  BY <1>1, <1>3, <1>6 DEF Surjection, g

\* The directories of the labels.
LEMMA PathsAreFinite == IsFiniteSet(LabelPaths) /\ LabelPaths \cap {"absl.gni", "BUILD.gn"} = {}
<1> DEFINE path == [l \in Labels |-> l.path]
           paths == {l.path : l \in Labels}
<1>1. path \in Surjection(Labels, paths)
  BY DEF Surjection
<1>2. IsFiniteSet(paths)
  BY <1>1, FS_Surjection, LabelsAssumption
<1>3. IsFiniteSet(LabelPaths)
  BY <1>2, FS_Subset DEF LabelPaths
<1> QED
  BY <1>3, LabelsAssumption DEF LabelPaths

\* The libraries of the generated abseil are the static ones of its exports.
LEMMA StaticIsKnown ==
  {t.name : t \in {t \in KnownTargets : t.kind = "STATIC"}} = Static(exports)
<1>1. {t \in KnownTargets : t.kind = "STATIC"} = {t \in exports : t.kind = "STATIC" /\ ~t.forbidden}
  BY DEF KnownTargets
<1> QED
  BY <1>1 DEF Static

\* What generate_external_absl.py writes, and what it names.
LEMMA AbslFits ==
  /\ IsList(AbslFiles)
  /\ Names(AbslFiles) = {"absl.gni", "BUILD.gn"} \cup LabelPaths
  /\ \A f \in ToSet(AbslFiles) :
       /\ f.tool = FALSE /\ f.libs \in {{}, Static(exports)}
       /\ f.name = "BUILD.gn" => f.libs = Static(exports)
       /\ f.needs \subseteq {"abseil-cpp"} \X Names(AbslFiles)
<1> DEFINE root == [name |-> "BUILD.gn", needs |-> {"abseil-cpp"} \X LabelPaths,
                    libs |-> {t.name : t \in {t \in KnownTargets : t.kind = "STATIC"}},
                    tool |-> FALSE]
           paths == SetToSeq(LabelPaths)
           n == Cardinality(LabelPaths)
           sub(p) == Needing(p, {<<"abseil-cpp", "BUILD.gn">>})
           subs == [i \in 1..n |-> sub(paths[i])]
<1>1. AbslFiles = <<Text("absl.gni"), root>> \o subs
  BY DEF AbslFiles
<1>2. /\ root.name = "BUILD.gn" /\ root.libs = Static(exports) /\ root.tool = FALSE
      /\ root.needs = {"abseil-cpp"} \X LabelPaths
  BY StaticIsKnown
<1>3. \A p : /\ sub(p).name = p /\ sub(p).libs = {} /\ sub(p).tool = FALSE
             /\ sub(p).needs = {<<"abseil-cpp", "BUILD.gn">>}
  BY DEF Needing, Text
<1>4. /\ n \in Nat /\ paths \in [1..n -> LabelPaths]
      /\ \A p \in LabelPaths : \E i \in 1..n : paths[i] = p
  BY SetToSeqOf, PathsAreFinite
<1> HIDE DEF root, paths, n, sub
<1>5. IsList(subs) /\ ToSet(subs) = {sub(p) : p \in LabelPaths}
  <2>1. DOMAIN subs = 1..n /\ \A i \in 1..n : subs[i] = sub(paths[i]) /\ paths[i] \in LabelPaths
    BY <1>4
  <2> HIDE DEF subs
  <2>2. \A x \in ToSet(subs) : \E p \in LabelPaths : x = sub(p)
    BY <2>1, Zenon DEF ToSet
  <2>3. \A p \in LabelPaths : sub(p) \in ToSet(subs)
    <3> SUFFICES ASSUME NEW p \in LabelPaths
                 PROVE  sub(p) \in ToSet(subs)
      OBVIOUS
    <3>1. PICK i \in 1..n : paths[i] = p
      BY <1>4
    <3>2. subs[i] = sub(p) /\ i \in DOMAIN subs
      BY <2>1, <3>1
    <3> QED
      BY <3>2 DEF ToSet
  <2>4. subs \in [1..n -> ToSet(subs)]
    BY <2>1 DEF ToSet, subs
  <2>5. IsList(subs)
    BY <1>4, <2>4, SeqDef DEF IsList
  <2> QED
    BY <2>2, <2>3, <2>5
<1> HIDE DEF subs
<1>6. /\ IsList(AbslFiles)
      /\ ToSet(AbslFiles) = {Text("absl.gni"), root} \cup {sub(p) : p \in LabelPaths}
  <2>1. /\ IsList(<<Text("absl.gni"), root>>)
        /\ ToSet(<<Text("absl.gni"), root>>) = {Text("absl.gni"), root}
    BY List2
  <2>2. /\ IsList(<<Text("absl.gni"), root>> \o subs)
        /\ ToSet(<<Text("absl.gni"), root>> \o subs)
             = ToSet(<<Text("absl.gni"), root>>) \cup ToSet(subs)
    BY <1>5, <2>1, ListConcat
  <2> QED
    BY <1>1, <1>5, <2>1, <2>2
<1>7. /\ Text("absl.gni").name = "absl.gni" /\ Text("absl.gni").libs = {}
      /\ Text("absl.gni").tool = FALSE /\ Text("absl.gni").needs = {}
  BY TextFields
<1>8. Names(AbslFiles) = {"absl.gni", "BUILD.gn"} \cup LabelPaths
  <2>1. \A p \in LabelPaths : p \in Names(AbslFiles)
    <3> SUFFICES ASSUME NEW p \in LabelPaths
                 PROVE  p \in Names(AbslFiles)
      OBVIOUS
    <3>1. sub(p) \in ToSet(AbslFiles) /\ sub(p).name = p
      BY <1>3, <1>6
    <3> QED
      BY <3>1 DEF Names
  <2>2. "absl.gni" \in Names(AbslFiles) /\ "BUILD.gn" \in Names(AbslFiles)
    BY <1>2, <1>6, <1>7 DEF Names
  <2>3. \A f \in ToSet(AbslFiles) : f.name \in {"absl.gni", "BUILD.gn"} \cup LabelPaths
    BY <1>2, <1>3, <1>6, <1>7
  <2> QED
    BY <2>1, <2>2, <2>3 DEF Names
<1>9. ASSUME NEW f \in ToSet(AbslFiles)
      PROVE  /\ f.tool = FALSE /\ f.libs \in {{}, Static(exports)}
             /\ f.name = "BUILD.gn" => f.libs = Static(exports)
             /\ f.needs \subseteq {"abseil-cpp"} \X Names(AbslFiles)
  <2>1. CASE f = Text("absl.gni")
    BY <1>7, <2>1
  <2>2. CASE f = root
    BY <1>2, <1>8, <2>2
  <2>3. CASE \E p \in LabelPaths : f = sub(p)
    <3>1. PICK p \in LabelPaths : f = sub(p)
      BY <2>3
    <3>2. p # "BUILD.gn"
      BY PathsAreFinite
    <3> QED
      BY <1>3, <1>8, <3>1, <3>2
  <2> QED
    BY <1>6, <2>1, <2>2, <2>3
<1> QED
  BY <1>6, <1>8, <1>9

-----------------------------------------------------------------------------
\* What changes of the tree do to it.
LEMMA Putting ==
  ASSUME NEW t, NEW f, NEW c
  PROVE  /\ DOMAIN Put(t, f, c) = DOMAIN t \cup {f}
         /\ Put(t, f, c)[f] = c
         /\ \A g \in DOMAIN t : g # f => Put(t, f, c)[g] = t[g]
BY DEF Put

\* Several files at once.
LEMMA PuttingAll ==
  ASSUME NEW t, NEW fs
  PROVE  /\ DOMAIN PutAll(t, fs) = DOMAIN t \cup fs
         /\ \A g \in DOMAIN PutAll(t, fs) :
              PutAll(t, fs)[g] = IF g \in fs THEN Plain ELSE t[g]
BY DEF PutAll

\* A directory that is removed takes its unit away and no other.
LEMMA Clearing ==
  ASSUME NEW t, NEW u \in Cleared
  PROVE  /\ DOMAIN Without(t, u) \subseteq DOMAIN t
         /\ \A f \in DOMAIN Without(t, u) : Without(t, u)[f] = t[f] /\ f[1] # u
         /\ \A f \in DOMAIN t : f[1] \in Units \ {u} => f \in DOMAIN Without(t, u)
<1>1. u \in Units
  BY DEF Cleared, Units
<1>2. IsPrefix(Root(u), Root(u)) /\ \A v \in Units \ {u} : ~IsPrefix(Root(u), Root(v))
  BY <1>1, DisjointUnits
<1> DEFINE kept == {f \in DOMAIN t : ~IsPrefix(Root(u), Root(f[1]))}
<1>3. Without(t, u) = [f \in kept |-> t[f]]
  BY DEF Without
<1>4. DOMAIN Without(t, u) = kept /\ \A f \in kept : Without(t, u)[f] = t[f]
  BY <1>3
<1>5. kept \subseteq DOMAIN t
  OBVIOUS
<1>6. \A f \in kept : f[1] # u
  BY <1>2
<1>7. \A f \in DOMAIN t : f[1] \in Units \ {u} => f \in kept
  BY <1>2
<1> QED
  BY <1>4, <1>5, <1>6, <1>7

\* Which units an owner writes to.
LEMMA OwnersOfFiles ==
  ASSUME NEW o \in Owners, NEW f \in FilesOf(o)
  PROVE  /\ f[1] \in Units
         /\ o # "settings" => f[1] = o
         /\ o = "settings" => f[1] \in {"build", "compiler-rt"}
<1>1. o \in Late \cup {"src", "build", "buildtools", "rnnoise", "settings"}
  BY DEF Owners
<1>2. CASE o = "src"
  BY <1>2 DEF FilesOf, Units
<1>3. CASE o = "build"
  <2>1. f \in {"build"} \X GniFiles
    BY <1>3, BuildContents DEF FilesOf
  <2> QED
    BY <1>3, <2>1 DEF Units
<1>4. CASE o = "buildtools"
  BY <1>4 DEF FilesOf, RepoFiles, Units
<1>5. CASE o = "rnnoise"
  BY <1>5 DEF FilesOf, Units
<1>6. CASE o = "settings"
  BY <1>6 DEF FilesOf, Units, OwnFiles
<1>7. CASE o = "abseil-cpp"
  BY <1>7 DEF FilesOf, Units, Late
<1>8. CASE o \in Overlays
  <2>1. f \in {o} \X Names(SPECS[o].files)
    BY <1>8, OverlayNames DEF FilesOf
  <2> QED
    BY <1>8, <2>1, OverlayNames DEF Units, Late
<1> QED
  BY <1>1, <1>2, <1>3, <1>4, <1>5, <1>6, <1>7, <1>8 DEF Late

\* What WebRTC, the overlays and abseil refer to is there once all are done.
LEMMA NamedIsOwned ==
  ASSUME \A o \in Owners : FilesOf(o) \subseteq DOMAIN tree
  PROVE  EntryPoints \cup Named \subseteq DOMAIN tree
<1>1. {x.name : x \in Declared} = Overlays
  <2>1. {x.name : x \in Declared} = Names(PreAbsl) \cup Names(PostAbsl)
    BY DEF Declared, Names
  <2> QED
    BY <2>1, PreDeclared, PostDeclared, OverlayNames
<1>2. \A d \in Overlays : d \in Owners /\ FilesOf(d) = {d} \X Names(SPECS[d].files)
  BY OverlayNames DEF FilesOf, Owners, Late
<1>3. \A d \in Overlays : {d} \X Names(SPECS[d].files) \subseteq DOMAIN tree
  BY <1>2
<1>4. {"abseil-cpp"} \X AbslNames \subseteq DOMAIN tree
  <2>1. "abseil-cpp" \in Owners /\ FilesOf("abseil-cpp") = {"abseil-cpp"} \X AbslNames
    BY DEF FilesOf, Owners, Late
  <2> QED
    BY <2>1
<1>5. OwnFiles \subseteq DOMAIN tree
  <2>1. "settings" \in Owners /\ FilesOf("settings") = OwnFiles
    BY DEF FilesOf, Owners
  <2> QED
    BY <2>1
<1>6. {"rnnoise"} \X ToSet(RnnoiseFiles) \subseteq DOMAIN tree
  <2>1. "rnnoise" \in Owners /\ FilesOf("rnnoise") = {"rnnoise"} \X ToSet(RnnoiseFiles)
    BY DEF FilesOf, Owners
  <2> QED
    BY <2>1
<1>7. <<"src", "all">> \in DOMAIN tree /\ <<"buildtools", "all">> \in DOMAIN tree
  <2>1. /\ "src" \in Owners /\ FilesOf("src") = {<<"src", "all">>}
        /\ "buildtools" \in Owners /\ FilesOf("buildtools") = {<<"buildtools", "all">>}
    BY DEF FilesOf, Owners, RepoFiles
  <2> QED
    BY <2>1
<1>8. BuildFiles \subseteq DOMAIN tree
  <2>1. "build" \in Owners /\ FilesOf("build") = RepoFiles("build") \ {Dse}
    BY DEF FilesOf, Owners
  <2>2. <<"build", "config/gclient_args.gni">> \in OwnFiles
    BY DEF OwnFiles
  <2> QED
    BY <1>5, <2>1, <2>2 DEF BuildFiles
<1>9. EntryPoints \subseteq DOMAIN tree
  <2>1. OverlayFiles \subseteq DOMAIN tree
    BY <1>1, <1>3 DEF Names, OverlayFiles
  <2>2. {<<"src", "all">>, <<"buildtools", "all">>, <<"abseil-cpp", "absl.gni">>,
         <<"abseil-cpp", "BUILD.gn">>} \cup ({"abseil-cpp"} \X LabelPaths) \subseteq DOMAIN tree
    BY <1>4, <1>7 DEF AbslNames
  <2> QED
    BY <1>5, <1>6, <2>1, <2>2 DEF EntryPoints
<1>10. Named \subseteq DOMAIN tree
  <2>1. \A f \in ToSet(AbslFiles) : f.needs \subseteq DOMAIN tree
    BY <1>4, AbslFits DEF AbslNames
  <2>2. \A d \in Overlays : \A f \in ToSet(SPECS[d].files) : f.needs \subseteq DOMAIN tree
    BY <1>3, <1>8, SpecsFit DEF FilesFit
  <2>3. \A d \in Declared : d.name \in Overlays
    BY <1>1
  <2> QED
    BY <2>1, <2>2, <2>3 DEF Named
<1> QED
  BY <1>9, <1>10

-----------------------------------------------------------------------------
\* Which owners are still to come at each place.
LEMMA RemainingEarly ==
  ASSUME NEW q, NEW u
  PROVE  /\ \A p \in {"stage", "unstaged"} :
              Remaining(p, q, u) = ToSet(q) \cup {"rnnoise", "settings"} \cup Late
         /\ Remaining("blobs", q, u) = {"rnnoise", "settings"} \cup Late
         /\ Remaining("settings", q, u) = {"settings"} \cup Late
         /\ Remaining("probe", q, u) = Late
BY DEF Remaining

\* The same while overlays and abseil are generated, and afterwards.
LEMMA RemainingLate ==
  ASSUME NEW q, NEW u
  PROVE  /\ \A p \in {"generate", "write"} : u # "abseil-cpp" =>
              Remaining(p, q, u) =
                Names(q) \cup (IF Head(q).phase = "pre_absl" THEN AfterPre ELSE {})
         /\ \A p \in {"absl", "plan", "exports"} : Remaining(p, q, u) = AfterPre
         /\ Remaining("write", q, "abseil-cpp") = AfterPre
         /\ \A p \in {"gn", "install"} : Remaining(p, q, u) = {}
         /\ \A p \in {"idle", "done", "failed", "stopped"} :
              Remaining(p, q, u) = Owners \ {"src"}
BY DEF Remaining

\* The lists that the portfile works on.
LEMMA Lists ==
  /\ IsList(Repos) /\ IsList(RnnoiseFiles) /\ ToSet(Repos) = {"build", "buildtools"}
  /\ Repos # <<>> /\ Head(Repos) = "build" /\ Tail(Repos) = <<"buildtools">>
  /\ Tail(<<"buildtools">>) = <<>>
<1>1. IsList(RnnoiseFiles)
  BY DEF RnnoiseFiles, IsList, ToSet
<1>2. IsList(Repos) /\ ToSet(Repos) = {"build", "buildtools"}
  BY List2 DEF Repos
<1>3. /\ Repos # <<>> /\ Head(Repos) = "build" /\ Tail(Repos) = <<"buildtools">>
      /\ Tail(<<"buildtools">>) = <<>>
  BY DEF Repos
<1> QED
  BY <1>1, <1>2, <1>3


\* What a list has in hand and what remains of it.
LEMMA ListTail ==
  ASSUME NEW q, IsList(q), q # <<>>
  PROVE  /\ Head(q) \in ToSet(q) /\ ToSet(q) = {Head(q)} \cup ToSet(Tail(q))
         /\ Tail(q) \in Seq(ToSet(q)) /\ IsList(Tail(q))
         /\ Names(q) = {Head(q).name} \cup Names(Tail(q))
<1>1. /\ Head(q) \in ToSet(q) /\ ToSet(q) = {Head(q)} \cup ToSet(Tail(q))
      /\ Tail(q) \in Seq(ToSet(q))
  BY ToSetTail DEF IsList
<1>2. IsList(Tail(q))
  BY <1>1, ToSetType DEF IsList
<1>3. Names(q) = {Head(q).name} \cup Names(Tail(q))
  BY <1>1 DEF Names
<1> QED
  BY <1>1, <1>2, <1>3

\* A sequence is a list.
LEMMA ListsOf ==
  ASSUME NEW S, NEW q \in Seq(S)
  PROVE  IsList(q) /\ ToSet(q) \subseteq S
BY ToSetType DEF IsList

-----------------------------------------------------------------------------
\* The contents of a file.
Content == [lib : {NONE, "debug", "release"}, libs : SUBSET LibNames, tool : BOOLEAN]
TreeTyped(t) == \A f \in DOMAIN t : t[f] \in Content

\* The files of the portfile link nothing.
LEMMA PlainTyped == Plain \in Content /\ Plain.libs = {}
BY DEF Plain, Content, NONE

\* A template that is filled in.
LEMMA Rendered ==
  ASSUME NEW f, NEW lib \in {"debug", "release"}, NEW tool \in BOOLEAN,
         f.libs \subseteq LibNames, f.tool \in BOOLEAN
  PROVE  /\ Render(f, lib, tool) \in Content
         /\ Render(f, lib, tool).libs = f.libs
         /\ f.libs # {} => Render(f, lib, tool).lib = lib
         /\ Render(f, lib, tool).tool = (f.tool /\ tool)
<1>1. (f.tool /\ tool) \in BOOLEAN
  OBVIOUS
<1> QED
  BY <1>1 DEF Render, Content, NONE

\* The files to come of a unit link libraries that there are.
LEMMA FilesTyped ==
  ASSUME exports \in Exports
  PROVE  /\ \A f \in ToSet(AbslFiles) : f.libs \subseteq LibNames /\ f.tool \in BOOLEAN
         /\ \A d \in DOMAIN SPECS : \A f \in ToSet(SPECS[d].files) :
              f.libs \subseteq LibNames /\ f.tool \in BOOLEAN
<1>1. Static(exports) \subseteq LibNames
  <2>1. \A e \in Exports : Static(e) \subseteq UNION {Static(d) : d \in Exports}
    BY Zenon
  <2>2. UNION {Static(e) : e \in Exports} \subseteq LibNames
    BY Zenon DEF LibNames
  <2> QED
    BY <2>1, <2>2
<1>2. \A f \in ToSet(AbslFiles) : f.libs \subseteq LibNames /\ f.tool \in BOOLEAN
  BY <1>1, AbslFits
<1>3. \A d \in DOMAIN SPECS : \A f \in ToSet(SPECS[d].files) : f.libs \subseteq LibNames
  <2> SUFFICES ASSUME NEW d \in DOMAIN SPECS, NEW f \in ToSet(SPECS[d].files), NEW l \in f.libs
               PROVE  l \in LibNames
    BY Zenon
  <2>1. l \in UNION {g.libs : g \in ToSet(SPECS[d].files)}
    BY Zenon
  <2>2. l \in UNION {UNION {g.libs : g \in ToSet(SPECS[e].files)} : e \in DOMAIN SPECS}
    BY <2>1, Zenon
  <2> QED
    BY <2>2, Zenon DEF LibNames
<1>4. \A d \in DOMAIN SPECS : \A f \in ToSet(SPECS[d].files) : f.tool \in BOOLEAN
  BY SpecsFit DEF FilesFit, Overlays
<1> QED
  BY <1>2, <1>3, <1>4

\* What is known of a run that writes the files of a unit.
LEMMA Writing ==
  ASSUME WebrtcTypeOK, QueueInv, place = "write"
  PROVE  /\ IsList(left) /\ IsList(queue)
         /\ unit = "abseil-cpp" => ToSet(left) \subseteq ToSet(AbslFiles) /\ queue = <<>>
         /\ unit # "abseil-cpp" =>
              /\ queue # <<>> /\ unit = Head(queue).name
              /\ unit \in Overlays /\ ToSet(left) \subseteq ToSet(SPECS[unit].files)
              /\ Head(queue) \in ToSet(PreAbsl) \cup ToSet(PostAbsl)
<1>1. queue \in Seq(Declared)
  BY DEF WebrtcTypeOK
<1>2. IsList(queue) /\ ToSet(queue) \subseteq Declared
  BY <1>1, ListsOf
<1>3. CASE unit = "abseil-cpp"
  <2>1. left \in Seq(ToSet(AbslFiles))
    BY <1>3 DEF WebrtcTypeOK
  <2>2. \A d \in Declared : d.name # "abseil-cpp"
    BY PreDeclared, PostDeclared, OverlayNames DEF Declared
  <2>3. queue = <<>>
    BY <1>2, <1>3, <2>2, ListTail DEF QueueInv
  <2> QED
    BY <1>2, <1>3, <2>1, <2>3, ListsOf
<1>4. CASE unit # "abseil-cpp"
  <2>1. queue # <<>> /\ unit = Head(queue).name
    BY <1>4 DEF QueueInv
  <2>2. Head(queue) \in Declared
    BY <1>2, <2>1, ListTail
  <2>3. unit \in Overlays
    BY <2>1, <2>2, PreDeclared, PostDeclared DEF Declared
  <2>4. DOMAIN SPECS \cap {unit} = {unit}
    BY <2>3 DEF Overlays
  <2>5. UNION {ToSet(SPECS[d].files) : d \in {unit}} = ToSet(SPECS[unit].files)
    OBVIOUS
  <2>6. left \in Seq(ToSet(SPECS[unit].files))
    BY <1>4, <2>4, <2>5 DEF WebrtcTypeOK
  <2> QED
    BY <1>2, <1>4, <2>1, <2>2, <2>3, <2>6, ListsOf DEF Declared
<1> QED
  BY <1>3, <1>4

-----------------------------------------------------------------------------
\* What the place says about the queue.
LEMMA Queues ==
  ASSUME WebrtcTypeOK, QueueInv
  PROVE  /\ IsList(queue)
         /\ place = "stage" /\ queue # <<>> => Head(queue) \in {"build", "buildtools"}
         /\ place = "unstaged" => queue # <<>> /\ Head(queue) \in {"build", "buildtools"}
         /\ place \in {"generate", "write"} =>
              ToSet(queue) \subseteq ToSet(PreAbsl) \/ ToSet(queue) \subseteq ToSet(PostAbsl)
         /\ place \in {"generate", "write"} /\ queue # <<>> =>
              /\ Head(queue) \in ToSet(PreAbsl) \cup ToSet(PostAbsl)
              /\ Head(queue).name \in Overlays
<1>1. IsList(queue)
  BY ListsOf DEF WebrtcTypeOK
<1>2. ASSUME place \in {"stage", "unstaged"}, queue # <<>>
      PROVE  Head(queue) \in {"build", "buildtools"}
  <2>1. queue \in {Repos, <<"buildtools">>}
    BY <1>2 DEF QueueInv
  <2> QED
    BY <2>1 DEF Repos
<1>3. place = "unstaged" => queue # <<>>
  BY Lists DEF QueueInv
<1>4. ASSUME place \in {"generate", "write"}
      PROVE  ToSet(queue) \subseteq ToSet(PreAbsl) \/ ToSet(queue) \subseteq ToSet(PostAbsl)
  <2>1. PICK p \in {"pre_absl", "post_absl"} : ToSet(queue) \subseteq ToSet(InPhase(p))
    BY <1>4 DEF QueueInv
  <2> QED
    BY <2>1 DEF InPhase
<1>5. ASSUME place \in {"generate", "write"}, queue # <<>>
      PROVE  /\ Head(queue) \in ToSet(PreAbsl) \cup ToSet(PostAbsl)
             /\ Head(queue).name \in Overlays
  <2>1. Head(queue) \in ToSet(queue)
    BY <1>1, <1>5, ListTail
  <2>2. Head(queue) \in ToSet(PreAbsl) \cup ToSet(PostAbsl)
    BY <1>4, <1>5, <2>1
  <2> QED
    BY <2>2, PreDeclared, PostDeclared
<1> QED
  BY <1>1, <1>2, <1>3, <1>4, <1>5

\* All owners, by the phase in which they write.
LEMMA LatePhases ==
  /\ Late = Names(PreAbsl) \cup AfterPre
  /\ AfterPre \subseteq Late /\ "abseil-cpp" \in AfterPre
  /\ Owners \ {"src"} = {"build", "buildtools", "rnnoise", "settings"} \cup Late
  /\ {"src", "build", "buildtools", "rnnoise", "settings"} \cap Late = {}
<1>1. "abseil-cpp" \notin Overlays
  BY OverlayNames
<1>2. Late = Names(PreAbsl) \cup AfterPre
  <2>1. Overlays = Names(PreAbsl) \cup Names(PostAbsl)
    BY PreDeclared, PostDeclared, OverlayNames
  <2> QED
    BY <2>1 DEF Late, AfterPre
<1>3. {"src", "build", "buildtools", "rnnoise", "settings"} \cap Late = {}
  BY OverlayNames DEF Late
<1> QED
  BY <1>2, <1>3 DEF Owners, AfterPre

\* The owner that is done with its files at the next step.
Finishing ==
  CASE place = "unstaged" -> {Head(queue)}
    [] place = "blobs" /\ queue = <<>> -> {"rnnoise"}
    [] place = "settings" -> {"settings"}
    [] place = "write" /\ left = <<>> -> {unit}
    [] OTHER -> {}

\* What is to come at a place is among the owners but for WebRTC itself.
LEMMA ToComeIsOwned ==
  ASSUME WebrtcTypeOK, QueueInv
  PROVE  ToCome \subseteq Owners \ {"src"}
<1>1. CASE place \in {"stage", "unstaged"}
  <2>1. ToSet(queue) \subseteq {"build", "buildtools"}
    <3>1. ToSet(<<"buildtools">>) = {"buildtools"}
      BY List1
    <3>2. ToSet(<<>>) = {}
      BY DEF ToSet
    <3> QED
      BY <1>1, <3>1, <3>2, Lists DEF QueueInv
  <2> QED
    BY <1>1, <2>1, RemainingEarly, LatePhases DEF ToCome
<1>2. CASE place \in {"blobs", "settings", "probe"}
  BY <1>2, RemainingEarly, LatePhases DEF ToCome
<1>3. CASE place \in {"generate", "write"} /\ unit # "abseil-cpp"
  <2>1. Names(queue) \subseteq Late
    <3>1. \A d \in ToSet(queue) : d.name \in Late
      BY <1>3, Queues, PreDeclared, PostDeclared DEF Late
    <3> QED
      BY <3>1 DEF Names
  <2> QED
    BY <1>3, <2>1, RemainingLate, LatePhases DEF ToCome
<1>4. CASE place \in {"absl", "plan", "exports"} \/ (place = "write" /\ unit = "abseil-cpp")
  BY <1>4, RemainingLate, LatePhases DEF ToCome
<1>5. CASE place \in {"gn", "install", "idle", "done", "failed", "stopped"}
  BY <1>5, RemainingLate DEF ToCome
<1>6. place = "generate" => unit # "abseil-cpp"
  BY DEF QueueInv, NONE
<1> QED
  BY <1>1, <1>2, <1>3, <1>4, <1>5, <1>6 DEF WebrtcTypeOK

\* The names of a list that has been worked off.
LEMMA NoNames == Names(<<>>) = {} /\ ToSet(<<>>) = {}
BY DEF Names, ToSet

\* A step takes no owner off the ones to come but the one it is done with.
LEMMA ToComeStep ==
  ASSUME WebrtcTypeOK, QueueInv, WebrtcNext
  PROVE  ToCome \subseteq ToCome' \cup Finishing
<1>1. CASE FetchWebrtc
  <2>1. ToCome = Owners \ {"src"}
    BY <1>1, RemainingLate DEF FetchWebrtc, Resting, ToCome
  <2>2. ToCome' = {"build", "buildtools", "rnnoise", "settings"} \cup Late
    BY <1>1, RemainingEarly, Lists DEF FetchWebrtc, ToCome
  <2> QED
    BY <2>1, <2>2, LatePhases
<1>2. CASE Unstage
  BY <1>2, RemainingEarly DEF Unstage, ToCome
<1>3. CASE Stage
  <2>1. ToSet(queue) = {Head(queue)} \cup ToSet(Tail(queue))
    BY <1>3, Queues, ListTail DEF Stage
  <2> QED
    BY <1>3, <2>1, RemainingEarly DEF Stage, ToCome, Finishing
<1>4. CASE Clean
  BY <1>4, RemainingEarly, NoNames DEF Clean, ToCome
<1>5. CASE Materialize
  BY <1>5, RemainingEarly DEF Materialize, ToCome
<1>6. CASE ScriptExecutable
  BY <1>6, RemainingEarly DEF ScriptExecutable, ToCome, Finishing
<1>7. CASE Settings
  BY <1>7, RemainingEarly DEF Settings, ToCome, Finishing
<1>8. CASE AdjustDse
  <2>1. ToCome = Late
    BY <1>8, RemainingEarly DEF AdjustDse, ToCome
  <2>2. CASE BeginConfig(1)
    <3>1. place' = "generate" /\ queue' = PreAbsl /\ unit' # "abseil-cpp"
      BY <1>8, <2>2 DEF BeginConfig, InPhase, AdjustDse, writing, QueueInv, NONE
    <3>2. Head(queue').phase = "pre_absl"
      BY <3>1, PreDeclared, ListTail
    <3>3. ToCome' = Names(PreAbsl) \cup AfterPre
      BY <3>1, <3>2, RemainingLate DEF ToCome
    <3> QED
      BY <2>1, <3>3, LatePhases
  <2>3. CASE place' = "failed"
    <3>1. ToCome' = Owners \ {"src"}
      BY <2>3, RemainingLate DEF ToCome
    <3> QED
      BY <2>1, <3>1, LatePhases
  <2> QED
    BY <1>8, <2>2, <2>3 DEF AdjustDse
<1>9. CASE ClearOverlay
  <2>1. /\ place = "generate" /\ place' = "write" /\ queue' = queue
        /\ unit # "abseil-cpp" /\ unit' # "abseil-cpp"
    BY <1>9, Queues, OverlayNames DEF ClearOverlay, QueueInv, NONE
  <2> QED
    BY <2>1, RemainingLate DEF ToCome
<1>10. CASE WriteFile
  BY <1>10 DEF WriteFile, ToCome
<1>11. CASE EndUnit
  <2>1. /\ place = "write" /\ left = <<>> /\ unit' = NONE /\ unit' # "abseil-cpp"
        /\ Finishing = {unit}
    BY <1>11 DEF EndUnit, Finishing, NONE
  <2>2. CASE unit = "abseil-cpp"
    <3>1. ToCome = AfterPre
      BY <2>1, <2>2, RemainingLate DEF ToCome
    <3>2. queue' = PostAbsl /\ place' = "generate"
      BY <1>11, <2>2, PostDeclared DEF EndUnit, InPhase
    <3>3. Names(PostAbsl) \subseteq ToCome'
      BY <2>1, <3>2, RemainingLate DEF ToCome
    <3> QED
      BY <2>1, <2>2, <3>1, <3>3 DEF AfterPre
  <2>3. CASE unit # "abseil-cpp"
    <3>1. /\ queue # <<>> /\ unit = Head(queue).name /\ queue' = Tail(queue)
          /\ Names(queue) = {unit} \cup Names(Tail(queue))
          /\ ToSet(queue) = {Head(queue)} \cup ToSet(Tail(queue)) /\ IsList(Tail(queue))
      <4>1. queue # <<>> /\ unit = Head(queue).name
        BY <2>1, <2>3 DEF QueueInv
      <4> QED
        BY <1>11, <2>3, <4>1, Queues, ListTail DEF EndUnit
    <3>2. ToCome = Names(queue) \cup (IF Head(queue).phase = "pre_absl" THEN AfterPre ELSE {})
      BY <2>1, <2>3, RemainingLate DEF ToCome
    <3>3. CASE queue' # <<>>
      <4>1. place' = "generate" /\ Head(Tail(queue)) \in ToSet(Tail(queue))
        BY <1>11, <3>1, <3>3, ListTail DEF EndUnit
      <4>2. Head(queue).phase = "pre_absl" => Head(Tail(queue)).phase = "pre_absl"
        BY <2>1, <3>1, <4>1, Queues, PreDeclared, PostDeclared
      <4>3. ToCome' = Names(queue')
                        \cup (IF Head(queue').phase = "pre_absl" THEN AfterPre ELSE {})
        BY <2>1, <4>1, RemainingLate DEF ToCome
      <4> QED
        BY <2>1, <3>1, <3>2, <4>2, <4>3
    <3>4. CASE queue' = <<>>
      <4>1. Names(queue) = {unit}
        BY <3>1, <3>4, NoNames
      <4>2. CASE Head(queue).phase = "pre_absl"
        <5>1. place' = "absl"
          BY <1>11, <3>4, <4>2 DEF EndUnit
        <5>2. ToCome' = AfterPre
          BY <5>1, RemainingLate DEF ToCome
        <5> QED
          BY <2>1, <3>2, <4>1, <5>2
      <4>3. CASE Head(queue).phase # "pre_absl"
        BY <2>1, <3>2, <4>1, <4>3
      <4> QED
        BY <4>2, <4>3
    <3> QED
      BY <3>3, <3>4
  <2> QED
    BY <2>2, <2>3
<1>12. CASE RemoveAbsl
  BY <1>12, RemainingLate DEF RemoveAbsl, ToCome
<1>13. CASE PlanAbsl
  <2>1. ToCome = AfterPre
    BY <1>13, RemainingLate DEF PlanAbsl, ToCome
  <2>2. ToCome' \in {AfterPre, Owners \ {"src"}}
    <3>1. place' \in {"exports", "failed"}
      BY <1>13 DEF PlanAbsl
    <3> QED
      BY <3>1, RemainingLate DEF ToCome
  <2> QED
    BY <2>1, <2>2, LatePhases
<1>14. CASE WriteExports
  BY <1>14, RemainingLate DEF WriteExports, ToCome
<1>15. CASE BuildConfig
  BY <1>15, RemainingLate DEF BuildConfig, ToCome
<1>16. CASE Install
  BY <1>16, RemainingLate DEF Install, ToCome
<1>17. CASE Stop
  <2>1. ToCome' = Owners \ {"src"}
    BY <1>17, RemainingLate DEF Stop, ToCome
  <2> QED
    BY <2>1, ToComeIsOwned
<1>18. CASE Upgrade
  <2>1. ToCome' = Owners \ {"src"}
    BY <1>18, RemainingLate DEF Upgrade, ToCome
  <2> QED
    BY <2>1, ToComeIsOwned
<1> QED
  BY <1>1, <1>2, <1>3, <1>4, <1>5, <1>6, <1>7, <1>8, <1>9, <1>10, <1>11, <1>12, <1>13, <1>14,
     <1>15, <1>16, <1>17, <1>18, Zenon DEF WebrtcNext

-----------------------------------------------------------------------------
\* The queue and the unit agree with the place.
LEMMA QueueStep ==
  ASSUME WebrtcTypeOK, QueueInv, WebrtcNext
  PROVE  QueueInv'
<1>1. CASE FetchWebrtc
  <2>1. place' = "stage" /\ queue' = Repos /\ unit' = NONE
    BY <1>1 DEF FetchWebrtc, writing, QueueInv, Resting
  <2> QED
    BY <2>1 DEF QueueInv
<1>2. CASE Unstage
  <2>1. /\ place' = "unstaged" /\ unit' = NONE
        /\ queue' \in {Repos, <<"buildtools">>}
    BY <1>2 DEF Unstage, writing, QueueInv
  <2> QED
    BY <2>1 DEF QueueInv
<1>3. CASE Stage
  <2>1. /\ place' = "stage" /\ unit' = NONE
        /\ queue' \in {<<"buildtools">>, <<>>}
    BY <1>3, Lists DEF Stage, writing, QueueInv
  <2> QED
    BY <2>1 DEF QueueInv
<1>4. CASE place' \in {"blobs", "settings", "probe", "idle", "done", "failed", "stopped"} /\ unit' = NONE
  BY <1>4 DEF QueueInv
<1>5. CASE Clean \/ Materialize \/ ScriptExecutable \/ Settings \/ Stop
  <2>1. /\ place' \in {"blobs", "settings", "probe", "idle", "done", "failed", "stopped"}
        /\ unit' = NONE
    BY <1>5 DEF Clean, Materialize, ScriptExecutable, Settings, Stop, writing, QueueInv
  <2> QED
    BY <1>4, <2>1
<1>6. CASE Install \/ Upgrade
  <2>1. place' \in {"idle", "done"} /\ unit' = NONE
    BY <1>6 DEF Install, Upgrade, Resting, writing, QueueInv
  <2> QED
    BY <1>4, <2>1
<1>7. CASE AdjustDse
  <2>1. unit' = NONE
    BY <1>7 DEF AdjustDse, writing, QueueInv
  <2>2. CASE BeginConfig(1)
    <3>1. place' = "generate" /\ queue' = PreAbsl /\ queue' # <<>>
      BY <2>2, PreDeclared DEF BeginConfig, InPhase
    <3>2. \E p \in {"pre_absl", "post_absl"} : ToSet(queue') \subseteq ToSet(InPhase(p))
      BY <3>1 DEF InPhase
    <3> QED
      BY <2>1, <3>1, <3>2 DEF QueueInv
  <2>3. CASE place' = "failed"
    BY <1>4, <2>1, <2>3
  <2> QED
    BY <1>7, <2>2, <2>3 DEF AdjustDse
<1>8. CASE BuildConfig
  <2>1. unit' = NONE /\ queue = <<>>
    BY <1>8 DEF BuildConfig, writing, QueueInv
  <2>2. CASE BeginConfig(2)
    <3>1. place' = "generate" /\ queue' = PreAbsl /\ queue' # <<>>
      BY <2>2, PreDeclared DEF BeginConfig, InPhase
    <3>2. \E p \in {"pre_absl", "post_absl"} : ToSet(queue') \subseteq ToSet(InPhase(p))
      BY <3>1 DEF InPhase
    <3> QED
      BY <2>1, <3>1, <3>2 DEF QueueInv
  <2>3. CASE place' = "install" /\ queue' = queue
    BY <2>1, <2>3 DEF QueueInv
  <2> QED
    BY <1>8, <2>2, <2>3 DEF BuildConfig
<1>9. CASE ClearOverlay
  <2>1. /\ place = "generate" /\ place' = "write" /\ queue # <<>> /\ queue' = queue
        /\ unit' = Head(queue).name
    BY <1>9 DEF ClearOverlay
  <2>2. \E p \in {"pre_absl", "post_absl"} : ToSet(queue) \subseteq ToSet(InPhase(p))
    BY <2>1 DEF QueueInv
  <2> QED
    BY <2>1, <2>2 DEF QueueInv
<1>10. CASE WriteFile
  <2>1. /\ place = "write" /\ place' = "write" /\ queue' = queue /\ unit' = unit
    BY <1>10 DEF WriteFile
  <2> QED
    BY <2>1 DEF QueueInv
<1>11. CASE EndUnit
  <2>1. place = "write" /\ unit' = NONE /\ place' \in {"generate", "absl", "gn"}
    BY <1>11 DEF EndUnit
  <2>2. \E p \in {"pre_absl", "post_absl"} : ToSet(queue') \subseteq ToSet(InPhase(p))
    <3>1. CASE unit = "abseil-cpp"
      BY <1>11, <3>1 DEF EndUnit
    <3>2. CASE unit # "abseil-cpp"
      <4>1. queue # <<>> /\ queue' = Tail(queue)
        BY <1>11, <2>1, <3>2 DEF EndUnit, QueueInv
      <4>2. ToSet(queue') \subseteq ToSet(queue)
        BY <4>1, Queues, ListTail
      <4>3. PICK p \in {"pre_absl", "post_absl"} : ToSet(queue) \subseteq ToSet(InPhase(p))
        BY <2>1 DEF QueueInv
      <4> QED
        BY <4>2, <4>3
    <3> QED
      BY <3>1, <3>2
  <2>3. place' # "generate" => queue' = <<>>
    BY <1>11 DEF EndUnit
  <2>4. place' = "generate" => queue' # <<>>
    BY <1>11 DEF EndUnit
  <2> QED
    BY <2>1, <2>2, <2>3, <2>4 DEF QueueInv
<1>12. CASE RemoveAbsl \/ PlanAbsl
  <2>1. /\ queue = <<>> /\ queue' = queue /\ unit' = NONE
        /\ place' \in {"plan", "exports", "failed"}
    BY <1>12 DEF RemoveAbsl, PlanAbsl, writing, QueueInv
  <2> QED
    BY <2>1 DEF QueueInv
<1>13. CASE WriteExports
  <2>1. queue = <<>> /\ queue' = queue /\ place' = "write" /\ unit' = "abseil-cpp"
    BY <1>13 DEF WriteExports, QueueInv
  <2>2. \E p \in {"pre_absl", "post_absl"} : ToSet(queue') \subseteq ToSet(InPhase(p))
    BY <2>1, NoNames
  <2> QED
    BY <2>1, <2>2 DEF QueueInv
<1> QED
  BY <1>1, <1>2, <1>3, <1>5, <1>6, <1>7, <1>8, <1>9, <1>10, <1>11, <1>12, <1>13, Zenon DEF WebrtcNext

\* .gn is patched, or torn, once the portfile has been there.
LEMMA DotgnStep ==
  ASSUME WebrtcTypeOK, QueueInv, TreeInv, DotgnInv, WebrtcNext
  PROVE  DotgnInv' /\ (~Resting' => dotgn' # NONE)
<1>1. CASE FetchWebrtc
  BY <1>1 DEF FetchWebrtc, DotgnInv, Configuring, NONE
<1>2. CASE Unstage \/ Stage \/ Clean \/ Materialize
  BY <1>2 DEF Unstage, Stage, Clean, Materialize, DotgnInv, Configuring, TreeInv, Resting
<1>3. CASE ScriptExecutable
  <2>1. dotgn # NONE
    BY <1>3 DEF ScriptExecutable, TreeInv, Resting
  <2> QED
    BY <1>3, <2>1 DEF ScriptExecutable, DotgnInv, Configuring, WebrtcTypeOK, NONE
<1>4. CASE Settings \/ AdjustDse
  BY <1>4 DEF Settings, AdjustDse, DotgnInv, Configuring, NONE
<1>5. CASE ClearOverlay \/ WriteFile \/ EndUnit
  BY <1>5 DEF ClearOverlay, WriteFile, EndUnit, DotgnInv, Configuring, NONE
<1>6. CASE RemoveAbsl \/ PlanAbsl \/ WriteExports
  BY <1>6 DEF RemoveAbsl, PlanAbsl, WriteExports, DotgnInv, Configuring, NONE
<1>7. CASE BuildConfig \/ Install
  BY <1>7 DEF BuildConfig, Install, DotgnInv, Configuring, NONE
<1>8. CASE Stop \/ Upgrade
  BY <1>8 DEF Stop, Upgrade, DotgnInv, Configuring, Resting
<1> QED
  BY <1>1, <1>2, <1>3, <1>4, <1>5, <1>6, <1>7, <1>8, Zenon DEF WebrtcNext

\* The files of the build directory.
LEMMA DseIsInBuild == Dse \in RepoFiles("build") /\ Dse[1] = "build" /\ Dse \notin OwnFiles
BY DEF RepoFiles, Dse, OwnFiles

\* The lifetime-dse block is there until it is adjusted.
LEMMA DseStep ==
  ASSUME WebrtcTypeOK, QueueInv, DseInv, WebrtcNext
  PROVE  DseInv'
<1>1. CASE FetchWebrtc
  BY <1>1, Lists DEF FetchWebrtc, DseInv
<1>2. CASE Unstage
  <2>1. place = "stage" /\ queue # <<>> /\ place' = "unstaged" /\ queue' = queue
    BY <1>2 DEF Unstage
  <2>2. CASE Head(queue) = "build"
    BY <2>1, <2>2, Queues, ListTail DEF DseInv
  <2>3. CASE Head(queue) # "build"
    <3>1. Head(queue) = "buildtools"
      BY <2>1, <2>3, Queues
    <3>2. "build" \in Units \ {"buildtools"} /\ "buildtools" \in Cleared
      BY DEF Units, Cleared
    <3>3. Dse \in DOMAIN tree => Dse \in DOMAIN tree'
      BY <1>2, <3>1, <3>2, Clearing, DseIsInBuild DEF Unstage
    <3> QED
      BY <2>1, <3>3 DEF DseInv
  <2> QED
    BY <2>2, <2>3
<1>3. CASE Stage
  <2>1. /\ place = "unstaged" /\ place' = "stage" /\ queue' = Tail(queue)
        /\ DOMAIN tree' = DOMAIN tree \cup RepoFiles(Head(queue))
    BY <1>3, PuttingAll DEF Stage
  <2>2. ToSet(queue) = {Head(queue)} \cup ToSet(Tail(queue))
    BY <2>1, Queues, ListTail
  <2> QED
    BY <2>1, <2>2, DseIsInBuild DEF DseInv
<1>4. CASE Clean
  <2>1. Dse \in DOMAIN tree
    BY <1>4, NoNames DEF Clean, DseInv
  <2>2. {"testing", "tools", "rnnoise"} \subseteq Cleared /\ "build" \in Units
    BY OverlayNames DEF Units, Cleared, Late
  <2> DEFINE t1 == Without(tree, "testing")
             t2 == Without(t1, "tools")
             t3 == Without(t2, "rnnoise")
  <2>3. Dse \in DOMAIN t1
    BY <2>1, <2>2, Clearing, DseIsInBuild
  <2> HIDE DEF t1
  <2>4. Dse \in DOMAIN t2
    BY <2>2, <2>3, Clearing, DseIsInBuild
  <2> HIDE DEF t2
  <2>5. Dse \in DOMAIN t3
    BY <2>2, <2>4, Clearing, DseIsInBuild
  <2>6. tree' = t3
    BY <1>4 DEF Clean, t1, t2
  <2> QED
    BY <2>5, <2>6 DEF DseInv
<1>5. CASE Materialize
  <2>1. DOMAIN tree \subseteq DOMAIN tree'
    <3> DEFINE f == <<"rnnoise", Head(queue)>>
    <3>1. tree' = Put(tree, f, Plain)
      BY <1>5 DEF Materialize
    <3> HIDE DEF f
    <3>2. DOMAIN tree' = DOMAIN tree \cup {f}
      BY <3>1, Putting
    <3> QED
      BY <3>2
  <2>2. place = "blobs"
    BY <1>5 DEF Materialize
  <2> QED
    BY <2>1, <2>2 DEF DseInv
<1>6. CASE ScriptExecutable
  BY <1>6 DEF ScriptExecutable, DseInv
<1>7. CASE Settings
  <2>1. DOMAIN tree \subseteq DOMAIN tree'
    <3>1. tree' = PutAll(tree, OwnFiles)
      BY <1>7 DEF Settings
    <3>2. DOMAIN tree' = DOMAIN tree \cup OwnFiles
      BY <3>1, PuttingAll
    <3> QED
      BY <3>2
  <2>2. place = "settings"
    BY <1>7 DEF Settings
  <2> QED
    BY <2>1, <2>2 DEF DseInv
<1>8. CASE AdjustDse \/ ClearOverlay \/ WriteFile \/ EndUnit
  BY <1>8 DEF AdjustDse, BeginConfig, ClearOverlay, WriteFile, EndUnit, DseInv
<1>9. CASE RemoveAbsl \/ PlanAbsl \/ WriteExports \/ BuildConfig \/ Install
  BY <1>9 DEF RemoveAbsl, PlanAbsl, WriteExports, BuildConfig, BeginConfig, Install, DseInv
<1>10. CASE Stop \/ Upgrade
  BY <1>10 DEF Stop, Upgrade, DseInv
<1> QED
  BY <1>1, <1>2, <1>3, <1>4, <1>5, <1>6, <1>7, <1>8, <1>9, <1>10, Zenon DEF WebrtcNext

\* The library of the debug build is installed before the release build begins.
LEMMA InstStep ==
  ASSUME WebrtcTypeOK, InstInv, WebrtcNext
  PROVE  InstInv'
<1>1. CASE FetchWebrtc \/ Unstage \/ Stage \/ Clean \/ Materialize \/ ScriptExecutable \/ Settings
  BY <1>1 DEF FetchWebrtc, Unstage, Stage, Clean, Materialize, ScriptExecutable, Settings,
              InstInv, Configuring
<1>2. CASE AdjustDse
  BY <1>2 DEF AdjustDse, BeginConfig, InstInv, Configuring
<1>3. CASE ClearOverlay \/ WriteFile \/ EndUnit
  BY <1>3 DEF ClearOverlay, WriteFile, EndUnit, InstInv, Configuring, package
<1>4. CASE RemoveAbsl \/ PlanAbsl \/ WriteExports
  BY <1>4 DEF RemoveAbsl, PlanAbsl, WriteExports, InstInv, Configuring, package
<1>5. CASE BuildConfig
  <2>1. place = "gn" /\ installed' = installed \cup {Configs[config]} /\ config \in 1..2
    BY <1>5 DEF BuildConfig, WebrtcTypeOK
  <2>2. CASE config = 1
    BY <1>5, <2>1, <2>2 DEF BuildConfig, BeginConfig, InstInv, Configuring, Configs
  <2>3. CASE config = 2
    <3>1. installed' = {"debug", "release"} /\ place' = "install"
      <4>1. ToSet(Configs) = {"debug", "release"} /\ Configs[2] = "release"
        BY List2 DEF Configs
      <4> QED
        BY <1>5, <2>1, <2>3, <4>1 DEF BuildConfig, InstInv, Configuring, WebrtcTypeOK
    <3> QED
      BY <3>1 DEF InstInv, Configuring
  <2> QED
    BY <2>1, <2>2, <2>3
<1>6. CASE Install \/ Stop \/ Upgrade
  BY <1>6 DEF Install, Stop, Upgrade, InstInv, Configuring
<1> QED
  BY <1>1, <1>2, <1>3, <1>4, <1>5, <1>6, Zenon DEF WebrtcNext

\* Only labels or exports of abseil make a run fail by itself.
LEMMA RebuildsStep ==
  ASSUME WebrtcTypeOK, DseInv, RebuildsSucceed, WebrtcNext
  PROVE  RebuildsSucceed'
<1>1. CASE AdjustDse
  BY <1>1 DEF AdjustDse, BeginConfig, DseInv, RebuildsSucceed
<1>2. CASE PlanAbsl
  BY <1>2 DEF PlanAbsl, RebuildsSucceed, KnownTargets
<1>3. CASE place' # "failed"
  BY <1>3 DEF RebuildsSucceed
<1>4. CASE FetchWebrtc \/ Unstage \/ Stage \/ Clean \/ Materialize \/ ScriptExecutable \/ Settings
  BY <1>3, <1>4 DEF FetchWebrtc, Unstage, Stage, Clean, Materialize, ScriptExecutable, Settings
<1>5. CASE ClearOverlay \/ WriteFile \/ EndUnit \/ RemoveAbsl \/ WriteExports
  BY <1>3, <1>5 DEF ClearOverlay, WriteFile, EndUnit, RemoveAbsl, WriteExports
<1>6. CASE BuildConfig \/ Install \/ Stop \/ Upgrade
  BY <1>3, <1>6 DEF BuildConfig, BeginConfig, Install, Stop, Upgrade
<1> QED
  BY <1>1, <1>2, <1>4, <1>5, <1>6, Zenon DEF WebrtcNext

-----------------------------------------------------------------------------
\* Removing a directory leaves the files of the other owners.
LEMMA OthersKeepFiles ==
  ASSUME NEW t, NEW u \in Cleared, NEW o \in Owners, o # u, u = "build" => o # "settings",
         FilesOf(o) \subseteq DOMAIN t
  PROVE  FilesOf(o) \subseteq DOMAIN Without(t, u)
<1> SUFFICES ASSUME NEW f \in FilesOf(o)
             PROVE  f \in DOMAIN Without(t, u)
  OBVIOUS
<1>1. u # "compiler-rt"
  BY OverlayNames DEF Cleared, Late
<1>2. f[1] \in Units \ {u}
  BY <1>1, OwnersOfFiles
<1>3. f \in DOMAIN t
  OBVIOUS
<1> QED
  BY <1>2, <1>3, Clearing

\* What an owner has to write depends on nothing that changes.
LEMMA FilesStay ==
  ASSUME host' = host
  PROVE  OwnFiles' = OwnFiles /\ \A o : FilesOf(o)' = FilesOf(o)
<1>1. OwnFiles' = OwnFiles
  BY DEF OwnFiles
<1> QED
  BY <1>1, Zenon DEF FilesOf

\* The host stays what it is.
LEMMA HostStays == WebrtcNext => host' = host
BY DEF WebrtcNext, FetchWebrtc, Unstage, Stage, Clean, Materialize, ScriptExecutable, Settings,
       AdjustDse, ClearOverlay, WriteFile, EndUnit, RemoveAbsl, PlanAbsl, WriteExports,
       BuildConfig, Install, Stop, Upgrade, choices

\* The files of a unit that is written are those of its owner.
LEMMA UnitFiles ==
  ASSUME NEW u \in Late
  PROVE  FilesOf(u) = {u} \X NamesOf(u)
<1>1. u \notin {"src", "build", "buildtools", "rnnoise", "settings"}
  BY OverlayNames DEF Late
<1>2. CASE u = "abseil-cpp"
  BY <1>2 DEF FilesOf, NamesOf
<1>3. CASE u # "abseil-cpp"
  BY <1>1, <1>3 DEF FilesOf, NamesOf
<1> QED
  BY <1>2, <1>3

\* The lifetime-dse block is nothing that an owner is to leave in the tree.
LEMMA DseIsNotOwned ==
  ASSUME NEW o \in Owners
  PROVE  Dse \notin FilesOf(o)
<1> SUFFICES ASSUME Dse \in FilesOf(o)
             PROVE  FALSE
  OBVIOUS
<1>1. o = "settings" \/ o = "build"
  BY OwnersOfFiles, DseIsInBuild
<1> QED
  BY <1>1, DseIsInBuild DEF FilesOf

\* An owner that is done, or is so with this step, has its files in the tree.
LEMMA OwnedStep ==
  ASSUME WebrtcTypeOK, QueueInv, TreeInv, WebrtcNext, dotgn' # NONE,
         NEW o \in Owners, o \notin ToCome'
  PROVE  FilesOf(o) \subseteq DOMAIN tree'
<1>1. o \in ToCome => o \in Finishing
  BY ToComeStep
<1>2. dotgn # NONE /\ o \notin ToCome => FilesOf(o) \subseteq DOMAIN tree
  BY DEF TreeInv
<1>3. ~Resting => dotgn # NONE
  BY DEF TreeInv
<1>4. CASE FetchWebrtc
  <2>1. ToCome' = {"build", "buildtools", "rnnoise", "settings"} \cup Late
    BY <1>4, RemainingEarly, Lists DEF FetchWebrtc, ToCome
  <2>2. o = "src" /\ FilesOf(o) = {<<"src", "all">>}
    BY <2>1, LatePhases DEF FilesOf
  <2>3. CASE editable /\ dotgn # NONE
    <3>1. tree' = tree /\ o \notin ToCome
      BY <1>4, <2>2, <2>3, ToComeIsOwned DEF FetchWebrtc
    <3> QED
      BY <1>2, <2>3, <3>1
  <2>4. CASE ~(editable /\ dotgn # NONE)
    <3>1. tree' = Upstream
      BY <1>4, <2>4 DEF FetchWebrtc
    <3>2. DOMAIN Upstream = {<<"src", "all">>}
      <4> DEFINE S == {<<"src", "all">>}
      <4>1. Upstream = PutAll(<<>>, S) /\ DOMAIN <<>> = {}
        BY DEF Upstream
      <4> HIDE DEF S
      <4>2. DOMAIN PutAll(<<>>, S) = DOMAIN <<>> \cup S
        BY PuttingAll
      <4> QED
        BY <4>1, <4>2 DEF S
    <3> QED
      BY <2>2, <3>1, <3>2
  <2> QED
    BY <2>3, <2>4
<1>5. CASE Unstage
  <2>1. /\ place = "stage" /\ queue # <<>> /\ place' = "unstaged" /\ queue' = queue
        /\ tree' = Without(tree, Head(queue))
    BY <1>5 DEF Unstage
  <2>2. Head(queue) \in {"build", "buildtools"} /\ Head(queue) \in Cleared
    BY <2>1, Queues DEF Cleared
  <2>3. ToCome' = ToCome /\ Head(queue) \in ToCome /\ "settings" \in ToCome
    <3>1. Head(queue) \in ToSet(queue)
      BY <2>1, Queues, ListTail
    <3>2. ToCome = ToSet(queue) \cup {"rnnoise", "settings"} \cup Late
      BY <2>1, RemainingEarly DEF ToCome
    <3>3. ToCome' = ToSet(queue) \cup {"rnnoise", "settings"} \cup Late
      BY <2>1, RemainingEarly DEF ToCome
    <3> QED
      BY <3>1, <3>2, <3>3
  <2>4. FilesOf(o) \subseteq DOMAIN tree
    BY <1>2, <1>3, <2>1, <2>3 DEF Resting
  <2> QED
    BY <2>1, <2>2, <2>3, <2>4, OthersKeepFiles
<1>6. CASE Stage
  <2>1. /\ place = "unstaged" /\ Finishing = {Head(queue)}
        /\ tree' = PutAll(tree, RepoFiles(Head(queue)))
    BY <1>6 DEF Stage, Finishing
  <2>2. DOMAIN tree' = DOMAIN tree \cup RepoFiles(Head(queue))
    BY <2>1, PuttingAll
  <2>3. CASE o = Head(queue)
    <3>1. FilesOf(o) \subseteq RepoFiles(o)
      BY <2>1, <2>3, Queues DEF FilesOf
    <3> QED
      BY <2>2, <2>3, <3>1
  <2>4. CASE o # Head(queue)
    BY <1>1, <1>2, <1>3, <2>1, <2>2, <2>4 DEF Resting
  <2> QED
    BY <2>3, <2>4
<1>7. CASE Clean
  <2>1. place = "stage" /\ queue = <<>> /\ place' = "blobs" /\ Finishing = {}
    BY <1>7 DEF Clean, Finishing
  <2>2. ToCome' = {"rnnoise", "settings"} \cup Late
    BY <2>1, RemainingEarly DEF ToCome
  <2>3. o \notin {"testing", "tools", "rnnoise"} /\ {"testing", "tools", "rnnoise"} \subseteq Cleared
    BY <2>2, OverlayNames DEF Cleared, Late
  <2>4. FilesOf(o) \subseteq DOMAIN tree
    BY <1>1, <1>2, <1>3, <2>1 DEF Resting
  <2> DEFINE t1 == Without(tree, "testing")
             t2 == Without(t1, "tools")
             t3 == Without(t2, "rnnoise")
  <2>5. tree' = t3
    BY <1>7 DEF Clean
  <2>6. FilesOf(o) \subseteq DOMAIN t1
    BY <2>3, <2>4, OthersKeepFiles
  <2> HIDE DEF t1
  <2>7. FilesOf(o) \subseteq DOMAIN t2
    BY <2>3, <2>6, OthersKeepFiles
  <2> HIDE DEF t2
  <2>8. FilesOf(o) \subseteq DOMAIN t3
    BY <2>3, <2>7, OthersKeepFiles
  <2> QED
    BY <2>5, <2>8
<1>8. CASE Materialize
  <2> DEFINE f == <<"rnnoise", Head(queue)>>
  <2>1. place = "blobs" /\ queue # <<>> /\ tree' = Put(tree, f, Plain)
    BY <1>8 DEF Materialize
  <2> HIDE DEF f
  <2>2. DOMAIN tree' = DOMAIN tree \cup {f}
    BY <2>1, Putting
  <2>3. Finishing = {}
    BY <2>1 DEF Finishing
  <2> QED
    BY <1>1, <1>2, <1>3, <2>1, <2>2, <2>3 DEF Resting
<1>9. CASE ScriptExecutable
  <2>1. place = "blobs" /\ queue = <<>> /\ tree' = tree /\ Finishing = {"rnnoise"}
    BY <1>9 DEF ScriptExecutable, Finishing
  <2>2. \A n \in ToSet(RnnoiseFiles) : <<"rnnoise", n>> \in DOMAIN tree
    BY <2>1, NoNames DEF TreeInv
  <2>3. FilesOf("rnnoise") = {"rnnoise"} \X ToSet(RnnoiseFiles)
    BY DEF FilesOf
  <2> QED
    BY <1>1, <1>2, <1>3, <2>1, <2>2, <2>3 DEF Resting
<1>10. CASE Settings
  <2>1. place = "settings" /\ tree' = PutAll(tree, OwnFiles) /\ Finishing = {"settings"}
    BY <1>10 DEF Settings, Finishing
  <2>2. DOMAIN tree' = DOMAIN tree \cup OwnFiles
    BY <2>1, PuttingAll
  <2>3. FilesOf("settings") = OwnFiles
    BY DEF FilesOf
  <2> QED
    BY <1>1, <1>2, <1>3, <2>1, <2>2, <2>3 DEF Resting
<1>11. CASE AdjustDse
  <2>1. place = "probe" /\ Finishing = {}
    BY <1>11 DEF AdjustDse, Finishing
  <2>2. FilesOf(o) \subseteq DOMAIN tree
    BY <1>1, <1>2, <1>3, <2>1 DEF Resting
  <2>3. DOMAIN tree \ {Dse} \subseteq DOMAIN tree'
    BY <1>11 DEF AdjustDse
  <2> QED
    BY <2>2, <2>3, DseIsNotOwned
<1>12. CASE ClearOverlay
  <2>1. /\ place = "generate" /\ queue # <<>> /\ place' = "write" /\ queue' = queue
        /\ unit' = Head(queue).name /\ Finishing = {}
    BY <1>12 DEF ClearOverlay, Finishing
  <2>2. Head(queue).name \in Overlays /\ Head(queue).name \in Names(queue)
    BY <2>1, Queues, ListTail
  <2>3. unit' # "abseil-cpp"
    BY <2>1, <2>2, OverlayNames
  <2>4. Head(queue).name \in ToCome'
    BY <2>1, <2>2, <2>3, RemainingLate DEF ToCome
  <2>5. FilesOf(o) \subseteq DOMAIN tree
    BY <1>1, <1>2, <1>3, <2>1 DEF Resting
  <2>6. CASE SPECS[Head(queue).name].preserve_root
    BY <1>12, <2>5, <2>6 DEF ClearOverlay
  <2>7. CASE ~SPECS[Head(queue).name].preserve_root
    <3>1. Head(queue).name \in Cleared /\ Head(queue).name # "build"
      BY <2>2, <2>7, SharedRoot, OverlayNames DEF Cleared, Late
    <3>2. tree' = Without(tree, Head(queue).name)
      BY <1>12, <2>7 DEF ClearOverlay
    <3> QED
      BY <2>4, <2>5, <3>1, <3>2, OthersKeepFiles
  <2> QED
    BY <2>6, <2>7
<1>13. CASE WriteFile
  <2> DEFINE f == <<unit, Head(left).name>>
  <2>1. /\ place = "write" /\ left # <<>>
        /\ \E c : tree' = Put(tree, f, c)
    BY <1>13 DEF WriteFile
  <2> HIDE DEF f
  <2>2. PICK c : tree' = Put(tree, f, c)
    BY <2>1
  <2>3. DOMAIN tree' = DOMAIN tree \cup {f}
    BY <2>2, Putting
  <2>4. Finishing = {}
    BY <2>1 DEF Finishing
  <2> QED
    BY <1>1, <1>2, <1>3, <2>1, <2>3, <2>4 DEF Resting
<1>14. CASE EndUnit
  <2>1. place = "write" /\ left = <<>> /\ tree' = tree /\ Finishing = {unit}
    BY <1>14 DEF EndUnit, Finishing
  <2>2. unit \in Late
    BY <2>1, Writing DEF Late
  <2>3. \A n \in NamesOf(unit) : <<unit, n>> \in DOMAIN tree
    BY <2>1, NoNames DEF TreeInv
  <2>4. FilesOf(unit) \subseteq DOMAIN tree
    BY <2>2, <2>3, UnitFiles
  <2> QED
    BY <1>1, <1>2, <1>3, <2>1, <2>4 DEF Resting
<1>15. CASE RemoveAbsl \/ WriteExports
  <2>1. /\ place \in {"absl", "exports"} /\ tree' = Without(tree, "abseil-cpp") /\ Finishing = {}
        /\ place' = "plan" \/ (place' = "write" /\ unit' = "abseil-cpp")
    BY <1>15 DEF RemoveAbsl, WriteExports, Finishing
  <2>2. ToCome' = AfterPre
    BY <2>1, RemainingLate DEF ToCome
  <2>3. FilesOf(o) \subseteq DOMAIN tree
    BY <1>1, <1>2, <1>3, <2>1 DEF Resting
  <2>4. o # "abseil-cpp" /\ "abseil-cpp" \in Cleared
    BY <2>2, LatePhases DEF Cleared, Late
  <2> QED
    BY <2>1, <2>3, <2>4, OthersKeepFiles
<1>16. CASE PlanAbsl \/ BuildConfig \/ Install
  <2>1. place \in {"plan", "gn", "install"} /\ tree' = tree /\ Finishing = {}
    BY <1>16 DEF PlanAbsl, BuildConfig, Install, Finishing
  <2> QED
    BY <1>1, <1>2, <1>3, <2>1 DEF Resting
<1>17. CASE Stop \/ Upgrade
  <2>1. tree' = tree /\ ToCome' = Owners \ {"src"}
    BY <1>17, RemainingLate DEF Stop, Upgrade, ToCome
  <2>2. dotgn # NONE
    BY <1>3, <1>17 DEF Stop, Upgrade
  <2>3. o \notin ToCome
    BY <2>1, ToComeIsOwned
  <2> QED
    BY <1>2, <2>1, <2>2, <2>3
<1> QED
  BY <1>4, <1>5, <1>6, <1>7, <1>8, <1>9, <1>10, <1>11, <1>12, <1>13, <1>14, <1>15, <1>16, <1>17,
     Zenon DEF WebrtcNext

\* The files of rnnoise, and those of the unit that is written, are there once
\* they have been taken off their list.
LEMMA HalfDoneStep ==
  ASSUME WebrtcTypeOK, QueueInv, TreeInv, WebrtcNext
  PROVE  /\ place' = "blobs" =>
              \A n \in ToSet(RnnoiseFiles) \ ToSet(queue') : <<"rnnoise", n>> \in DOMAIN tree'
         /\ place' = "write" =>
              \A n \in NamesOf(unit') \ Names(left') : <<unit', n>> \in DOMAIN tree'
<1>1. CASE Clean
  BY <1>1 DEF Clean
<1>2. CASE Materialize
  <2> DEFINE f == <<"rnnoise", Head(queue)>>
  <2>1. /\ place = "blobs" /\ place' = "blobs" /\ queue # <<>> /\ queue' = Tail(queue)
        /\ tree' = Put(tree, f, Plain)
    BY <1>2 DEF Materialize
  <2> HIDE DEF f
  <2>2. DOMAIN tree' = DOMAIN tree \cup {f}
    BY <2>1, Putting
  <2>3. ToSet(queue) = {Head(queue)} \cup ToSet(queue')
    BY <2>1, Queues, ListTail
  <2>4. ASSUME NEW n \in ToSet(RnnoiseFiles) \ ToSet(queue')
        PROVE  <<"rnnoise", n>> \in DOMAIN tree'
    <3>1. CASE n = Head(queue)
      BY <2>2, <3>1 DEF f
    <3>2. CASE n # Head(queue)
      BY <2>1, <2>2, <2>3, <3>2 DEF TreeInv
    <3> QED
      BY <3>1, <3>2
  <2> QED
    BY <2>1, <2>4
<1>3. CASE ClearOverlay
  <2>1. /\ place = "generate" /\ queue # <<>> /\ place' = "write"
        /\ unit' = Head(queue).name /\ left' = SPECS[unit'].files
    BY <1>3 DEF ClearOverlay
  <2>2. unit' \in Overlays /\ unit' # "abseil-cpp"
    BY <2>1, Queues, OverlayNames
  <2>3. NamesOf(unit') = Names(left')
    BY <2>1, <2>2 DEF NamesOf
  <2> QED
    BY <2>1, <2>3
<1>4. CASE WriteExports
  <2>1. place' = "write" /\ unit' = "abseil-cpp" /\ left' = AbslFiles
    BY <1>4 DEF WriteExports
  <2>2. NamesOf(unit') = Names(left')
    BY <2>1, AbslFits DEF NamesOf, AbslNames
  <2> QED
    BY <2>1, <2>2
<1>5. CASE WriteFile
  <2> DEFINE f == <<unit, Head(left).name>>
  <2>1. /\ place = "write" /\ place' = "write" /\ left # <<>> /\ left' = Tail(left)
        /\ unit' = unit /\ \E c : tree' = Put(tree, f, c)
    BY <1>5 DEF WriteFile
  <2> HIDE DEF f
  <2>2. PICK c : tree' = Put(tree, f, c)
    BY <2>1
  <2>3. DOMAIN tree' = DOMAIN tree \cup {f}
    BY <2>2, Putting
  <2>4. Names(left) = {Head(left).name} \cup Names(left')
    BY <2>1, Writing, ListTail
  <2>5. ASSUME NEW n \in NamesOf(unit) \ Names(left')
        PROVE  <<unit, n>> \in DOMAIN tree'
    <3>1. CASE n = Head(left).name
      BY <2>3, <3>1 DEF f
    <3>2. CASE n # Head(left).name
      BY <2>1, <2>3, <2>4, <3>2 DEF TreeInv
    <3> QED
      BY <3>1, <3>2
  <2> QED
    BY <2>1, <2>5
<1>6. CASE place' \notin {"blobs", "write"}
  BY <1>6
<1>7. CASE FetchWebrtc \/ Unstage \/ Stage \/ ScriptExecutable \/ Settings \/ AdjustDse
  BY <1>6, <1>7 DEF FetchWebrtc, Unstage, Stage, ScriptExecutable, Settings, AdjustDse, BeginConfig
<1>8. CASE EndUnit \/ RemoveAbsl \/ PlanAbsl \/ BuildConfig \/ Install \/ Stop \/ Upgrade
  BY <1>6, <1>8 DEF EndUnit, RemoveAbsl, PlanAbsl, BuildConfig, BeginConfig, Install, Stop, Upgrade
<1> QED
  BY <1>1, <1>2, <1>3, <1>4, <1>5, <1>7, <1>8, Zenon DEF WebrtcNext

\* Every step keeps what is known of the files in the tree.
LEMMA TreeStep ==
  ASSUME WebrtcTypeOK, QueueInv, TreeInv, DotgnInv, WebrtcNext
  PROVE  TreeInv'
<1>1. \A o : FilesOf(o)' = FilesOf(o)
  BY HostStays, FilesStay
<1>2. Owners' = Owners /\ RnnoiseFiles' = RnnoiseFiles
  OBVIOUS
<1>3. dotgn' # NONE => \A o \in Owners \ ToCome' : FilesOf(o)' \subseteq DOMAIN tree'
  BY <1>1, OwnedStep
<1>4. \A u : NamesOf(u)' = NamesOf(u)
  OBVIOUS
<1> QED
  BY <1>3, HalfDoneStep, DotgnStep DEF TreeInv

-----------------------------------------------------------------------------
\* The two configurations.
LEMMA ConfigNames ==
  /\ \A c \in 1..2 : Configs[c] \in {"debug", "release"}
  /\ ToSet(Configs) = {"debug", "release"} /\ Configs[1] = "debug" /\ Configs[2] = "release"
<1>1. ToSet(Configs) = {"debug", "release"}
  BY List2 DEF Configs
<1>2. Configs[1] = "debug" /\ Configs[2] = "release"
  BY DEF Configs
<1> QED
  BY <1>1, <1>2

\* What a step of the generators writes: libraries only where they are linked,
\* those of the configuration, and the assembler where it is asked for.
LEMMA Written ==
  ASSUME WebrtcTypeOK, QueueInv, WriteFile
  PROVE  \E c \in Content :
           /\ tree' = Put(tree, <<unit, Head(left).name>>, c)
           /\ c.libs = Head(left).libs
           /\ c.libs # {} => unit \in Linkers /\ c.lib = Configs[config]
           /\ unit = "nasm" /\ Head(left).name = "nasm_assemble.gni" => c.tool
<1>1. place = "write" /\ left # <<>> /\ IsList(left) /\ Head(left) \in ToSet(left)
  BY Writing, ListTail DEF WriteFile
<1>2. config \in 1..2 /\ exports \in Exports /\ Configs[config] \in {"debug", "release"}
  BY ConfigNames DEF WebrtcTypeOK
<1> DEFINE f == Head(left)
<1>3. CASE unit = "abseil-cpp"
  <2> DEFINE c == Render(f, Configs[config], FALSE)
  <2>1. f \in ToSet(AbslFiles)
    BY <1>1, <1>3, Writing
  <2>2. f.libs \subseteq LibNames /\ f.tool \in BOOLEAN
    BY <1>2, <2>1, FilesTyped
  <2>3. tree' = Put(tree, <<unit, f.name>>, c)
    BY <1>3 DEF WriteFile
  <2> HIDE DEF f
  <2>4. c \in Content /\ c.libs = f.libs /\ (f.libs # {} => c.lib = Configs[config])
    BY <1>2, <2>2, Rendered
  <2>5. unit \in Linkers /\ unit # "nasm"
    BY <1>3 DEF Linkers
  <2> HIDE DEF c
  <2> QED
    BY <2>3, <2>4, <2>5 DEF f
<1>4. CASE unit # "abseil-cpp"
  <2> DEFINE d == Head(queue)
             c == Render(f, LibRoot(d), d.toolPathVar)
  <2>1. /\ f \in ToSet(SPECS[unit].files) /\ unit \in Overlays /\ unit = d.name
        /\ d \in ToSet(PreAbsl) \cup ToSet(PostAbsl)
    BY <1>1, <1>4, Writing
  <2>2. f.libs \subseteq LibNames /\ f.tool \in BOOLEAN
    BY <1>2, <2>1, FilesTyped DEF Overlays
  <2>3. tree' = Put(tree, <<unit, f.name>>, c)
    BY <1>4 DEF WriteFile
  <2>4. f.libs # {} => unit \in Linkers
    BY <2>1, SpecsFit DEF FilesFit
  <2>5. unit = "nasm" /\ f.name = "nasm_assemble.gni" => f.tool
    BY <2>1, NasmFits
  <2>6. /\ d.libRootVar \in BOOLEAN /\ d.toolPathVar \in BOOLEAN
        /\ unit \in Linkers => d.libRootVar
        /\ unit = "nasm" => d.toolPathVar
    BY <2>1, PreDeclared, PostDeclared
  <2> HIDE DEF f, d
  <2>7. /\ LibRoot(d) \in {"debug", "release"}
        /\ unit \in Linkers => LibRoot(d) = Configs[config]
    BY <1>2, <2>6 DEF LibRoot
  <2>8. /\ c \in Content /\ c.libs = f.libs
        /\ f.libs # {} => c.lib = LibRoot(d)
        /\ c.tool = (f.tool /\ d.toolPathVar)
    BY <2>2, <2>6, <2>7, Rendered
  <2> HIDE DEF c
  <2>9. unit = "nasm" /\ f.name = "nasm_assemble.gni" => c.tool
    BY <2>5, <2>6, <2>8
  <2> QED
    BY <2>3, <2>4, <2>7, <2>8, <2>9 DEF f
<1> QED
  BY <1>3, <1>4

\* The files of a tree in which some have been replaced.
LEMMA PutOrigin ==
  ASSUME NEW t, NEW g, NEW c, NEW f \in DOMAIN Put(t, g, c)
  PROVE  \/ f = g /\ Put(t, g, c)[f] = c
         \/ f \in DOMAIN t /\ Put(t, g, c)[f] = t[f]
BY DEF Put

\* The file that is put into a tree...
LEMMA PutThere ==
  ASSUME NEW t, NEW f, NEW c
  PROVE  f \in DOMAIN Put(t, f, c) /\ Put(t, f, c)[f] = c
BY DEF Put

\* ...and the others.
LEMMA PutOther ==
  ASSUME NEW t, NEW g, NEW c, NEW f \in DOMAIN t, f # g
  PROVE  f \in DOMAIN Put(t, g, c) /\ Put(t, g, c)[f] = t[f]
BY DEF Put

\* The same for several files.
LEMMA PutAllOrigin ==
  ASSUME NEW t, NEW fs, NEW f \in DOMAIN PutAll(t, fs)
  PROVE  PutAll(t, fs)[f] = Plain \/ (f \in DOMAIN t /\ PutAll(t, fs)[f] = t[f])
<1>1. DOMAIN PutAll(t, fs) = DOMAIN t \cup fs
  BY PuttingAll
<1>2. PutAll(t, fs)[f] = IF f \in fs THEN Plain ELSE t[f]
  BY DEF PutAll
<1> QED
  BY <1>1, <1>2

\* Where a file of the tree comes from: it is one of the portfile, which links
\* nothing, it was there before, or a generator has just written it.
LEMMA OriginOfFiles ==
  ASSUME WebrtcTypeOK, QueueInv, WebrtcNext, NEW f \in DOMAIN tree'
  PROVE  \/ tree'[f] = Plain
         \/ WriteFile /\ f = <<unit, Head(left).name>>
         \/ /\ f \in DOMAIN tree /\ tree'[f] = tree[f]
            /\ f[1] \in Linkers => f[1] # unit' \/ unit' = unit
<1>1. ASSUME tree' = tree, unit' \in {unit, NONE}
      PROVE  /\ f \in DOMAIN tree /\ tree'[f] = tree[f]
             /\ f[1] \in Linkers => f[1] # unit' \/ unit' = unit
  BY <1>1 DEF Linkers, NONE
<1>2. CASE FetchWebrtc
  <2>1. CASE tree' = tree
    BY <1>1, <1>2, <2>1 DEF FetchWebrtc, writing
  <2>2. CASE tree' = Upstream
    <3> DEFINE S == {<<"src", "all">>}
    <3>1. Upstream = PutAll(<<>>, S) /\ DOMAIN <<>> = {}
      BY DEF Upstream
    <3> HIDE DEF S
    <3>2. /\ DOMAIN Upstream = DOMAIN <<>> \cup S
          /\ \A g \in DOMAIN Upstream : g \in S => Upstream[g] = Plain
      BY <3>1, PuttingAll
    <3> QED
      BY <2>2, <3>1, <3>2
  <2> QED
    BY <1>2, <2>1, <2>2 DEF FetchWebrtc
<1>3. CASE Unstage
  <2>1. Head(queue) \in Cleared /\ tree' = Without(tree, Head(queue)) /\ unit' = unit
    BY <1>3, Queues DEF Unstage, Cleared, writing
  <2> QED
    BY <2>1, Clearing
<1>4. CASE Stage
  <2> DEFINE S == RepoFiles(Head(queue))
  <2>1. tree' = PutAll(tree, S) /\ unit' = unit
    BY <1>4 DEF Stage, writing
  <2> HIDE DEF S
  <2>2. tree'[f] = Plain \/ (f \in DOMAIN tree /\ tree'[f] = tree[f])
    BY <2>1, PutAllOrigin, Zenon
  <2> QED
    BY <2>1, <2>2
<1>5. CASE Clean
  <2> DEFINE t1 == Without(tree, "testing")
             t2 == Without(t1, "tools")
  <2>1. tree' = Without(t2, "rnnoise") /\ unit' = unit
    BY <1>5 DEF Clean, writing
  <2>2. {"testing", "tools", "rnnoise"} \subseteq Cleared
    BY OverlayNames DEF Cleared, Late
  <2> HIDE DEF t2
  <2>3. f \in DOMAIN t2 /\ tree'[f] = t2[f]
    BY <2>1, <2>2, Clearing
  <2> HIDE DEF t1
  <2>4. f \in DOMAIN t1 /\ t2[f] = t1[f]
    BY <2>2, <2>3, Clearing DEF t2
  <2>5. f \in DOMAIN tree /\ t1[f] = tree[f]
    BY <2>2, <2>4, Clearing DEF t1
  <2> QED
    BY <2>1, <2>3, <2>4, <2>5
<1>6. CASE Materialize
  <2> DEFINE g == <<"rnnoise", Head(queue)>>
  <2>1. tree' = Put(tree, g, Plain) /\ unit' = unit
    BY <1>6 DEF Materialize, writing
  <2> HIDE DEF g
  <2>2. (f = g /\ tree'[f] = Plain) \/ (f \in DOMAIN tree /\ tree'[f] = tree[f])
    <3>1. f \in DOMAIN Put(tree, g, Plain)
      BY <2>1
    <3>2. \/ f = g /\ Put(tree, g, Plain)[f] = Plain
          \/ f \in DOMAIN tree /\ Put(tree, g, Plain)[f] = tree[f]
      BY <3>1, PutOrigin
    <3> QED
      BY <2>1, <3>2
  <2> QED
    BY <2>1, <2>2
<1>7. CASE ScriptExecutable \/ EndUnit \/ PlanAbsl \/ BuildConfig \/ Install \/ Stop \/ Upgrade
  <2>1. tree' = tree /\ unit' \in {unit, NONE}
    BY <1>7 DEF ScriptExecutable, EndUnit, PlanAbsl, BuildConfig, Install, Stop, Upgrade, writing
  <2> QED
    BY <1>1, <2>1
<1>8. CASE Settings
  <2> DEFINE S == OwnFiles
  <2>1. tree' = PutAll(tree, S) /\ unit' = unit
    BY <1>8 DEF Settings, writing
  <2> HIDE DEF S
  <2>2. tree'[f] = Plain \/ (f \in DOMAIN tree /\ tree'[f] = tree[f])
    BY <2>1, PutAllOrigin, Zenon
  <2> QED
    BY <2>1, <2>2
<1>9. CASE AdjustDse
  BY <1>9 DEF AdjustDse, writing
<1>10. CASE ClearOverlay
  <2>1. /\ place = "generate" /\ queue # <<>> /\ unit' = Head(queue).name
        /\ unit' \in Overlays
    BY <1>10, Queues DEF ClearOverlay
  <2>2. CASE SPECS[Head(queue).name].preserve_root
    <3>1. unit' = "third_party_root" /\ tree' = tree
      BY <1>10, <2>1, <2>2, SharedRoot DEF ClearOverlay
    <3> QED
      BY <3>1 DEF Linkers
  <2>3. CASE ~SPECS[Head(queue).name].preserve_root
    <3>1. unit' \in Cleared /\ tree' = Without(tree, unit')
      BY <1>10, <2>1, <2>3, SharedRoot, OverlayNames DEF ClearOverlay, Cleared, Late
    <3> QED
      BY <3>1, Clearing
  <2> QED
    BY <2>2, <2>3
<1>11. CASE WriteFile
  <2> DEFINE g == <<unit, Head(left).name>>
  <2>1. unit' = unit /\ \E c : tree' = Put(tree, g, c)
    BY <1>11 DEF WriteFile
  <2> HIDE DEF g
  <2>2. PICK c : tree' = Put(tree, g, c)
    BY <2>1
  <2>3. (f = g /\ tree'[f] = c) \/ (f \in DOMAIN tree /\ tree'[f] = tree[f])
    <3>1. f \in DOMAIN Put(tree, g, c)
      BY <2>2
    <3>2. \/ f = g /\ Put(tree, g, c)[f] = c
          \/ f \in DOMAIN tree /\ Put(tree, g, c)[f] = tree[f]
      BY <3>1, PutOrigin
    <3> QED
      BY <2>2, <3>2
  <2> QED
    BY <1>11, <2>1, <2>3 DEF g
<1>12. CASE RemoveAbsl \/ WriteExports
  <2>1. tree' = Without(tree, "abseil-cpp") /\ unit' \in {unit, "abseil-cpp"}
    BY <1>12 DEF RemoveAbsl, WriteExports, writing
  <2>2. "abseil-cpp" \in Cleared
    BY OverlayNames DEF Cleared, Late
  <2> QED
    BY <2>1, <2>2, Clearing
<1> QED
  BY <1>2, <1>3, <1>4, <1>5, <1>6, <1>7, <1>8, <1>9, <1>10, <1>11, <1>12, Zenon DEF WebrtcNext

\* An owner that links a library is still to come, or finishes its unit.
LEMMA LateToCome ==
  ASSUME WebrtcTypeOK, QueueInv, WebrtcNext, NEW o \in Late, o \in ToCome
  PROVE  o \in ToCome' \/ (o = unit /\ place = "write")
<1>1. o \in ToCome' \/ o \in Finishing
  BY ToComeStep
<1>2. o \notin {"build", "buildtools", "rnnoise", "settings"}
  BY LatePhases
<1>3. place = "unstaged" => Head(queue) \in {"build", "buildtools"}
  BY Queues
<1> QED
  BY <1>1, <1>2, <1>3 DEF Finishing

\* A configuration ends with all overlays and abseil still to come.
LEMMA ConfigChange ==
  ASSUME WebrtcTypeOK, QueueInv, WebrtcNext, config' # config
  PROVE  Late \subseteq ToCome' /\ unit' = NONE
<1>1. CASE AdjustDse \/ BuildConfig
  <2>1. place' = "generate" /\ queue' = PreAbsl /\ unit' = NONE
    BY <1>1 DEF AdjustDse, BuildConfig, BeginConfig, InPhase, QueueInv, writing
  <2>2. Head(queue').phase = "pre_absl"
    BY <2>1, PreDeclared, ListTail
  <2>3. ToCome' = Names(PreAbsl) \cup AfterPre
    BY <2>1, <2>2, RemainingLate DEF ToCome, NONE
  <2> QED
    BY <2>1, <2>3, LatePhases
<1>2. CASE Stop
  <2>1. ToCome' = Owners \ {"src"} /\ unit' = NONE
    BY <1>2, RemainingLate DEF Stop, ToCome
  <2> QED
    BY <2>1, LatePhases
<1>3. ~(FetchWebrtc \/ Unstage \/ Stage \/ Clean \/ Materialize \/ ScriptExecutable \/ Settings)
  BY DEF FetchWebrtc, Unstage, Stage, Clean, Materialize, ScriptExecutable, Settings
<1>4. ~(ClearOverlay \/ WriteFile \/ EndUnit \/ RemoveAbsl \/ PlanAbsl \/ WriteExports \/ Install
          \/ Upgrade)
  BY DEF ClearOverlay, WriteFile, EndUnit, RemoveAbsl, PlanAbsl, WriteExports, Install, Upgrade
<1> QED
  BY <1>1, <1>2, <1>3, <1>4, Zenon DEF WebrtcNext

\* Files that link a library do so for the configuration, once their owner has
\* written them for it.
LEMMA LinkStep ==
  ASSUME WebrtcTypeOK, QueueInv, LinkInv, WebrtcNext
  PROVE  LinkInv'
<1> SUFFICES ASSUME NEW f \in DOMAIN tree', tree'[f].libs # {}
             PROVE  /\ f[1] \in Linkers
                    /\ f[1] \in ToCome' \ {unit'} \/ tree'[f].lib = Configs[config']
  BY DEF LinkInv
<1>1. tree'[f] # Plain
  BY DEF Plain
<1>2. CASE WriteFile /\ f = <<unit, Head(left).name>>
  <2>1. PICK c \in Content :
          /\ tree' = Put(tree, <<unit, Head(left).name>>, c)
          /\ c.libs # {} => unit \in Linkers /\ c.lib = Configs[config]
    BY <1>2, Written
  <2>2. tree'[f] = c
    <3>1. tree' = Put(tree, f, c)
      BY <1>2, <2>1
    <3>2. Put(tree, f, c)[f] = c
      BY PutThere
    <3> QED
      BY <3>1, <3>2
  <2>3. f[1] = unit /\ config' = config
    BY <1>2 DEF WriteFile
  <2> QED
    BY <2>1, <2>2, <2>3
<1>3. CASE /\ f \in DOMAIN tree /\ tree'[f] = tree[f]
           /\ f[1] \in Linkers => f[1] # unit' \/ unit' = unit
  <2>1. f[1] \in Linkers /\ (f[1] \in ToCome \ {unit} \/ tree[f].lib = Configs[config])
    BY <1>3 DEF LinkInv
  <2>2. f[1] \in Late /\ f[1] # NONE
    BY <2>1, OverlayNames DEF Linkers, Late, NONE
  <2>3. CASE f[1] \in ToCome \ {unit}
    <3>1. f[1] \in ToCome'
      BY <2>2, <2>3, LateToCome
    <3>2. f[1] # unit'
      BY <1>3, <2>1, <2>3
    <3> QED
      BY <2>1, <3>1, <3>2
  <2>4. CASE tree[f].lib = Configs[config] /\ config' = config
    BY <1>3, <2>1, <2>4
  <2>5. CASE config' # config
    BY <2>1, <2>2, <2>5, ConfigChange
  <2> QED
    BY <2>1, <2>3, <2>4, <2>5
<1> QED
  BY <1>1, <1>2, <1>3, OriginOfFiles

\* When a file that an overlay or abseil has written goes, its unit is written
\* anew in this run.
LEMMA LateFilesStay ==
  ASSUME WebrtcTypeOK, QueueInv, WebrtcNext, NEW f \in DOMAIN tree,
         f[1] \in Late \ {"testing", "tools"}
  PROVE  \/ f \in DOMAIN tree' /\ tree'[f] = tree[f]
         \/ FetchWebrtc
         \/ WriteFile /\ f = <<unit, Head(left).name>>
         \/ ClearOverlay /\ f[1] = unit'
         \/ (RemoveAbsl \/ WriteExports) /\ f[1] = "abseil-cpp"
<1>0. f[1] \in Units /\ f[1] \notin {"src", "build", "buildtools", "rnnoise", "settings", "compiler-rt"}
  BY OverlayNames DEF Units, Late
<1>1. CASE Unstage
  <2>1. Head(queue) \in {"build", "buildtools"} /\ tree' = Without(tree, Head(queue))
    BY <1>1, Queues DEF Unstage
  <2>2. Head(queue) \in Cleared
    BY <2>1 DEF Cleared
  <2> QED
    BY <1>0, <2>1, <2>2, Clearing
<1>2. CASE Stage
  <2> DEFINE S == RepoFiles(Head(queue))
  <2>1. Head(queue) \in {"build", "buildtools"} /\ tree' = PutAll(tree, S)
    BY <1>2, Queues DEF Stage
  <2>2. f \notin S
    <3>1. \A g \in {"build"} \X GniFiles : g[1] = "build"
      OBVIOUS
    <3>2. \A g \in RepoFiles("build") : g[1] = "build"
      BY <3>1, BuildContents, DseIsInBuild
    <3>3. \A g \in RepoFiles("buildtools") : g[1] = "buildtools"
      BY DEF RepoFiles
    <3> QED
      BY <1>0, <2>1, <3>2, <3>3
  <2> HIDE DEF S
  <2>3. DOMAIN PutAll(tree, S) = DOMAIN tree \cup S
    BY PuttingAll
  <2>4. PutAll(tree, S)[f] = tree[f]
    BY <2>2, <2>3, PuttingAll
  <2> QED
    BY <2>1, <2>3, <2>4
<1>3. CASE Clean
  <2> DEFINE t1 == Without(tree, "testing")
             t2 == Without(t1, "tools")
  <2>1. tree' = Without(t2, "rnnoise")
    BY <1>3 DEF Clean
  <2>2. {"testing", "tools", "rnnoise"} \subseteq Cleared
    BY OverlayNames DEF Cleared, Late
  <2>3. f[1] \in Units \ {"testing", "tools", "rnnoise"}
    BY <1>0
  <2>4. f \in DOMAIN t1 /\ t1[f] = tree[f]
    BY <2>2, <2>3, Clearing
  <2> HIDE DEF t1
  <2>5. f \in DOMAIN t2 /\ t2[f] = t1[f]
    BY <2>2, <2>3, <2>4, Clearing
  <2> HIDE DEF t2
  <2>6. f \in DOMAIN tree' /\ tree'[f] = t2[f]
    BY <2>1, <2>2, <2>3, <2>5, Clearing
  <2> QED
    BY <2>4, <2>5, <2>6
<1>4. CASE Materialize
  <2> DEFINE g == <<"rnnoise", Head(queue)>>
  <2>1. tree' = Put(tree, g, Plain) /\ f # g
    BY <1>0, <1>4 DEF Materialize
  <2> HIDE DEF g
  <2>2. f \in DOMAIN Put(tree, g, Plain) /\ Put(tree, g, Plain)[f] = tree[f]
    BY <2>1, PutOther
  <2> QED
    BY <2>1, <2>2
<1>5. CASE ScriptExecutable \/ EndUnit \/ PlanAbsl \/ BuildConfig \/ Install \/ Stop \/ Upgrade
  BY <1>5 DEF ScriptExecutable, EndUnit, PlanAbsl, BuildConfig, Install, Stop, Upgrade
<1>6. CASE Settings
  <2> DEFINE S == OwnFiles
  <2>1. tree' = PutAll(tree, S)
    BY <1>6 DEF Settings
  <2>2. f \notin S
    BY <1>0 DEF OwnFiles
  <2> HIDE DEF S
  <2>3. DOMAIN PutAll(tree, S) = DOMAIN tree \cup S
    BY PuttingAll
  <2>4. PutAll(tree, S)[f] = tree[f]
    BY <2>2, <2>3, PuttingAll
  <2> QED
    BY <2>1, <2>3, <2>4
<1>7. CASE AdjustDse
  <2>1. f # Dse
    BY <1>0, DseIsInBuild
  <2> QED
    BY <1>7, <2>1 DEF AdjustDse
<1>8. CASE ClearOverlay
  <2>1. unit' = Head(queue).name /\ unit' \in Overlays
    BY <1>8, Queues DEF ClearOverlay
  <2>2. CASE SPECS[Head(queue).name].preserve_root
    BY <1>8, <2>2 DEF ClearOverlay
  <2>3. CASE ~SPECS[Head(queue).name].preserve_root
    <3>1. unit' \in Cleared /\ tree' = Without(tree, unit')
      BY <1>8, <2>1, <2>3, SharedRoot, OverlayNames DEF ClearOverlay, Cleared, Late
    <3>2. CASE f[1] = unit'
      BY <1>8, <3>2
    <3>3. CASE f[1] # unit'
      BY <1>0, <3>1, <3>3, Clearing
    <3> QED
      BY <3>2, <3>3
  <2> QED
    BY <2>2, <2>3
<1>9. CASE WriteFile
  <2> DEFINE g == <<unit, Head(left).name>>
  <2>1. \E c : tree' = Put(tree, g, c)
    BY <1>9 DEF WriteFile
  <2>2. CASE f = g
    BY <1>9, <2>2
  <2>3. CASE f # g
    <3> HIDE DEF g
    <3>1. PICK c : tree' = Put(tree, g, c)
      BY <2>1
    <3>2. f \in DOMAIN Put(tree, g, c) /\ Put(tree, g, c)[f] = tree[f]
      BY <2>3, PutOther
    <3> QED
      BY <3>1, <3>2
  <2> QED
    BY <2>2, <2>3
<1>10. CASE RemoveAbsl \/ WriteExports
  <2>1. tree' = Without(tree, "abseil-cpp") /\ "abseil-cpp" \in Cleared
    BY <1>10, OverlayNames DEF RemoveAbsl, WriteExports, Cleared, Late
  <2>2. CASE f[1] = "abseil-cpp"
    BY <1>10, <2>2
  <2>3. CASE f[1] # "abseil-cpp"
    BY <1>0, <2>1, <2>3, Clearing
  <2> QED
    BY <2>2, <2>3
<1> QED
  BY <1>1, <1>2, <1>3, <1>4, <1>5, <1>6, <1>7, <1>8, <1>9, <1>10, Zenon DEF WebrtcNext

\* nasm_assemble.gni has the assembler, or is still to be written.
LEMMA NasmStep ==
  ASSUME WebrtcTypeOK, QueueInv, NasmInv, WebrtcNext
  PROVE  NasmInv'
<1>1. "nasm" \in Late \ {"testing", "tools"} /\ Assemble[1] = "nasm" /\ Assemble[2] = "nasm_assemble.gni"
  BY OverlayNames DEF Late, Assemble
<1>2. place # "write" => unit = NONE
  BY DEF QueueInv
<1>3. ASSUME ClearOverlay, unit' = "nasm"
      PROVE  NasmInv'
  <2>1. left' = SPECS["nasm"].files
    BY <1>3 DEF ClearOverlay
  <2>2. "nasm_assemble.gni" \in Names(left')
    BY <2>1, NasmFits
  <2> QED
    BY <1>3, <2>2 DEF NasmInv
<1>4. ASSUME WriteFile, unit = "nasm", Head(left).name = "nasm_assemble.gni"
      PROVE  NasmInv'
  <2>1. PICK c \in Content :
          /\ tree' = Put(tree, <<unit, Head(left).name>>, c)
          /\ unit = "nasm" /\ Head(left).name = "nasm_assemble.gni" => c.tool
    BY <1>4, Written
  <2>2. tree' = Put(tree, Assemble, c) /\ c.tool
    BY <1>4, <2>1 DEF Assemble
  <2>3. Assemble \in DOMAIN Put(tree, Assemble, c) /\ Put(tree, Assemble, c)[Assemble] = c
    BY PutThere
  <2> QED
    BY <2>2, <2>3 DEF NasmInv
<1>5. ASSUME "nasm" \in ToCome', unit' # "nasm"
      PROVE  NasmInv'
  BY <1>5 DEF NasmInv
<1>6. CASE "nasm" \in ToCome \ {unit}
  <2>1. "nasm" \in ToCome'
    BY <1>1, <1>6, LateToCome
  <2>2. unit' = "nasm" => ClearOverlay
    <3>1. unit' \in {unit, NONE} \/ ClearOverlay \/ WriteExports
      BY DEF WebrtcNext, FetchWebrtc, Unstage, Stage, Clean, Materialize, ScriptExecutable,
             Settings, AdjustDse, WriteFile, EndUnit, RemoveAbsl, PlanAbsl, BuildConfig, Install,
             Stop, Upgrade, writing
    <3> QED
      BY <1>6, <3>1 DEF WriteExports, NONE
  <2> QED
    BY <1>3, <1>5, <2>1, <2>2
<1>7. CASE unit = "nasm" /\ "nasm_assemble.gni" \in Names(left)
  <2>1. place = "write" /\ "nasm" \in Overlays
    BY <1>2, <1>7, OverlayNames DEF NONE
  <2>2. CASE WriteFile
    <3>1. left # <<>> /\ left' = Tail(left) /\ unit' = unit
      BY <2>2 DEF WriteFile
    <3>2. Names(left) = {Head(left).name} \cup Names(left')
      BY <2>1, <3>1, Writing, ListTail
    <3> QED
      BY <1>4, <1>7, <2>2, <3>1, <3>2 DEF NasmInv
  <2>3. CASE EndUnit
    BY <1>7, <2>3, NoNames DEF EndUnit
  <2>4. CASE Stop
    <3>1. ToCome' = Owners \ {"src"} /\ unit' # "nasm"
      BY <2>4, RemainingLate DEF Stop, ToCome, NONE
    <3> QED
      BY <1>1, <1>5, <3>1, LatePhases
  <2>5. ~(\/ FetchWebrtc \/ Unstage \/ Stage \/ Clean \/ Materialize \/ ScriptExecutable \/ Settings
          \/ AdjustDse \/ ClearOverlay \/ RemoveAbsl \/ PlanAbsl \/ WriteExports
          \/ BuildConfig \/ Install \/ Upgrade)
    BY <2>1 DEF FetchWebrtc, Unstage, Stage, Clean, Materialize, ScriptExecutable, Settings,
                AdjustDse, ClearOverlay, RemoveAbsl, PlanAbsl, WriteExports,
                BuildConfig, Install, Upgrade, Resting
  <2> QED
    BY <2>2, <2>3, <2>4, <2>5, Zenon DEF WebrtcNext
<1>8. CASE Assemble \in DOMAIN tree /\ tree[Assemble].tool
  <2>1. CASE Assemble \in DOMAIN tree' /\ tree'[Assemble] = tree[Assemble]
    BY <1>8, <2>1 DEF NasmInv
  <2>2. CASE FetchWebrtc
    <3>1. "nasm" \in ToCome' /\ unit' # "nasm"
      BY <1>1, <1>2, <2>2, RemainingEarly DEF FetchWebrtc, ToCome, Resting, writing, NONE
    <3> QED
      BY <1>5, <3>1
  <2>3. CASE WriteFile /\ Assemble = <<unit, Head(left).name>>
    BY <1>1, <1>4, <2>3
  <2>4. CASE ClearOverlay /\ Assemble[1] = unit'
    BY <1>1, <1>3, <2>4
  <2> QED
    BY <1>1, <1>8, <2>1, <2>2, <2>3, <2>4, LateFilesStay
<1> QED
  BY <1>6, <1>7, <1>8 DEF NasmInv

\* The exports for the package and the libraries that the generated abseil links
\* are those of the abseil that is installed, or are still to be written.
LEMMA AbslStep ==
  ASSUME WebrtcTypeOK, QueueInv, AbslInv, WebrtcNext
  PROVE  AbslInv'
<1>1. /\ "abseil-cpp" \in Late \ {"testing", "tools"} /\ "abseil-cpp" \notin Overlays
      /\ AbslBuild[1] = "abseil-cpp" /\ AbslBuild[2] = "BUILD.gn"
  BY OverlayNames DEF Late, AbslBuild
<1>2. place # "write" => unit = NONE
  BY DEF QueueInv
<1>3. CASE WriteExports
  <2>1. /\ archives' = Static(exports) /\ exports' = exports
        /\ unit' = "abseil-cpp" /\ left' = AbslFiles
    BY <1>3, StaticIsKnown DEF WriteExports
  <2>2. "BUILD.gn" \in Names(left') /\ Static(exports') = Static(exports)
    BY <2>1, AbslFits
  <2> QED
    BY <2>1, <2>2 DEF AbslInv
<1>4. ASSUME WriteFile, unit = "abseil-cpp", Head(left).name = "BUILD.gn", archives = Static(exports)
      PROVE  AbslInv'
  <2>1. PICK c \in Content :
          /\ tree' = Put(tree, <<unit, Head(left).name>>, c)
          /\ c.libs = Head(left).libs
    BY <1>4, Written
  <2>2. c.libs = Static(exports)
    <3>1. Head(left) \in ToSet(AbslFiles)
      BY <1>4, Writing, ListTail DEF WriteFile
    <3> QED
      BY <1>4, <2>1, <3>1, AbslFits
  <2>3. tree' = Put(tree, AbslBuild, c)
    BY <1>4, <2>1 DEF AbslBuild
  <2>4. AbslBuild \in DOMAIN Put(tree, AbslBuild, c) /\ Put(tree, AbslBuild, c)[AbslBuild] = c
    BY PutThere
  <2>5. archives' = archives /\ exports' = exports /\ Static(exports') = Static(exports)
    BY <1>4 DEF WriteFile
  <2> QED
    BY <1>4, <2>2, <2>3, <2>4, <2>5 DEF AbslInv
<1>5. ASSUME "abseil-cpp" \in ToCome', unit' # "abseil-cpp"
      PROVE  AbslInv'
  BY <1>5 DEF AbslInv
<1>6. unit' \in {unit, NONE} \/ ClearOverlay \/ WriteExports
  BY DEF WebrtcNext, FetchWebrtc, Unstage, Stage, Clean, Materialize, ScriptExecutable,
         Settings, AdjustDse, WriteFile, EndUnit, RemoveAbsl, PlanAbsl, BuildConfig, Install,
         Stop, Upgrade, writing
<1>7. ClearOverlay => unit' \in Overlays
  BY Queues DEF ClearOverlay
<1>8. CASE "abseil-cpp" \in ToCome \ {unit}
  <2>1. "abseil-cpp" \in ToCome'
    BY <1>1, <1>8, LateToCome
  <2>2. unit' = "abseil-cpp" => WriteExports
    BY <1>1, <1>6, <1>7, <1>8 DEF NONE
  <2> QED
    BY <1>3, <1>5, <2>1, <2>2
<1>9. CASE Stop \/ Upgrade
  <2>1. ToCome' = Owners \ {"src"} /\ unit' # "abseil-cpp"
    BY <1>2, <1>9, RemainingLate DEF Stop, Upgrade, Resting, ToCome, NONE, writing
  <2> QED
    BY <1>1, <1>5, <2>1, LatePhases
<1>10. CASE /\ ~(WriteExports \/ Stop \/ Upgrade) /\ archives = Static(exports)
            /\ unit = "abseil-cpp" /\ "BUILD.gn" \in Names(left)
  <2>1. place = "write"
    BY <1>2, <1>10 DEF NONE
  <2>2. CASE WriteFile
    <3>1. left # <<>> /\ left' = Tail(left) /\ unit' = unit /\ archives' = archives /\ exports' = exports
      BY <2>2 DEF WriteFile
    <3>2. Names(left) = {Head(left).name} \cup Names(left')
      BY <2>1, <3>1, Writing, ListTail
    <3>3. CASE Head(left).name = "BUILD.gn"
      BY <1>4, <1>10, <2>2, <3>3
    <3>4. CASE Head(left).name # "BUILD.gn"
      <4>1. Static(exports') = Static(exports)
        BY <3>1
      <4> QED
        BY <1>10, <3>1, <3>2, <3>4, <4>1 DEF AbslInv
    <3> QED
      BY <3>3, <3>4
  <2>3. CASE EndUnit
    BY <1>10, <2>3, NoNames DEF EndUnit
  <2>4. ~(\/ FetchWebrtc \/ Unstage \/ Stage \/ Clean \/ Materialize \/ ScriptExecutable \/ Settings
          \/ AdjustDse \/ ClearOverlay \/ RemoveAbsl \/ PlanAbsl \/ BuildConfig \/ Install)
    BY <2>1 DEF FetchWebrtc, Unstage, Stage, Clean, Materialize, ScriptExecutable, Settings,
                AdjustDse, ClearOverlay, RemoveAbsl, PlanAbsl, BuildConfig, Install, Resting
  <2> QED
    BY <1>10, <2>2, <2>3, <2>4, Zenon DEF WebrtcNext
<1>11. CASE /\ ~(WriteExports \/ Stop \/ Upgrade) /\ archives = Static(exports)
            /\ AbslBuild \in DOMAIN tree /\ tree[AbslBuild].libs = Static(exports)
  <2>1. archives' = archives /\ exports' = exports
    BY <1>11 DEF WebrtcNext, FetchWebrtc, Unstage, Stage, Clean, Materialize, ScriptExecutable,
                 Settings, AdjustDse, ClearOverlay, WriteFile, EndUnit, RemoveAbsl, PlanAbsl,
                 BuildConfig, Install
  <2>2. CASE AbslBuild \in DOMAIN tree' /\ tree'[AbslBuild] = tree[AbslBuild]
    <3>1. Static(exports') = Static(exports)
      BY <2>1
    <3> QED
      BY <1>11, <2>1, <2>2, <3>1 DEF AbslInv
  <2>3. CASE FetchWebrtc
    <3>1. "abseil-cpp" \in ToCome' /\ unit' # "abseil-cpp"
      BY <1>1, <1>2, <2>3, RemainingEarly DEF FetchWebrtc, ToCome, Resting, writing, NONE
    <3> QED
      BY <1>5, <3>1
  <2>4. CASE WriteFile /\ AbslBuild = <<unit, Head(left).name>>
    BY <1>1, <1>4, <1>11, <2>4
  <2>5. CASE RemoveAbsl
    <3>1. ToCome' = AfterPre /\ unit' # "abseil-cpp"
      BY <1>2, <2>5, RemainingLate DEF RemoveAbsl, ToCome, writing, NONE
    <3> QED
      BY <1>5, <3>1, LatePhases
  <2>6. ~(ClearOverlay /\ AbslBuild[1] = unit')
    BY <1>1, <1>7
  <2> QED
    BY <1>1, <1>11, <2>2, <2>3, <2>4, <2>5, <2>6, LateFilesStay
<1> QED
  BY <1>3, <1>8, <1>9, <1>10, <1>11 DEF AbslInv

\* A run that ends has told its users of the libraries it has been built with.
LEMMA ExportsStep ==
  ASSUME QueueInv, InstInv, AbslInv, ExportsAgree, WebrtcNext
  PROVE  ExportsAgree'
<1>1. CASE Install
  <2>1. /\ place = "install" /\ published' = archives /\ tree' = tree /\ exports' = exports
        /\ installed' = installed
    BY <1>1 DEF Install
  <2>2. ToCome = {} /\ installed = ToSet(Configs)
    BY <2>1, RemainingLate, ConfigNames DEF ToCome, InstInv
  <2>3. unit # "abseil-cpp"
    BY <2>1 DEF QueueInv, NONE
  <2>4. archives = Static(exports) /\ tree[AbslBuild].libs = Static(exports)
    BY <2>2, <2>3 DEF AbslInv
  <2>5. Static(exports') = Static(exports)
    BY <2>1
  <2> QED
    BY <2>1, <2>2, <2>4, <2>5 DEF ExportsAgree, AbslBuild
<1>2. CASE ~Install
  <2>1. place' # "done"
    BY <1>2 DEF WebrtcNext, FetchWebrtc, Unstage, Stage, Clean, Materialize, ScriptExecutable,
                Settings, AdjustDse, BeginConfig, ClearOverlay, WriteFile, EndUnit, RemoveAbsl,
                PlanAbsl, WriteExports, BuildConfig, Stop, Upgrade
  <2> QED
    BY <2>1 DEF ExportsAgree
<1> QED
  BY <1>1, <1>2

-----------------------------------------------------------------------------
\* The files of the tree have contents that a generator writes.
LEMMA TreeTypeStep ==
  ASSUME WebrtcTypeOK, QueueInv, WebrtcNext
  PROVE  TreeTyped(tree')
<1>1. TreeTyped(tree)
  BY DEF WebrtcTypeOK, TreeTyped, Content
<1> SUFFICES ASSUME NEW f \in DOMAIN tree'
             PROVE  tree'[f] \in Content
  BY DEF TreeTyped
<1>2. CASE WriteFile /\ f = <<unit, Head(left).name>>
  <2>1. PICK c \in Content : tree' = Put(tree, <<unit, Head(left).name>>, c)
    BY <1>2, Written
  <2>2. tree' = Put(tree, f, c)
    BY <1>2, <2>1
  <2>3. Put(tree, f, c)[f] = c
    BY PutThere
  <2> QED
    BY <2>2, <2>3
<1>3. CASE tree'[f] = Plain
  BY <1>3, PlainTyped
<1>4. CASE f \in DOMAIN tree /\ tree'[f] = tree[f]
  BY <1>1, <1>4 DEF TreeTyped
<1> QED
  BY <1>2, <1>3, <1>4, OriginOfFiles

\* The lists of a place and of a unit.
QueueOf(p) ==
  IF p \in {"stage", "unstaged"} THEN ToSet(Repos)
  ELSE IF p = "blobs" THEN ToSet(RnnoiseFiles) ELSE Declared
LeftOf(u, absl) ==
  IF u = "abseil-cpp" THEN ToSet(absl)
  ELSE UNION {ToSet(SPECS[d].files) : d \in DOMAIN SPECS \cap {u}}

\* A list may be empty.
LEMMA EmptyLists == \A S : <<>> \in Seq(S)
OBVIOUS

\* The lists that a queue begins with.
LEMMA PhasesAreLists ==
  /\ PreAbsl \in Seq(Declared) /\ PostAbsl \in Seq(Declared)
  /\ Repos \in Seq(ToSet(Repos)) /\ RnnoiseFiles \in Seq(ToSet(RnnoiseFiles))
<1>1. PreAbsl \in Seq(ToSet(PreAbsl)) /\ PostAbsl \in Seq(ToSet(PostAbsl))
  BY PreDeclared, PostDeclared DEF IsList
<1>2. PreAbsl \in Seq(Declared) /\ PostAbsl \in Seq(Declared)
  BY <1>1, SeqMonotonic DEF Declared
<1> QED
  BY <1>2, Lists DEF IsList

\* The queue remains one of the place.
LEMMA QueueTypeStep ==
  ASSUME WebrtcTypeOK, QueueInv, WebrtcNext
  PROVE  queue' \in Seq(QueueOf(place'))
<1>1. queue \in Seq(QueueOf(place))
  BY DEF WebrtcTypeOK, QueueOf
<1>2. queue # <<>> => Tail(queue) \in Seq(QueueOf(place))
  BY <1>1, ToSetTail
<1>3. ASSUME queue' = queue, QueueOf(place') = QueueOf(place)
      PROVE  queue' \in Seq(QueueOf(place'))
  BY <1>1, <1>3
<1>4. CASE FetchWebrtc
  BY <1>4, PhasesAreLists DEF FetchWebrtc, QueueOf
<1>5. CASE Unstage
  BY <1>3, <1>5 DEF Unstage, QueueOf
<1>6. CASE Stage
  BY <1>2, <1>6, Queues DEF Stage, QueueOf
<1>7. CASE Clean
  BY <1>7, PhasesAreLists DEF Clean, QueueOf
<1>8. CASE Materialize
  BY <1>2, <1>8 DEF Materialize
<1>9. CASE ScriptExecutable
  <2>1. queue' = <<>>
    BY <1>9 DEF ScriptExecutable
  <2> QED
    BY <2>1, EmptyLists
<1>10. CASE Settings
  BY <1>3, <1>10 DEF Settings, QueueOf
<1>11. CASE AdjustDse
  <2>1. CASE BeginConfig(1)
    BY <2>1, PhasesAreLists DEF BeginConfig, InPhase, QueueOf
  <2>2. CASE place' = "failed" /\ queue' = queue
    BY <1>3, <1>11, <2>2 DEF AdjustDse, QueueOf
  <2> QED
    BY <1>11, <2>1, <2>2 DEF AdjustDse
<1>12. CASE ClearOverlay
  BY <1>3, <1>12 DEF ClearOverlay, QueueOf
<1>13. CASE WriteFile
  BY <1>3, <1>13 DEF WriteFile, QueueOf
<1>14. CASE EndUnit
  <2>1. place = "write" /\ QueueOf(place) = Declared /\ QueueOf(place') = Declared
    BY <1>14 DEF EndUnit, QueueOf
  <2>2. CASE unit = "abseil-cpp"
    BY <1>14, <2>1, <2>2, PhasesAreLists DEF EndUnit, InPhase
  <2>3. CASE unit # "abseil-cpp"
    <3>1. queue # <<>> /\ queue' = Tail(queue)
      BY <1>14, <2>1, <2>3, Writing DEF EndUnit
    <3> QED
      BY <1>2, <2>1, <3>1
  <2> QED
    BY <2>2, <2>3
<1>15. CASE RemoveAbsl \/ PlanAbsl \/ WriteExports
  BY <1>3, <1>15 DEF RemoveAbsl, PlanAbsl, WriteExports, QueueOf
<1>16. CASE BuildConfig
  <2>1. CASE BeginConfig(2)
    BY <2>1, PhasesAreLists DEF BeginConfig, InPhase, QueueOf
  <2>2. CASE place' = "install" /\ queue' = queue
    BY <1>3, <1>16, <2>2 DEF BuildConfig, QueueOf
  <2> QED
    BY <1>16, <2>1, <2>2 DEF BuildConfig
<1>17. CASE Install
  BY <1>3, <1>17 DEF Install, QueueOf
<1>18. CASE Stop
  BY <1>18, EmptyLists DEF Stop
<1>19. CASE Upgrade
  BY <1>3, <1>19 DEF Upgrade, Resting, QueueOf
<1> QED
  BY <1>4, <1>5, <1>6, <1>7, <1>8, <1>9, <1>10, <1>11, <1>12, <1>13, <1>14, <1>15, <1>16, <1>17,
     <1>18, <1>19, Zenon DEF WebrtcNext

\* The files that a unit still has to write are files of this unit.
LEMMA LeftTypeStep ==
  ASSUME WebrtcTypeOK, QueueInv, WebrtcNext
  PROVE  /\ left' \in Seq(LeftOf(unit', AbslFiles'))
         /\ unit' \in {NONE, "abseil-cpp"} \cup DOMAIN SPECS
<1>1. left \in Seq(LeftOf(unit, AbslFiles)) /\ unit \in {NONE, "abseil-cpp"} \cup DOMAIN SPECS
  BY DEF WebrtcTypeOK, LeftOf
<1>2. CASE ClearOverlay
  <2>1. unit' \in Overlays /\ unit' # "abseil-cpp" /\ left' = SPECS[unit'].files
    BY <1>2, Queues, OverlayNames DEF ClearOverlay
  <2>2. DOMAIN SPECS \cap {unit'} = {unit'}
    BY <2>1 DEF Overlays
  <2>3. UNION {ToSet(SPECS[d].files) : d \in {unit'}} = ToSet(SPECS[unit'].files)
    OBVIOUS
  <2>4. left' \in Seq(ToSet(SPECS[unit'].files))
    BY <2>1, SpecsFit DEF FilesFit, IsList
  <2> QED
    BY <2>1, <2>2, <2>3, <2>4 DEF LeftOf, Overlays
<1>3. CASE WriteExports
  <2>1. unit' = "abseil-cpp" /\ left' = AbslFiles /\ exports' = exports
    BY <1>3 DEF WriteExports
  <2>2. AbslFiles' = AbslFiles
    BY <2>1 DEF AbslFiles, KnownTargets
  <2>3. AbslFiles \in Seq(ToSet(AbslFiles))
    BY AbslFits DEF IsList
  <2> QED
    BY <2>1, <2>2, <2>3 DEF LeftOf
<1>4. CASE WriteFile
  <2>1. unit' = unit /\ left # <<>> /\ left' = Tail(left) /\ exports' = exports
    BY <1>4 DEF WriteFile
  <2>2. AbslFiles' = AbslFiles
    BY <2>1 DEF AbslFiles, KnownTargets
  <2>3. Tail(left) \in Seq(LeftOf(unit, AbslFiles))
    BY <1>1, <2>1, ToSetTail
  <2> QED
    BY <1>1, <2>1, <2>2, <2>3 DEF LeftOf
<1>5. CASE EndUnit \/ Stop
  <2>1. left' = <<>> /\ unit' = NONE
    BY <1>5 DEF EndUnit, Stop
  <2> QED
    BY <2>1, EmptyLists
<1>6. CASE unit = NONE /\ unit' = unit /\ left' = left
  BY <1>1, <1>6 DEF LeftOf, NONE
<1>7. CASE FetchWebrtc \/ Unstage \/ Stage \/ Clean \/ Materialize \/ ScriptExecutable \/ Settings
             \/ AdjustDse
  <2>1. unit = NONE /\ unit' = unit /\ left' = left
    BY <1>7 DEF FetchWebrtc, Unstage, Stage, Clean, Materialize, ScriptExecutable, Settings,
                AdjustDse, Resting, QueueInv, writing
  <2> QED
    BY <1>6, <2>1
<1>8. CASE RemoveAbsl \/ PlanAbsl \/ BuildConfig \/ Install \/ Upgrade
  <2>1. unit = NONE /\ unit' = unit /\ left' = left
    BY <1>8 DEF RemoveAbsl, PlanAbsl, BuildConfig, Install, Upgrade, Resting, QueueInv, writing
  <2> QED
    BY <1>6, <2>1
<1> QED
  BY <1>2, <1>3, <1>4, <1>5, <1>7, <1>8, Zenon DEF WebrtcNext

\* The other variables.
LEMMA ScalarTypeStep ==
  ASSUME WebrtcTypeOK, WebrtcNext
  PROVE  /\ dotgn' \in {NONE, "upstream", "patched", "torn"}
         /\ exports' \in Exports /\ archives' \in {Static(e) : e \in Exports} \cup {{}}
         /\ host' \in Hosts /\ editable' \in BOOLEAN
         /\ place' \in {"idle", "stage", "unstaged", "blobs", "settings", "probe", "generate",
                        "write", "absl", "plan", "exports", "gn", "install", "done", "failed",
                        "stopped"}
         /\ config' \in 1..2 /\ installed' \subseteq ToSet(Configs)
         /\ published' \in {Static(e) : e \in Exports} \cup {{}}
         /\ builds' \in 0..MaxWebrtcBuilds
<1> DEFINE Archives == {Static(e) : e \in Exports} \cup {{}}
<1>1. Static(exports) \in Archives
  BY DEF WebrtcTypeOK
<1>2. archives \in Archives /\ published \in Archives /\ {} \in Archives
  BY DEF WebrtcTypeOK
<1>3. archives' \in Archives /\ published' \in Archives
  <2>1. archives' \in {archives, Static(exports)} /\ published' \in {published, archives, {}}
    BY StaticIsKnown DEF WebrtcNext, FetchWebrtc, Unstage, Stage, Clean, Materialize,
          ScriptExecutable, Settings, AdjustDse, ClearOverlay, WriteFile, EndUnit, RemoveAbsl,
          PlanAbsl, WriteExports, BuildConfig, Install, Stop, Upgrade, package
  <2> HIDE DEF Archives
  <2> QED
    BY <1>1, <1>2, <2>1
<1>4. exports' \in Exports
  BY DEF WebrtcTypeOK, WebrtcNext, FetchWebrtc, Unstage, Stage, Clean, Materialize,
         ScriptExecutable, Settings, AdjustDse, ClearOverlay, WriteFile, EndUnit, RemoveAbsl,
         PlanAbsl, WriteExports, BuildConfig, Install, Stop, Upgrade
<1>5. host' \in Hosts /\ editable' \in BOOLEAN
  BY DEF WebrtcTypeOK, WebrtcNext, FetchWebrtc, Unstage, Stage, Clean, Materialize,
         ScriptExecutable, Settings, AdjustDse, ClearOverlay, WriteFile, EndUnit, RemoveAbsl,
         PlanAbsl, WriteExports, BuildConfig, Install, Stop, Upgrade, choices
<1>6. dotgn' \in {NONE, "upstream", "patched", "torn"}
  BY DEF WebrtcTypeOK, WebrtcNext, FetchWebrtc, Unstage, Stage, Clean, Materialize,
         ScriptExecutable, Settings, AdjustDse, ClearOverlay, WriteFile, EndUnit, RemoveAbsl,
         PlanAbsl, WriteExports, BuildConfig, Install, Stop, Upgrade
<1>7. place' \in {"idle", "stage", "unstaged", "blobs", "settings", "probe", "generate",
                  "write", "absl", "plan", "exports", "gn", "install", "done", "failed", "stopped"}
  <2>1. CASE \/ FetchWebrtc \/ Unstage \/ Stage \/ Clean \/ Materialize \/ ScriptExecutable
             \/ Settings \/ AdjustDse \/ Stop \/ Upgrade
    BY <2>1 DEF WebrtcTypeOK, FetchWebrtc, Unstage, Stage, Clean, Materialize, ScriptExecutable,
                Settings, AdjustDse, BeginConfig, Stop, Upgrade
  <2>2. CASE ClearOverlay \/ WriteFile \/ EndUnit
    BY <2>2 DEF WebrtcTypeOK, ClearOverlay, WriteFile, EndUnit
  <2>3. CASE RemoveAbsl \/ PlanAbsl \/ WriteExports \/ BuildConfig \/ Install
    BY <2>3 DEF RemoveAbsl, PlanAbsl, WriteExports, BuildConfig, BeginConfig, Install
  <2> QED
    BY <2>1, <2>2, <2>3 DEF WebrtcNext
<1>8. config' \in 1..2
  <2>1. config' \in {config, 1, 2}
    <3>1. CASE AdjustDse \/ BuildConfig \/ Stop
      BY <3>1 DEF AdjustDse, BeginConfig, BuildConfig, Stop
    <3>2. ~(AdjustDse \/ BuildConfig \/ Stop) => config' = config
      BY DEF WebrtcNext, FetchWebrtc, Unstage, Stage, Clean, Materialize, ScriptExecutable,
             Settings, ClearOverlay, WriteFile, EndUnit, RemoveAbsl, PlanAbsl, WriteExports,
             Install, Upgrade
    <3> QED
      BY <3>1, <3>2
  <2>2. config \in 1..2
    BY DEF WebrtcTypeOK
  <2> QED
    BY <2>1, <2>2
<1>9. installed' \subseteq ToSet(Configs)
  <2>1. installed' \in {installed, {}, installed \cup {Configs[config]}}
    BY DEF WebrtcNext, FetchWebrtc, Unstage, Stage, Clean, Materialize, ScriptExecutable,
           Settings, AdjustDse, ClearOverlay, WriteFile, EndUnit, RemoveAbsl, PlanAbsl,
           WriteExports, BuildConfig, Install, Stop, Upgrade, package
  <2>2. installed \subseteq ToSet(Configs) /\ Configs[config] \in ToSet(Configs)
    BY ConfigNames DEF WebrtcTypeOK
  <2> QED
    BY <2>1, <2>2
<1>10. builds' \in 0..MaxWebrtcBuilds
  <2>1. builds' = builds \/ (builds < MaxWebrtcBuilds /\ builds' = builds + 1)
    BY DEF WebrtcNext, FetchWebrtc, Unstage, Stage, Clean, Materialize, ScriptExecutable,
           Settings, AdjustDse, ClearOverlay, WriteFile, EndUnit, RemoveAbsl, PlanAbsl,
           WriteExports, BuildConfig, Install, Stop, Upgrade, package
  <2> QED
    BY <2>1, MaxWebrtcBuildsAssumption DEF WebrtcTypeOK
<1> QED
  BY <1>3, <1>4, <1>5, <1>6, <1>7, <1>8, <1>9, <1>10

\* Every variable keeps its type.
LEMMA TypeStep ==
  ASSUME WebrtcTypeOK, QueueInv, WebrtcNext
  PROVE  WebrtcTypeOK'
<1>1. \A f \in DOMAIN tree' : tree'[f] \in [lib : {NONE, "debug", "release"},
                                             libs : SUBSET LibNames, tool : BOOLEAN]
  BY TreeTypeStep DEF TreeTyped, Content
<1>2. queue' \in Seq(IF place' \in {"stage", "unstaged"} THEN ToSet(Repos)
                     ELSE IF place' = "blobs" THEN ToSet(RnnoiseFiles) ELSE Declared)
  BY QueueTypeStep DEF QueueOf
<1>3. left' \in Seq(IF unit' = "abseil-cpp" THEN ToSet(AbslFiles')
                    ELSE UNION {ToSet(SPECS[d].files) : d \in DOMAIN SPECS \cap {unit'}})
  BY LeftTypeStep DEF LeftOf
<1> QED
  BY <1>1, <1>2, <1>3, ScalarTypeStep, LeftTypeStep, Zenon DEF WebrtcTypeOK

-----------------------------------------------------------------------------
\* Nothing has been staged or written before the first build.
LEMMA WebrtcBegins == WebrtcInit => WebrtcInv
<1> SUFFICES ASSUME WebrtcInit
             PROVE  WebrtcInv
  OBVIOUS
<1>1. DOMAIN tree = {} /\ dotgn = NONE /\ place = "idle" /\ unit = NONE /\ queue = <<>> /\ left = <<>>
  BY DEF WebrtcInit
<1>2. ToCome = Owners \ {"src"}
  BY <1>1, RemainingLate DEF ToCome
<1>3. "nasm" \in ToCome \ {unit} /\ "abseil-cpp" \in ToCome \ {unit}
  BY <1>1, <1>2, LatePhases, OverlayNames DEF Late, NONE
<1>4. QueueInv
  BY <1>1 DEF QueueInv
<1>5. TreeInv /\ DotgnInv /\ DseInv /\ LinkInv
  BY <1>1 DEF TreeInv, DotgnInv, DseInv, LinkInv, Resting, Configuring
<1>6. NasmInv /\ AbslInv
  BY <1>3 DEF NasmInv, AbslInv
<1>7. InstInv /\ ExportsAgree /\ RebuildsSucceed
  BY <1>1 DEF InstInv, ExportsAgree, RebuildsSucceed, Configuring
<1>8. queue \in Seq(Declared) /\ left \in Seq(LeftOf(unit, AbslFiles))
  BY <1>1, EmptyLists
<1>9. WebrtcTypeOK
  BY <1>1, <1>8, MaxWebrtcBuildsAssumption DEF WebrtcInit, WebrtcTypeOK, LeftOf
<1> QED
  BY <1>4, <1>5, <1>6, <1>7, <1>9 DEF WebrtcInv

\* Stuttering changes nothing.
LEMMA WebrtcStutters == WebrtcInv /\ UNCHANGED webrtcVars => WebrtcInv'
<1> SUFFICES ASSUME WebrtcInv, UNCHANGED webrtcVars
             PROVE  WebrtcInv'
  OBVIOUS
<1>1. /\ tree' = tree /\ dotgn' = dotgn /\ archives' = archives /\ exports' = exports
      /\ host' = host /\ editable' = editable /\ place' = place /\ config' = config
      /\ queue' = queue /\ unit' = unit /\ left' = left /\ installed' = installed
      /\ published' = published /\ builds' = builds
  BY DEF webrtcVars, choices, writing, package
<1>2. WebrtcTypeOK' /\ QueueInv'
  <2>1. AbslFiles' = AbslFiles
    BY <1>1 DEF AbslFiles, KnownTargets
  <2> QED
    BY <1>1, <2>1 DEF WebrtcInv, WebrtcTypeOK, QueueInv
<1>3. ToCome' = ToCome /\ \A o : FilesOf(o)' = FilesOf(o)
  BY <1>1, FilesStay DEF ToCome
<1>4. TreeInv' /\ DotgnInv' /\ DseInv'
  BY <1>1, <1>3 DEF WebrtcInv, TreeInv, DotgnInv, DseInv, Resting, Configuring
<1>5. LinkInv' /\ NasmInv' /\ AbslInv'
  BY <1>1, <1>3 DEF WebrtcInv, LinkInv, NasmInv, AbslInv, Static
<1>6. InstInv' /\ ExportsAgree' /\ RebuildsSucceed'
  BY <1>1 DEF WebrtcInv, InstInv, ExportsAgree, RebuildsSucceed, Configuring, Static,
              KnownTargets
<1> QED
  BY <1>2, <1>4, <1>5, <1>6 DEF WebrtcInv

\* The inductive invariant.
LEMMA WebrtcInductive == WebrtcSpec => []WebrtcInv
<1>1. WebrtcInv /\ [WebrtcNext]_webrtcVars => WebrtcInv'
  <2> SUFFICES ASSUME WebrtcInv, WebrtcNext
               PROVE  WebrtcInv'
    BY WebrtcStutters
  <2>1. WebrtcTypeOK' /\ QueueInv'
    BY TypeStep, QueueStep DEF WebrtcInv
  <2>2. TreeInv' /\ DotgnInv' /\ DseInv'
    BY TreeStep, DotgnStep, DseStep DEF WebrtcInv
  <2>3. LinkInv' /\ NasmInv' /\ AbslInv'
    BY LinkStep, NasmStep, AbslStep DEF WebrtcInv
  <2>4. InstInv' /\ ExportsAgree' /\ RebuildsSucceed'
    BY InstStep, ExportsStep, RebuildsStep DEF WebrtcInv
  <2> QED
    BY <2>1, <2>2, <2>3, <2>4 DEF WebrtcInv
<1> QED
  BY <1>1, WebrtcBegins, PTL DEF WebrtcSpec

-----------------------------------------------------------------------------
\* The queue, the unit and the contents of the tree are of their kinds at every
\* place of the portfile, for any labels and exports of abseil.
THEOREM WebrtcTypesAreInvariant == WebrtcSpec => []WebrtcTypeOK
<1>1. WebrtcInv => WebrtcTypeOK
  BY DEF WebrtcInv
<1> QED
  BY <1>1, WebrtcInductive, PTL

\* Whatever earlier builds in an editable tree have left behind, GN finds every
\* file that WebRTC, an overlay or the generated abseil names.
THEOREM TreesAreWhole == WebrtcSpec => []NothingIsMissing
<1>1. WebrtcInv => NothingIsMissing
  <2> SUFFICES ASSUME WebrtcInv, place = "gn"
               PROVE  EntryPoints \cup Named \subseteq DOMAIN tree /\ dotgn \in {"patched", "torn"}
    BY DEF NothingIsMissing
  <2>1. dotgn \in {"patched", "torn"}
    BY DEF WebrtcInv, DotgnInv, Configuring
  <2>2. ToCome = {}
    BY RemainingLate DEF ToCome
  <2>3. \A o \in Owners : FilesOf(o) \subseteq DOMAIN tree
    BY <2>1, <2>2 DEF WebrtcInv, TreeInv, NONE
  <2> QED
    BY <2>1, <2>3, NamedIsOwned
<1> QED
  BY <1>1, WebrtcInductive, PTL

\* GN never reads an overlay that was written for the other configuration, and
\* the assembler is in place.
THEOREM OverlaysFitConfig == WebrtcSpec => []RenderedForConfig
<1>1. WebrtcInv => RenderedForConfig
  <2> SUFFICES ASSUME WebrtcInv, place = "gn"
               PROVE  /\ \A f \in DOMAIN tree : tree[f].libs # {} => tree[f].lib = Configs[config]
                      /\ tree[<<"nasm", "nasm_assemble.gni">>].tool
    BY DEF RenderedForConfig
  <2>1. ToCome = {} /\ unit = NONE
    BY RemainingLate DEF ToCome, WebrtcInv, QueueInv
  <2> QED
    BY <2>1 DEF WebrtcInv, LinkInv, NasmInv, Assemble, NONE
<1> QED
  BY <1>1, WebrtcInductive, PTL

\* What the package tells its users to link is what it was built with, over
\* upgrades of abseil and builds that were stopped.
THEOREM ExportsAreCurrent == WebrtcSpec => []ExportsAgree
<1>1. WebrtcInv => ExportsAgree
  BY DEF WebrtcInv
<1> QED
  BY <1>1, WebrtcInductive, PTL

\* The state that earlier builds leave never makes the portfile fail.
THEOREM RebuildsAreSafe == WebrtcSpec => []RebuildsSucceed
<1>1. WebrtcInv => RebuildsSucceed
  BY DEF WebrtcInv
<1> QED
  BY <1>1, WebrtcInductive, PTL
=============================================================================
