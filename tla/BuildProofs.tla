---------------------------- MODULE BuildProofs ----------------------------
(***************************************************************************)
(* Proofs about the two scripts that a build runs again on what earlier    *)
(* builds have left: the driver of a portfile (PortBuild), whose logs and  *)
(* package of an earlier try must not pass for those of this one, and the  *)
(* deployment into a macOS bundle (OsxBundle), whose earlier runs have     *)
(* copied and fixed some of the libraries.  The two share no state; each   *)
(* part has an inductive invariant of its own.                             *)
(***************************************************************************)
EXTENDS PortBuild, OsxBundle, SequenceTheorems, TLAPS

(***************************************************************************)
(* The driver of a portfile.  That the package is complete at the end      *)
(* rests on what each place in the portfile knows of the commands behind   *)
(* it and those ahead, and that the list of logs is right on what the runs *)
(* of the command have written so far.  IInv adds both.                    *)
(***************************************************************************)

\* Command c ran to its end in this build.
Complete(c) == files[c] = [of |-> build, whole |-> TRUE]

\* The commands before the current one are complete, those after it have
\* installed nothing, and a directory under construction has no BUILD_INFO.
PackageSoFar ==
  /\ stage = "include" => info = 0 /\ \A c \in 1..Commands : files[c] = NoFiles
  /\ stage = "portfile" =>
       /\ info = 0
       /\ \A c \in 1..Commands :
            /\ c < command => Complete(c)
            /\ c > command => files[c] = NoFiles
            /\ c = command /\ tries = <<>> => files[c] = NoFiles
            /\ c = command /\ tries # <<>> => files[c].of \in {0, build}
            /\ c = command /\ tries # <<>> /\ Last = "ok" => Complete(c)
  /\ stage \in {"post", "info"} => info = 0 /\ \A c \in 1..Commands : Complete(c)

\* Only a command of the portfile has runs, and its runs have logs.
LogsSoFar ==
  /\ stage \in {"start", "remove", "include"} => command = 1 /\ tries = <<>>
  /\ tries # <<>> => command <= Commands
  /\ stage = "portfile" =>
       collection = {} /\ \A i \in DOMAIN tries : logs[<<command, i>>] = build
  /\ stage = "post" => collection = {} /\ tries = <<>>

IInv == /\ TypeOK /\ PackageSoFar /\ LogsSoFar
        /\ PackageIsComplete /\ InfoMatchesFiles /\ ListIsOfFailure

-----------------------------------------------------------------------------
\* A command that runs (again) has a run and a log left for it.
LEMMA RunIsInRange ==
  ASSUME TypeOK, command <= Commands, tries = <<>> \/ Retries
  PROVE  /\ command \in 1..Commands
         /\ Len(tries) + 1 \in 1..4
         /\ <<command, Len(tries) + 1>> \in Logs
<1>1. command \in 1..Commands
  BY CommandsAssumption DEF TypeOK
<1>2. Len(tries) \in Nat /\ Len(tries) <= 3
  <2>1. Len(tries) \in Nat
    BY DEF TypeOK
  <2>2. Len(tries) = 0 \/ Len(tries) = 1 \/ Len(tries) = 2 \/ Len(tries) = 3
    BY DEF TypeOK, Retries
  <2>3. \A n \in Nat : n = 0 \/ n = 1 \/ n = 2 \/ n = 3 => n <= 3
    OBVIOUS
  <2> QED
    BY <2>1, <2>2, <2>3, Zenon
<1>3. Len(tries) + 1 \in 1..4
  BY <1>2
<1>4. \A n \in 1..4 : <<command, n>> \in Logs
  BY <1>1 DEF Logs
<1> QED
  BY <1>1, <1>3, <1>4, Zenon

\* After a run, tries has its outcome last and the earlier ones as they were.
LEMMA AppendedRun ==
  ASSUME TypeOK, NEW o \in Outcomes, tries' = Append(tries, o)
  PROVE  /\ tries' # <<>> /\ Last' = o
         /\ Len(tries') = Len(tries) + 1
         /\ DOMAIN tries' = DOMAIN tries \cup {Len(tries) + 1}
BY DEF TypeOK, Last

\* The records the steps put in files have its type.
LEMMA RecordType ==
  ASSUME TypeOK
  PROVE  /\ NoFiles \in [of : Builds \cup {0}, whole : BOOLEAN]
         /\ \A w \in BOOLEAN :
              [of |-> build, whole |-> w] \in [of : Builds \cup {0}, whole : BOOLEAN]
         /\ \A c \in 1..Commands :
              [of |-> files[c].of, whole |-> FALSE]
                \in [of : Builds \cup {0}, whole : BOOLEAN]
BY DEF TypeOK, NoFiles

\* The logs of a command's runs are logs.
LEMMA CollectedType ==
  ASSUME TypeOK, LogsSoFar, tries # <<>>
  PROVE  Collected \subseteq Logs
<1>1. command \in 1..Commands
  BY CommandsAssumption DEF TypeOK, LogsSoFar
<1>2. DOMAIN tries \subseteq 1..4
  BY DEF TypeOK
<1> QED
  BY <1>1, <1>2 DEF Collected, Logs

-----------------------------------------------------------------------------
\* The invariant holds at first.
LEMMA InvInit == Init => IInv
<1> SUFFICES ASSUME Init PROVE IInv
  OBVIOUS
<1>1. TypeOK
  BY CommandsAssumption, MaxBuildsAssumption
  DEF Init, TypeOK, Builds, NoFiles
<1> QED
  BY <1>1 DEF Init, IInv, PackageSoFar, LogsSoFar, PackageIsComplete,
              InfoMatchesFiles, ListIsOfFailure

\* A step keeps the types.
LEMMA TypeNext ==
  ASSUME TypeOK, LogsSoFar, [Next]_vars
  PROVE  TypeOK'
<1> USE DEF TypeOK, package, position
<1>1. CASE UNCHANGED vars
  BY <1>1 DEF vars
<1>2. CASE Start
  BY <1>2 DEF Start
<1>3. CASE Remove
  <2>1. files' \in [1..Commands -> [of : Builds \cup {0}, whole : BOOLEAN]]
    <3>1. CASE files' = [c \in 1..Commands |-> NoFiles]
      BY <3>1, RecordType
    <3>2. ASSUME NEW gone \in SUBSET (1..Commands),
                 files' = [c \in 1..Commands |->
                   IF c \in gone THEN NoFiles ELSE [of |-> files[c].of, whole |-> FALSE]]
          PROVE  files' \in [1..Commands -> [of : Builds \cup {0}, whole : BOOLEAN]]
      BY <3>2, RecordType
    <3> QED
      BY <1>3, <3>1, <3>2 DEF Remove
  <2> QED
    BY <1>3, <2>1 DEF Remove
<1>4. CASE Include
  BY <1>4 DEF Include
<1>5. CASE Run
  <2> PICK o \in Outcomes : tries' = Append(tries, o)
    BY <1>5 DEF Run
  <2>1. tries' \in Seq(Outcomes) /\ Len(tries') <= 4
    BY <1>5, RunIsInRange, AppendedRun DEF Run
  <2>2. files' \in [1..Commands -> [of : Builds \cup {0}, whole : BOOLEAN]]
    BY <1>5, RecordType DEF Run
  <2>3. logs' \in [Logs -> Builds \cup {0}]
    BY <1>5 DEF Run
  <2> QED
    BY <1>5, <2>1, <2>2, <2>3 DEF Run
<1>6. CASE Halt
  BY <1>6 DEF Halt
<1>7. CASE Succeed
  <2>1. command' \in 1..(Commands + 1)
    BY <1>7, CommandsAssumption DEF Succeed, LogsSoFar
  <2> QED
    BY <1>7, <2>1 DEF Succeed
<1>8. CASE Fail
  BY <1>8, CollectedType DEF Fail
<1>9. CASE Leave
  BY <1>9 DEF Leave
<1>10. CASE Post
  BY <1>10 DEF Post
<1>11. CASE WriteInfo
  BY <1>11 DEF WriteInfo
<1>12. CASE Kill
  <2>1. CASE UNCHANGED package
    BY <1>12, <2>1 DEF Kill
  <2>2. CASE files' = [c \in 1..Commands |-> [of |-> files[c].of, whole |-> FALSE]]
             /\ UNCHANGED info
    <3>1. files' \in [1..Commands -> [of : Builds \cup {0}, whole : BOOLEAN]]
      BY <2>2, RecordType
    <3> QED
      BY <1>12, <2>2, <3>1 DEF Kill
  <2> QED
    BY <1>12, <2>1, <2>2 DEF Kill
<1>13. CASE Again
  BY <1>13, CommandsAssumption, MaxBuildsAssumption DEF Again, Builds
<1> QED
  BY <1>1, <1>2, <1>3, <1>4, <1>5, <1>6, <1>7, <1>8, <1>9, <1>10, <1>11, <1>12,
     <1>13 DEF Next

-----------------------------------------------------------------------------
\* A step keeps PackageSoFar.
LEMMA PackageNext ==
  ASSUME TypeOK, PackageSoFar, LogsSoFar, [Next]_vars
  PROVE  PackageSoFar'
<1> USE DEF PackageSoFar, Complete, package, position
<1>1. CASE UNCHANGED vars
  BY <1>1 DEF vars, Last
<1>2. CASE Start \/ Remove \/ Halt \/ Fail \/ Post \/ WriteInfo \/ Kill \/ Again
  BY <1>2 DEF Start, Remove, Halt, Fail, Post, WriteInfo, Kill, Again
<1>3. CASE Include
  BY <1>3 DEF Include, LogsSoFar
<1>4. CASE Run
  <2> PICK o \in Outcomes :
        /\ tries' = Append(tries, o)
        /\ \/ o = "ok" /\ files' = [files EXCEPT ![command] = [of |-> build, whole |-> TRUE]]
           \/ o # "ok" /\ files' \in {files,
                            [files EXCEPT ![command] = [of |-> build, whole |-> FALSE]]}
    BY <1>4 DEF Run
  <2>1. UNCHANGED <<build, stage, command, info>> /\ stage = "portfile"
    BY <1>4 DEF Run
  <2>2. tries' # <<>> /\ Last' = o
    BY AppendedRun
  <2>3. \A c \in 1..Commands : c # command => files'[c] = files[c]
    BY DEF TypeOK
  <2>4. command \in 1..Commands => files'[command].of \in {0, build}
    <3>1. command \in 1..Commands => files[command].of \in {0, build}
      BY <2>1 DEF NoFiles
    <3>2. \A w \in BOOLEAN :
            command \in 1..Commands =>
              [files EXCEPT ![command] = [of |-> build, whole |-> w]][command].of = build
      BY DEF TypeOK
    <3> QED
      BY <3>1, <3>2
  <2>5. command \in 1..Commands /\ o = "ok" =>
          files'[command] = [of |-> build, whole |-> TRUE]
    BY DEF TypeOK
  <2>6. ASSUME NEW c \in 1..Commands
        PROVE  /\ c < command' => Complete(c)'
               /\ c > command' => files'[c] = NoFiles
               /\ c = command' => files'[c].of \in {0, build'}
               /\ c = command' /\ o = "ok" => Complete(c)'
    <3>1. CASE c = command
      BY <3>1, <2>1, <2>4, <2>5 DEF TypeOK
    <3>2. CASE c # command
      BY <3>2, <2>1, <2>3
    <3> QED
      BY <3>1, <3>2
  <2> QED
    BY <2>1, <2>2, <2>6
<1>5. CASE Succeed
  <2>1. \A c \in 1..Commands : c < command' => Complete(c)
    BY <1>5 DEF Succeed, TypeOK
  <2>2. \A c \in 1..Commands : c >= command' => files[c] = NoFiles
    BY <1>5 DEF Succeed, TypeOK
  <2> QED
    BY <1>5, <2>1, <2>2 DEF Succeed, TypeOK
<1>6. CASE Leave
  BY <1>6, CommandsAssumption DEF Leave, TypeOK
<1> QED
  BY <1>1, <1>2, <1>3, <1>4, <1>5, <1>6 DEF Next

\* A step keeps LogsSoFar.
LEMMA LogsNext ==
  ASSUME TypeOK, LogsSoFar, [Next]_vars
  PROVE  LogsSoFar'
<1> USE DEF LogsSoFar, package, position
<1>1. CASE UNCHANGED vars
  BY <1>1 DEF vars
<1>2. CASE Start \/ Remove \/ Halt \/ Fail \/ Leave \/ Post \/ WriteInfo \/ Kill \/ Again
  BY <1>2 DEF Start, Remove, Halt, Fail, Leave, Post, WriteInfo, Kill, Again
<1>3. CASE Include
  BY <1>3 DEF Include
<1>4. CASE Run
  <2> PICK o \in Outcomes : tries' = Append(tries, o)
    BY <1>4 DEF Run
  <2>1. <<command, Len(tries) + 1>> \in Logs
    BY <1>4, RunIsInRange DEF Run
  <2>2. DOMAIN tries' = DOMAIN tries \cup {Len(tries) + 1}
    BY AppendedRun
  <2>3. \A l \in Logs : logs'[l] = IF l = <<command, Len(tries) + 1>> THEN build ELSE logs[l]
    BY <1>4 DEF Run, TypeOK
  <2> QED
    BY <1>4, <2>1, <2>2, <2>3 DEF Run, TypeOK, Logs
<1>5. CASE Succeed
  BY <1>5 DEF Succeed
<1> QED
  BY <1>1, <1>2, <1>3, <1>4, <1>5 DEF Next

-----------------------------------------------------------------------------
\* A step keeps PackageIsComplete.
LEMMA CompleteNext ==
  ASSUME TypeOK, PackageSoFar, LogsSoFar, PackageIsComplete, [Next]_vars
  PROVE  PackageIsComplete'
<1> USE DEF PackageIsComplete, PackageSoFar, Complete
<1>1. CASE UNCHANGED vars
  BY <1>1 DEF vars, package, position
<1>2. CASE WriteInfo
  BY <1>2 DEF WriteInfo, position
<1>3. CASE stage' # "built"
  BY <1>3
<1>4. stage' = "built" /\ ~UNCHANGED vars => WriteInfo
  BY DEF Next, Start, Remove, Include, Run, Halt, Succeed, Fail, Leave, Post, Kill, Again
<1> QED
  BY <1>1, <1>2, <1>3, <1>4

\* A step keeps InfoMatchesFiles.
LEMMA InfoNext ==
  ASSUME TypeOK, PackageSoFar, InfoMatchesFiles, [Next]_vars
  PROVE  InfoMatchesFiles'
<1> USE DEF InfoMatchesFiles, PackageSoFar, Complete
<1>1. CASE UNCHANGED package
  BY <1>1 DEF package
<1>2. CASE Remove
  <2>1. \A c \in 1..Commands :
          files'[c] \in {NoFiles, [of |-> files[c].of, whole |-> FALSE]}
    BY <1>2, Zenon DEF Remove
  <2>2. info' \in {0, info}
    BY <1>2 DEF Remove
  <2> QED
    BY <2>1, <2>2 DEF NoFiles
<1>3. CASE Run
  BY <1>3 DEF Run
<1>4. CASE WriteInfo
  BY <1>4 DEF WriteInfo
<1>5. CASE Kill
  <2>1. \A c \in 1..Commands :
          files'[c] \in {files[c], [of |-> files[c].of, whole |-> FALSE]}
    BY <1>5, Zenon DEF Kill, package
  <2>2. info' = info
    BY <1>5 DEF Kill, package
  <2> QED
    BY <2>1, <2>2
<1> QED
  BY <1>1, <1>2, <1>3, <1>4, <1>5
  DEF Next, vars, package, Start, Include, Halt, Succeed, Fail, Leave, Post, Again

\* A step keeps ListIsOfFailure.
LEMMA ListNext ==
  ASSUME TypeOK, LogsSoFar, ListIsOfFailure, [Next]_vars
  PROVE  ListIsOfFailure'
<1> USE DEF ListIsOfFailure, LogsSoFar, package, position
<1>1. CASE UNCHANGED vars
  BY <1>1 DEF vars
<1>2. CASE Fail
  <2>1. /\ UNCHANGED <<build, command, tries, logs>>
        /\ collection = {}
        /\ \A i \in DOMAIN tries : logs[<<command, i>>] = build
    BY <1>2 DEF Fail
  <2>2. CASE tries = <<"noCode">>
    <3>1. collection' = {}
      BY <1>2, <2>1, <2>2 DEF Fail
    <3> QED
      BY <2>1, <2>2, <3>1
  <2>3. CASE tries # <<"noCode">>
    <3>1. collection' = Collected
      BY <1>2, <2>1, <2>3 DEF Fail
    <3> QED
      BY <2>1, <3>1 DEF Collected
  <2> QED
    BY <2>2, <2>3
<1>3. CASE Leave \/ Post
  BY <1>3 DEF Leave, Post
<1>4. CASE stage' # "failed"
  BY <1>4
<1>5. stage' = "failed" => UNCHANGED vars \/ Fail \/ Leave \/ Post
  BY DEF Next, Start, Remove, Include, Run, Halt, Succeed, WriteInfo, Kill, Again
<1> QED
  BY <1>1, <1>2, <1>3, <1>4, <1>5

\* Every step keeps the invariant...
LEMMA InvNext == IInv /\ [Next]_vars => IInv'
BY TypeNext, PackageNext, LogsNext, CompleteNext, InfoNext, ListNext DEF IInv

\* ...and so it holds throughout.
LEMMA Invariance == Spec => []IInv
BY InvInit, InvNext, PTL DEF Spec

-----------------------------------------------------------------------------
\* Every variable of the build keeps its type: in particular no command has
\* more than four runs, and only runs of commands are on the list of logs.
THEOREM TypeCorrect == Spec => []TypeOK
<1>1. IInv => TypeOK
  BY DEF IInv
<1> QED
  BY <1>1, Invariance, PTL

\* ports.cmake succeeds only with a package made by this build alone, for any
\* number of commands, of retries and of builds killed before it.
THEOREM PackagesAreComplete == Spec => []PackageIsComplete
<1>1. IInv => PackageIsComplete
  BY DEF IInv
<1> QED
  BY <1>1, Invariance, PTL

\* Whatever builds were killed or could not remove the directory, BUILD_INFO
\* stands beside files of its own build only.
THEOREM InfoIsOfFiles == Spec => []InfoMatchesFiles
<1>1. IInv => InfoMatchesFiles
  BY DEF IInv
<1> QED
  BY <1>1, Invariance, PTL

\* The list vcpkg reads after a failure is of the runs of the failing command.
THEOREM ListsAreOfFailures == Spec => []ListIsOfFailure
<1>1. IInv => ListIsOfFailure
  BY DEF IInv
<1> QED
  BY <1>1, Invariance, PTL
-----------------------------------------------------------------------------
(***************************************************************************)
(* The deployment into a bundle.  That the bundle is closed at the end     *)
(* rests on every library that something in the bundle refers to being     *)
(* settled, or under way in some call or copy, and on each call having     *)
(* what its binary needs behind it or still on its list.  OsxInv says so   *)
(* of every state that no failure or interruption has led to.              *)
(***************************************************************************)

\* A call of fix_binary.
Frames == [binary : Binaries, todo : Seq(Refs)]

\* What b needs is in the bundle, and b refers to it there.
Settled(b) == Needs(b) \subseteq Whole \cap fixed[b]

\* Some call is fixing b.
OnStack(b) == \E i \in DOMAIN stack : stack[i].binary = b

\* The library that is about to be copied.
Copying == IF step = "copy" THEN {Ref.lib} ELSE {}

\* b is settled, or the calls that there are will see to it.
IsUnderWay(b) == Settled(b) \/ OnStack(b) \/ b \in Copying

\* A call has what its binary needs behind it or ahead of it on its list.
CallSoFar(i) ==
  LET call == stack[i] IN
  /\ call.binary \in {Exe} \cup Whole
  /\ \A j \in DOMAIN call.todo : call.todo[j].done => call.todo[j].lib \in fixed[call.binary]
  /\ \/ step = "otool" /\ i = Len(stack)
     \/ \A l \in Needs(call.binary) :
          \/ l \in Whole \cap fixed[call.binary]
          \/ \E j \in DOMAIN call.todo : call.todo[j].lib = l

\* Calls exist only while the script runs; it copies what it has just fixed.
Bookkeeping ==
  /\ stack # <<>> => phase \in {"main", "walk"}
  /\ step = "copy" => stack # <<>> /\ Top.todo # <<>> /\ Ref.lib \in fixed[Top.binary]

\* What holds as long as nothing has failed.
Untainted ==
  /\ phase \in {"main", "walk", "exit0"}
  /\ \A l \in Libs : file[l] # "torn"
  /\ \A i \in DOMAIN stack : CallSoFar(i)
  /\ \A b \in Binaries : fixed[b] \subseteq Whole \cup Copying
  /\ IsUnderWay(Exe)
  /\ \A b \in Binaries : \A l \in fixed[b] : IsUnderWay(l)
  /\ walk \subseteq Whole
  /\ phase \in {"walk", "exit0"} => \A l \in Whole \ Frameworks : l \in walk \/ IsUnderWay(l)
  /\ phase = "exit0" => walk = {}

\* The inductive invariant.
OsxInv == OsxTypeOK /\ Bookkeeping /\ (~tainted => Untainted)

-----------------------------------------------------------------------------
\* The last element of a sequence dropped, and replaced by another.
LEMMA LastReplaced ==
  ASSUME NEW S, NEW s \in Seq(S), s # <<>>, NEW e \in S
  PROVE  LET below == SubSeq(s, 1, Len(s) - 1)
             t == Append(below, e)
         IN  /\ Len(s) \in Nat \ {0} /\ Len(s) \in DOMAIN s /\ s[Len(s)] \in S
             /\ below \in Seq(S) /\ DOMAIN below = DOMAIN s \ {Len(s)}
             /\ \A i \in DOMAIN s \ {Len(s)} : below[i] = s[i]
             /\ t \in Seq(S) /\ t # <<>> /\ Len(t) = Len(s) /\ DOMAIN t = DOMAIN s
             /\ t[Len(s)] = e /\ \A i \in DOMAIN s \ {Len(s)} : t[i] = s[i]
<1> DEFINE n == Len(s)
           m == Len(s) - 1
           below == SubSeq(s, 1, m)
           t == Append(below, e)
<1>1. /\ n \in Nat \ {0} /\ DOMAIN s = 1..n /\ n \in DOMAIN s /\ s[n] \in S
      /\ m \in Nat /\ n = m + 1 /\ \A i \in 1..m : s[i] \in S
  BY EmptySeq
<1> HIDE DEF n, m
<1>2. DOMAIN s \ {n} = 1..m
  BY <1>1
<1>3. below \in Seq(S)
  BY <1>1, SubSeqProperties
<1>4. Len(below) = m /\ \A i \in 1..m : below[i] = s[i]
  BY <1>1, SubSeqProperties
<1> HIDE DEF below
<1>5. /\ t \in Seq(S) /\ t # <<>> /\ Len(t) = n /\ t[n] = e
      /\ \A i \in 1..m : t[i] = below[i]
  BY <1>1, <1>3, <1>4, AppendProperties
<1> HIDE DEF t
<1>6. DOMAIN t = 1..n /\ DOMAIN below = 1..m
  BY <1>3, <1>4, <1>5
<1> QED
  BY <1>1, <1>2, <1>3, <1>4, <1>5, <1>6 DEF n, m, below, t

\* The calls and their lists.
LEMMA CallTypes ==
  ASSUME OsxTypeOK
  PROVE  /\ stack \in Seq(Frames)
         /\ \A i \in DOMAIN stack : stack[i].binary \in Binaries
         /\ \A b \in Binaries : Call(b) \in Frames
         /\ \A b \in Binaries : Listed(b) \in Seq(Refs) /\ Needs(b) \in SUBSET Libs
<1>1. stack \in Seq(Frames)
  BY DEF OsxTypeOK, Frames
<1>2. \A b \in Binaries : Call(b) \in Frames
  BY DEF Call, Frames
<1>3. ASSUME NEW b \in Binaries PROVE Listed(b) \in Seq(Refs) /\ Needs(b) \in SUBSET Libs
  <2>1. Deps[b] \in Seq(Libs)
    BY DepsAssumption
  <2>2. \A i \in DOMAIN Deps[b] : Deps[b][i] \in Libs
    BY <2>1
  <2>3. Listed(b) \in [1..Len(Deps[b]) -> Refs] /\ Len(Deps[b]) \in Nat
    BY <2>1, <2>2 DEF Listed, Refs
  <2>4. Listed(b) \in Seq(Refs)
    BY <2>3
  <2> QED
    BY <2>2, <2>4 DEF Needs
<1>4. \A i \in DOMAIN stack : stack[i] \in Frames
  BY <1>1
<1>5. \A i \in DOMAIN stack : stack[i].binary \in Binaries
  BY <1>4 DEF Frames
<1> QED
  BY <1>1, <1>2, <1>3, <1>5

\* The innermost call, and the one it has gone on to.
LEMMA InnermostCall ==
  ASSUME OsxTypeOK, stack # <<>>
  PROVE  /\ Len(stack) \in Nat \ {0} /\ Len(stack) \in DOMAIN stack
         /\ Top \in Frames /\ Top.binary \in Binaries /\ Top.todo \in Seq(Refs)
         /\ Below \in Seq(Frames) /\ DOMAIN Below = DOMAIN stack \ {Len(stack)}
         /\ \A i \in DOMAIN Below : Below[i] = stack[i]
         /\ Top.todo # <<>> =>
              /\ Ref \in Refs /\ Ref = Top.todo[1] /\ 1 \in DOMAIN Top.todo
              /\ Tail(Top.todo) \in Seq(Refs)
              /\ \A j \in DOMAIN Top.todo \ {1} :
                   j - 1 \in DOMAIN Tail(Top.todo) /\ Tail(Top.todo)[j - 1] = Top.todo[j]
              /\ \A j \in DOMAIN Tail(Top.todo) :
                   j + 1 \in DOMAIN Top.todo /\ Tail(Top.todo)[j] = Top.todo[j + 1]
<1>1. stack \in Seq(Frames)
  BY CallTypes
<1>2. /\ Len(stack) \in Nat \ {0} /\ Len(stack) \in DOMAIN stack /\ Top \in Frames
      /\ Below \in Seq(Frames) /\ DOMAIN Below = DOMAIN stack \ {Len(stack)}
      /\ \A i \in DOMAIN Below : Below[i] = stack[i]
  BY <1>1, LastReplaced DEF Top, Below
<1>3. Top.binary \in Binaries /\ Top.todo \in Seq(Refs)
  BY <1>2 DEF Frames
<1>4. ASSUME Top.todo # <<>>
      PROVE  /\ Ref \in Refs /\ Ref = Top.todo[1] /\ 1 \in DOMAIN Top.todo
             /\ Tail(Top.todo) \in Seq(Refs)
             /\ \A j \in DOMAIN Top.todo \ {1} :
                  j - 1 \in DOMAIN Tail(Top.todo) /\ Tail(Top.todo)[j - 1] = Top.todo[j]
             /\ \A j \in DOMAIN Tail(Top.todo) :
                  j + 1 \in DOMAIN Top.todo /\ Tail(Top.todo)[j] = Top.todo[j + 1]
  <2> DEFINE s == Top.todo
  <2>1. s \in Seq(Refs) /\ s # <<>> /\ Len(s) \in Nat \ {0}
    BY <1>3, <1>4, EmptySeq
  <2>2. /\ Head(s) = s[1] /\ Tail(s) \in Seq(Refs) /\ Len(Tail(s)) = Len(s) - 1
        /\ \A i \in 1..Len(Tail(s)) : Tail(s)[i] = s[i + 1]
    BY <2>1, HeadTailProperties
  <2>3. s[1] \in Refs /\ DOMAIN s = 1..Len(s) /\ DOMAIN Tail(s) = 1..(Len(s) - 1)
    BY <2>1, <2>2
  <2>4. \A j \in DOMAIN s \ {1} : j - 1 \in 1..(Len(s) - 1) /\ (j - 1) + 1 = j
    BY <2>1, <2>3
  <2>5. \A j \in DOMAIN s \ {1} : j - 1 \in DOMAIN Tail(s) /\ Tail(s)[j - 1] = s[j]
    BY <2>2, <2>3, <2>4
  <2>6. \A j \in DOMAIN Tail(s) : j + 1 \in DOMAIN s /\ Tail(s)[j] = s[j + 1]
    BY <2>1, <2>2, <2>3
  <2> HIDE DEF s
  <2> QED
    BY <2>1, <2>2, <2>3, <2>5, <2>6 DEF s, Ref
<1> QED
  BY <1>1, <1>2, <1>3, <1>4

\* fix_dependency has returned: the innermost call goes on to its next reference.
LEMMA AdvancedCalls ==
  ASSUME OsxTypeOK, stack # <<>>, Top.todo # <<>>
  PROVE  /\ Advanced \in Seq(Frames) /\ Len(Advanced) = Len(stack)
         /\ DOMAIN Advanced = DOMAIN stack
         /\ \A i \in DOMAIN stack : Advanced[i].binary = stack[i].binary
         /\ Advanced[Len(stack)].todo = Tail(Top.todo)
         /\ \A i \in DOMAIN stack \ {Len(stack)} : Advanced[i] = stack[i]
<1> DEFINE call == [Top EXCEPT !.todo = Tail(@)]
<1>1. Top \in Frames /\ Tail(Top.todo) \in Seq(Refs)
  BY InnermostCall
<1>2. call \in Frames /\ call.binary = Top.binary /\ call.todo = Tail(Top.todo)
  BY <1>1 DEF Frames
<1> HIDE DEF call
<1>3. LET t == Append(Below, call)
      IN  /\ t \in Seq(Frames) /\ Len(t) = Len(stack) /\ DOMAIN t = DOMAIN stack
          /\ t[Len(stack)] = call /\ \A i \in DOMAIN stack \ {Len(stack)} : t[i] = stack[i]
  BY <1>2, CallTypes, LastReplaced DEF Below
<1>4. Advanced = Append(Below, call)
  BY DEF Advanced, call
<1> QED
  BY <1>2, <1>3, <1>4 DEF Top

\* fix_dependency calls fix_binary.
LEMMA NestedCall ==
  ASSUME NEW s \in Seq(Frames), NEW b \in Binaries
  PROVE  LET t == Append(s, Call(b))
         IN  /\ t \in Seq(Frames) /\ t # <<>> /\ Len(t) = Len(s) + 1 /\ DOMAIN t = 1..Len(s) + 1
             /\ t[Len(t)] = Call(b) /\ \A i \in DOMAIN s : t[i] = s[i] /\ i \in DOMAIN t /\ i # Len(t)
             /\ \A i \in DOMAIN t : i # Len(t) => i \in DOMAIN s
<1> DEFINE t == Append(s, Call(b))
<1>1. Call(b) \in Frames
  BY DEF Call, Frames
<1>2. /\ t \in Seq(Frames) /\ t # <<>> /\ Len(t) = Len(s) + 1
      /\ t[Len(s) + 1] = Call(b) /\ \A i \in 1..Len(s) : t[i] = s[i]
  BY <1>1, AppendProperties
<1>3. Len(s) \in Nat /\ DOMAIN s = 1..Len(s)
  BY LenProperties
<1>4. DOMAIN t = 1..Len(s) + 1
  BY <1>2
<1> HIDE DEF t
<1> QED
  BY <1>2, <1>3, <1>4 DEF t

-----------------------------------------------------------------------------
\* The bundle as the linker leaves it.
LEMMA OsxInitHasInv == OsxInit => OsxInv
<1> SUFFICES ASSUME OsxInit PROVE OsxInv
  OBVIOUS
<1>1. stack = <<Call(Exe)>> /\ Call(Exe) \in Frames /\ Call(Exe).binary = Exe
  BY DEF OsxInit, Call, Frames, Binaries
<1>2. stack \in Seq(Frames) /\ Len(stack) = 1 /\ DOMAIN stack = {1} /\ stack[1] = Call(Exe)
  BY <1>1
<1>3. OsxTypeOK
  <2>1. fixed \in [Binaries -> SUBSET Libs] /\ runs \in 1..(MaxRuns + 1)
    BY MaxRunsAssumption DEF OsxInit
  <2> QED
    BY <1>2, <2>1 DEF OsxInit, OsxTypeOK, Frames
<1>4. Bookkeeping
  BY DEF OsxInit, Bookkeeping
<1>5. Untainted
  <2>1. \A i \in DOMAIN stack : CallSoFar(i)
    BY <1>1, <1>2 DEF OsxInit, CallSoFar, Call
  <2>2. IsUnderWay(Exe)
    BY <1>1, <1>2 DEF IsUnderWay, OnStack
  <2>3. \A b \in Binaries : fixed[b] = {}
    BY DEF OsxInit
  <2> QED
    BY <2>1, <2>2, <2>3 DEF OsxInit, Untainted
<1> QED
  BY <1>3, <1>4, <1>5 DEF OsxInv

\* fix_binary has its list: what the binary needs is on it.
LEMMA OtoolKeepsInv ==
  ASSUME OsxInv, Otool
  PROVE  OsxInv'
<1> DEFINE n == Len(stack)
           call == [Top EXCEPT !.todo = Listed(Top.binary)]
<1>1. OsxTypeOK /\ stack # <<>> /\ step = "otool" /\ step' = "loop" /\ Bookkeeping
  BY DEF OsxInv, Otool, Active
<1>2. /\ n \in DOMAIN stack
      /\ Top \in Frames /\ Top.binary \in Binaries /\ Listed(Top.binary) \in Seq(Refs)
  BY <1>1, InnermostCall, CallTypes
<1>3. call \in Frames /\ call.binary = Top.binary /\ call.todo = Listed(Top.binary)
  BY <1>2 DEF Frames
<1> HIDE DEF call
<1>4. /\ Append(Below, call) \in Seq(Frames) /\ Append(Below, call) # <<>>
      /\ Len(Append(Below, call)) = n /\ DOMAIN Append(Below, call) = DOMAIN stack
      /\ Append(Below, call)[n] = call
      /\ \A i \in DOMAIN stack \ {n} : Append(Below, call)[i] = stack[i]
  BY <1>1, <1>3, CallTypes, LastReplaced DEF Below
<1>5. \/ stack' = Append(Below, call) /\ UNCHANGED tainted
      \/ UNCHANGED stack /\ tainted' = TRUE
  BY DEF Otool, call
<1>6. OsxTypeOK'
  <2>1. stack' \in Seq(Frames)
    BY <1>1, <1>4, <1>5, CallTypes
  <2>2. tainted' \in BOOLEAN
    BY <1>5 DEF OsxInv, OsxTypeOK
  <2> QED
    BY <1>1, <2>1, <2>2 DEF Otool, OsxTypeOK, bundle, Frames
<1>7. Bookkeeping'
  BY <1>1 DEF Otool, Active, Bookkeeping
<1>8. ASSUME ~tainted' PROVE Untainted'
  <2>1. Untainted /\ stack' = Append(Below, call)
    BY <1>5, <1>8 DEF OsxInv
  <2>2. /\ DOMAIN stack' = DOMAIN stack /\ Len(stack') = n /\ stack'[n] = call
        /\ \A i \in DOMAIN stack \ {n} : stack'[i] = stack[i]
    BY <1>4, <2>1
  <2>4. \A i \in DOMAIN stack : stack'[i].binary = stack[i].binary
    BY <1>3, <2>2 DEF Top
  <2>5. UNCHANGED <<file, fixed, walk, phase>>
    BY DEF Otool, bundle
  <2>6. \A b : IsUnderWay(b) => IsUnderWay(b)'
    <3>1. \A b : OnStack(b)' <=> OnStack(b)
      BY <1>2, <2>2, <2>4 DEF OnStack
    <3> QED
      BY <1>1, <2>5, <3>1 DEF IsUnderWay, Settled, Needs, Whole, Copying
  <2>7. ASSUME NEW i \in DOMAIN stack PROVE CallSoFar(i)'
    <3>1. CASE i = n
      <4>0. PICK b \in Binaries : b = Top.binary
        BY <1>2
      <4>1. CallSoFar(n)
        BY <1>2, <2>1 DEF Untainted
      <4>2. b \in {Exe} \cup Whole
        BY <4>0, <4>1 DEF CallSoFar, Top
      <4>3. Deps[b] \in Seq(Libs) /\ DOMAIN Listed(b) = DOMAIN Deps[b]
        BY <1>2, DepsAssumption DEF Listed
      <4>4. \A j \in DOMAIN Listed(b) :
              Listed(b)[j].lib = Deps[b][j] /\ (Listed(b)[j].done => Deps[b][j] \in fixed[b])
        BY <4>3 DEF Listed
      <4>5. \A l \in Needs(b) : \E j \in DOMAIN Listed(b) : Listed(b)[j].lib = l
        BY <4>3, <4>4 DEF Needs
      <4>6. stack'[i].binary = b /\ stack'[i].todo = Listed(b)
        BY <1>3, <2>2, <3>1, <4>0
      <4>7. Whole' = Whole /\ fixed' = fixed
        BY <2>5 DEF Whole
      <4> HIDE DEF n
      <4> QED
        BY <4>2, <4>4, <4>5, <4>6, <4>7 DEF CallSoFar
    <3>2. CASE i # n
      <4>1. stack'[i] = stack[i] /\ CallSoFar(i) /\ Len(stack) # i
        BY <2>1, <2>2, <3>2 DEF Untainted
      <4> QED
        BY <2>5, <4>1 DEF CallSoFar, Whole, Needs
    <3> QED
      BY <3>1, <3>2
  <2>8. Copying' = {} /\ Copying = {} /\ Whole' = Whole
    BY <1>1, <2>5 DEF Copying, Whole
  <2> QED
    BY <2>1, <2>2, <2>5, <2>6, <2>7, <2>8 DEF Untainted
<1> QED
  BY <1>6, <1>7, <1>8 DEF OsxInv

\* A call that nobody works on stays good while the bundle grows.
LEMMA CallStays ==
  ASSUME NEW i \in DOMAIN stack, CallSoFar(i), stack'[i] = stack[i], step # "otool",
         Whole \subseteq Whole', fixed[stack[i].binary] \subseteq fixed'[stack[i].binary]
  PROVE  CallSoFar(i)'
BY DEF CallSoFar

\* A reference that is left alone is not needed, or was fixed before.
LEMMA SkipKeepsInv ==
  ASSUME OsxInv, SkipDependency
  PROVE  OsxInv'
<1> DEFINE n == Len(stack)
<1>1. /\ OsxTypeOK /\ Bookkeeping /\ stack # <<>> /\ Top.todo # <<>> /\ step = "loop"
      /\ stack' = Advanced /\ LeftAlone(Top.binary, Ref)
      /\ UNCHANGED <<file, fixed, step, walk, phase, failed, tainted, runs>>
  BY DEF OsxInv, SkipDependency, Active, bundle, history
<1>2. /\ Advanced \in Seq(Frames) /\ Len(Advanced) = n /\ DOMAIN Advanced = DOMAIN stack
      /\ \A i \in DOMAIN stack : Advanced[i].binary = stack[i].binary
      /\ Advanced[n].todo = Tail(Top.todo)
      /\ \A i \in DOMAIN stack \ {n} : Advanced[i] = stack[i]
  BY <1>1, AdvancedCalls
<1>3. /\ n \in DOMAIN stack /\ Top.binary \in Binaries /\ Ref = Top.todo[1] /\ Ref \in Refs
      /\ \A j \in DOMAIN Top.todo \ {1} :
           j - 1 \in DOMAIN Tail(Top.todo) /\ Tail(Top.todo)[j - 1] = Top.todo[j]
      /\ \A j \in DOMAIN Tail(Top.todo) :
           j + 1 \in DOMAIN Top.todo /\ Tail(Top.todo)[j] = Top.todo[j + 1]
      /\ 1 \in DOMAIN Top.todo
  BY <1>1, InnermostCall
<1>4. OsxTypeOK'
  BY <1>1, <1>2 DEF OsxTypeOK, Frames
<1>5. Bookkeeping'
  BY <1>1 DEF Bookkeeping, SkipDependency, Active
<1>6. ASSUME ~tainted' PROVE Untainted'
  <2>1. Untainted
    BY <1>1, <1>6 DEF OsxInv
  <2>2. Whole' = Whole /\ Copying = {} /\ Copying' = {}
    BY <1>1 DEF Whole, Copying
  <2>3. \A b : IsUnderWay(b) => IsUnderWay(b)'
    <3>1. \A b : OnStack(b)' <=> OnStack(b)
      BY <1>1, <1>2 DEF OnStack
    <3> QED
      BY <1>1, <2>2, <3>1 DEF IsUnderWay, Settled, Needs
  <2>4. ASSUME NEW i \in DOMAIN stack, i # n PROVE CallSoFar(i)'
    BY <1>1, <1>2, <2>1, <2>2, <2>4, CallStays DEF Untainted
  <2>5. ASSUME NEW i \in DOMAIN stack, i = n PROVE CallSoFar(i)'
    <3>0. PICK b \in Binaries : b = Top.binary
      BY <1>3
    <3>1. CallSoFar(n) /\ fixed[b] \subseteq Whole
      BY <1>3, <2>1, <2>2 DEF Untainted
    <3>2. /\ b \in {Exe} \cup Whole
          /\ \A j \in DOMAIN Top.todo : Top.todo[j].done => Top.todo[j].lib \in fixed[b]
          /\ \A l \in Needs(b) : l \in Whole \cap fixed[b] \/ \E j \in DOMAIN Top.todo : Top.todo[j].lib = l
      BY <1>1, <3>0, <3>1 DEF CallSoFar, Top
    <3>3. Ref.lib \in Needs(b) => Ref.lib \in Whole \cap fixed[b]
      BY <1>1, <1>3, <3>0, <3>1, <3>2 DEF LeftAlone, NamesItself, Needs
    <3>4. \A l \in Needs(b) : l \in Whole \cap fixed[b]
                                \/ \E j \in DOMAIN Tail(Top.todo) : Tail(Top.todo)[j].lib = l
      <4> SUFFICES ASSUME NEW l \in Needs(b), l \notin Whole \cap fixed[b]
                   PROVE  \E j \in DOMAIN Tail(Top.todo) : Tail(Top.todo)[j].lib = l
        OBVIOUS
      <4>1. PICK j \in DOMAIN Top.todo : Top.todo[j].lib = l
        BY <3>2
      <4>2. j # 1
        BY <1>3, <3>3, <4>1
      <4> QED
        BY <1>3, <4>1, <4>2
    <3>5. \A j \in DOMAIN Tail(Top.todo) :
            Tail(Top.todo)[j].done => Tail(Top.todo)[j].lib \in fixed[b]
      BY <1>3, <3>2
    <3>6. stack'[i].binary = b /\ stack'[i].todo = Tail(Top.todo)
      BY <1>1, <1>2, <1>3, <2>5, <3>0 DEF Top
    <3> QED
      BY <1>1, <2>2, <3>2, <3>4, <3>5, <3>6 DEF CallSoFar
  <2> QED
    BY <1>1, <1>2, <2>1, <2>2, <2>3, <2>4, <2>5 DEF Untainted
<1> QED
  BY <1>4, <1>5, <1>6 DEF OsxInv

\* When False travels up nothing is under way any more.
LEMMA GiveUpKeepsInv ==
  ASSUME OsxTypeOK, GiveUp, file' \in [Libs -> {"absent", "torn", "whole"}],
         fixed' \in [Binaries -> SUBSET Libs]
  PROVE  OsxInv'
<1>1. <<>> \in Seq([binary : Binaries, todo : Seq(Refs)])
  OBVIOUS
<1>2. OsxTypeOK'
  BY <1>1 DEF GiveUp, OsxTypeOK
<1> QED
  BY <1>2 DEF GiveUp, OsxInv, Bookkeeping

\* The reference is changed; the library it is to is the next to be looked for.
LEMMA ChangeKeepsInv ==
  ASSUME OsxInv, ChangeReference
  PROVE  OsxInv'
<1>1. /\ OsxTypeOK /\ Bookkeeping /\ stack # <<>> /\ Top.todo # <<>> /\ step = "loop"
      /\ phase \in {"main", "walk"}
      /\ Len(stack) \in DOMAIN stack /\ Top.binary \in Binaries /\ Ref.lib \in Libs
  BY InnermostCall DEF OsxInv, ChangeReference, Active, Refs
<1>2. CASE GiveUp /\ UNCHANGED file /\ fixed' \in {fixed, [fixed EXCEPT ![Top.binary] = @ \cup {Ref.lib}]}
  <2>1. fixed' \in [Binaries -> SUBSET Libs] /\ file' \in [Libs -> {"absent", "torn", "whole"}]
    BY <1>1, <1>2 DEF OsxTypeOK
  <2> QED
    BY <1>1, <1>2, <2>1, GiveUpKeepsInv
<1>3. CASE /\ fixed' = [fixed EXCEPT ![Top.binary] = @ \cup {Ref.lib}] /\ step' = "copy"
           /\ UNCHANGED <<file, stack, walk, phase, history>>
  <2>0. PICK b \in Binaries, l \in Libs : b = Top.binary /\ l = Ref.lib
    BY <1>1
  <2>1. fixed' = [fixed EXCEPT ![b] = @ \cup {l}] /\ fixed \in [Binaries -> SUBSET Libs]
    BY <1>1, <1>3, <2>0 DEF OsxTypeOK
  <2>2. fixed' \in [Binaries -> SUBSET Libs] /\ l \in fixed'[b] /\ \A c \in Binaries : fixed[c] \subseteq fixed'[c]
    BY <2>1
  <2>3. OsxTypeOK'
    BY <1>1, <1>3, <2>2 DEF OsxTypeOK, history
  <2>4. Top' = Top /\ Ref' = Ref
    BY <1>3 DEF Top, Ref
  <2>5. Bookkeeping'
    BY <1>1, <1>3, <2>0, <2>2, <2>4 DEF Bookkeeping
  <2>6. ASSUME ~tainted' PROVE Untainted'
    <3>1. Untainted
      BY <1>3, <2>6 DEF OsxInv, history
    <3>2. Whole' = Whole /\ Copying = {} /\ Copying' = {l}
      BY <1>1, <1>3, <2>0, <2>4 DEF Whole, Copying
    <3>3. ASSUME NEW c \in Binaries, IsUnderWay(c) PROVE IsUnderWay(c)'
      <4>1. OnStack(c)' <=> OnStack(c)
        BY <1>3 DEF OnStack
      <4>2. Settled(c) => Settled(c)'
        BY <2>2, <3>2 DEF Settled, Needs
      <4> QED
        BY <3>2, <3>3, <4>1, <4>2 DEF IsUnderWay
    <3>4. \A i \in DOMAIN stack : CallSoFar(i)'
      <4>1. \A i \in DOMAIN stack : stack[i].binary \in Binaries
        BY <1>1, CallTypes
      <4>2. ASSUME NEW i \in DOMAIN stack PROVE CallSoFar(i)'
        <5>1. stack'[i] = stack[i] /\ CallSoFar(i) /\ Whole \subseteq Whole' /\ step # "otool"
          BY <1>1, <1>3, <3>1, <3>2 DEF Untainted
        <5>2. fixed[stack[i].binary] \subseteq fixed'[stack[i].binary]
          BY <2>2, <4>1
        <5> QED
          BY <5>1, <5>2, CallStays
      <4> QED
        BY <1>3, <4>2
    <3>5. ASSUME NEW c \in Binaries PROVE /\ fixed'[c] \subseteq Whole' \cup Copying'
                                          /\ \A x \in fixed'[c] : IsUnderWay(x)'
      <4>1. fixed'[c] \subseteq fixed[c] \cup {l} /\ fixed[c] \subseteq Libs
        BY <2>1
      <4>2. IsUnderWay(l)'
        BY <3>2 DEF IsUnderWay
      <4>3. \A x \in fixed[c] : IsUnderWay(x)'
        BY <3>1, <3>3, <4>1 DEF Untainted, Binaries
      <4>4. fixed[c] \subseteq Whole
        BY <3>1, <3>2 DEF Untainted
      <4> QED
        BY <3>2, <4>1, <4>2, <4>3, <4>4
    <3>6. \A x \in {Exe} \cup Libs : IsUnderWay(x) => IsUnderWay(x)'
      BY <3>3 DEF Binaries
    <3>7. Whole \subseteq Libs
      BY DEF Whole
    <3> QED
      BY <1>1, <1>3, <3>1, <3>2, <3>4, <3>5, <3>6, <3>7 DEF Untainted
  <2> QED
    BY <2>3, <2>5, <2>6 DEF OsxInv
<1> QED
  BY <1>2, <1>3 DEF ChangeReference

\* The library is in the bundle, and a call for it has begun.
LEMMA CopyKeepsInv ==
  ASSUME OsxInv, CopyDependency
  PROVE  OsxInv'
<1>1. /\ OsxTypeOK /\ Bookkeeping /\ stack # <<>> /\ Top.todo # <<>> /\ step = "copy"
      /\ phase \in {"main", "walk"} /\ Ref.lib \in fixed[Top.binary]
  BY DEF OsxInv, Bookkeeping, CopyDependency, Active
<1>2. /\ Advanced \in Seq(Frames) /\ Len(Advanced) = Len(stack) /\ DOMAIN Advanced = DOMAIN stack
      /\ \A i \in DOMAIN stack : Advanced[i].binary = stack[i].binary
      /\ Advanced[Len(stack)].todo = Tail(Top.todo)
      /\ \A i \in DOMAIN stack \ {Len(stack)} : Advanced[i] = stack[i]
  BY <1>1, AdvancedCalls
<1>3. /\ Len(stack) \in DOMAIN stack /\ Top.binary \in Binaries /\ Ref = Top.todo[1] /\ Ref.lib \in Libs
      /\ \A j \in DOMAIN Top.todo \ {1} :
           j - 1 \in DOMAIN Tail(Top.todo) /\ Tail(Top.todo)[j - 1] = Top.todo[j]
      /\ \A j \in DOMAIN Tail(Top.todo) :
           j + 1 \in DOMAIN Top.todo /\ Tail(Top.todo)[j] = Top.todo[j + 1]
  BY <1>1, InnermostCall DEF Refs
<1>4. PICK b \in Binaries, l \in Libs : b = Top.binary /\ l = Ref.lib
  BY <1>3
<1>5. file \in [Libs -> {"absent", "torn", "whole"}] /\ fixed \in [Binaries -> SUBSET Libs]
  BY <1>1 DEF OsxTypeOK
<1>6. CASE file[l] = "absent" /\ GiveUp /\ UNCHANGED fixed
           /\ \E f \in {"absent", "torn", "whole"} : file' = [file EXCEPT ![l] = f]
  <2>1. file' \in [Libs -> {"absent", "torn", "whole"}]
    BY <1>5, <1>6
  <2> QED
    BY <1>1, <1>5, <1>6, <2>1, GiveUpKeepsInv
<1>7. CASE /\ stack' = Append(Advanced, Call(l)) /\ step' = "otool"
           /\ walk' \in {walk, walk \cup {l}}
           /\ UNCHANGED <<phase, history>>
           /\ \/ file[l] # "absent" /\ UNCHANGED bundle
              \/ /\ file[l] = "absent"
                 /\ file' = [file EXCEPT ![l] = "whole"]
                 /\ fixed' = [fixed EXCEPT ![l] = {}]
  <2>1. /\ stack' \in Seq(Frames) /\ stack' # <<>> /\ stack'[Len(stack')] = Call(l)
        /\ Len(stack') \in DOMAIN stack'
        /\ \A i \in DOMAIN stack : stack'[i] = Advanced[i] /\ i \in DOMAIN stack' /\ i # Len(stack')
        /\ \A i \in DOMAIN stack' : i # Len(stack') => i \in DOMAIN stack
    BY <1>2, <1>4, <1>7, NestedCall DEF Binaries
  <2>2. /\ file' \in [Libs -> {"absent", "torn", "whole"}] /\ fixed' \in [Binaries -> SUBSET Libs]
        /\ \A c \in Binaries : fixed'[c] \subseteq fixed[c]
        /\ \A c \in Binaries \ {l} : fixed'[c] = fixed[c]
        /\ file[l] # "absent" => fixed' = fixed /\ file' = file
        /\ file[l] = "absent" => file'[l] = "whole"
        /\ \A k \in Libs \ {l} : file'[k] = file[k]
    BY <1>5, <1>7 DEF bundle
  <2>3. OsxTypeOK'
    BY <1>1, <1>7, <2>1, <2>2 DEF OsxTypeOK, Frames, history
  <2>4. Bookkeeping'
    BY <1>1, <1>7 DEF Bookkeeping
  <2>5. ASSUME ~tainted' PROVE Untainted'
    <3>1. Untainted
      BY <1>7, <2>5 DEF OsxInv, history
    <3>2. Whole' = Whole \cup {l} /\ Copying = {l} /\ Copying' = {}
      <4>1. \A k \in Libs : file[k] # "torn"
        BY <3>1 DEF Untainted
      <4>2. file'[l] = "whole"
        BY <1>5, <2>2, <4>1
      <4>3. \A k \in Libs : file'[k] = "whole" <=> (file[k] = "whole" \/ k = l)
        BY <2>2, <4>2
      <4> QED
        BY <1>1, <1>4, <1>7, <4>3 DEF Whole, Copying
    <3>3. \A c \in {Exe} \cup Whole : c \in Binaries /\ fixed'[c] = fixed[c]
      <4>1. l # Exe
        BY LibsAssumption
      <4>2. ASSUME NEW c \in Whole PROVE c \in Libs /\ fixed'[c] = fixed[c]
        BY <2>2, <4>2 DEF Whole, Binaries
      <4> QED
        BY <2>2, <4>1, <4>2 DEF Binaries
    <3>4. ASSUME NEW c \in Binaries, IsUnderWay(c) PROVE IsUnderWay(c)'
      <4>1. OnStack(l)'
        BY <2>1 DEF OnStack, Call
      <4>2. OnStack(c) => OnStack(c)'
        BY <1>2, <2>1 DEF OnStack
      <4>3. c # l /\ Settled(c) => Settled(c)'
        BY <2>2, <3>2 DEF Settled, Needs
      <4> QED
        BY <3>2, <3>4, <4>1, <4>2, <4>3 DEF IsUnderWay
    <3>5. ASSUME NEW i \in DOMAIN stack' PROVE CallSoFar(i)'
      <4>1. CASE i = Len(stack')
        BY <1>7, <2>1, <3>2, <4>1 DEF CallSoFar, Call
      <4>2. CASE i # Len(stack') /\ i # Len(stack)
        <5>1. i \in DOMAIN stack /\ stack'[i] = stack[i]
          BY <1>2, <2>1, <4>2
        <5>2. CallSoFar(i)
          BY <3>1, <5>1 DEF Untainted
        <5>3. stack[i].binary \in {Exe} \cup Whole
          BY <5>2 DEF CallSoFar
        <5> QED
          BY <1>1, <3>2, <3>3, <5>1, <5>2, <5>3, CallStays
      <4>3. CASE i # Len(stack') /\ i = Len(stack)
        <5>1. CallSoFar(i)
          BY <1>3, <3>1, <4>3 DEF Untainted
        <5>2. /\ b \in {Exe} \cup Whole
              /\ \A j \in DOMAIN Top.todo : Top.todo[j].done => Top.todo[j].lib \in fixed[b]
              /\ \A x \in Needs(b) : x \in Whole \cap fixed[b]
                                       \/ \E j \in DOMAIN Top.todo : Top.todo[j].lib = x
          BY <1>1, <1>4, <4>3, <5>1 DEF CallSoFar, Top
        <5>3. fixed'[b] = fixed[b] /\ l \in fixed'[b] /\ l \in Whole'
          BY <1>1, <1>4, <3>2, <3>3, <5>2
        <5>4. ASSUME NEW x \in Needs(b), x \notin Whole' \cap fixed'[b]
              PROVE  \E j \in DOMAIN Tail(Top.todo) : Tail(Top.todo)[j].lib = x
          <6>1. PICK j \in DOMAIN Top.todo : Top.todo[j].lib = x
            BY <3>2, <5>2, <5>3, <5>4
          <6>2. j # 1
            BY <1>3, <1>4, <5>3, <5>4, <6>1
          <6> QED
            BY <1>3, <6>1, <6>2
        <5>5. \A j \in DOMAIN Tail(Top.todo) : Tail(Top.todo)[j].done => Tail(Top.todo)[j].lib \in fixed'[b]
          BY <1>3, <5>2, <5>3
        <5>6. stack'[i].binary = b /\ stack'[i].todo = Tail(Top.todo)
          BY <1>2, <1>3, <1>4, <2>1, <4>3 DEF Top
        <5> QED
          BY <3>2, <5>2, <5>4, <5>5, <5>6 DEF CallSoFar
      <4> QED
        BY <4>1, <4>2, <4>3
    <3>6. \A c \in Binaries : fixed'[c] \subseteq Whole'
      BY <2>2, <3>1, <3>2 DEF Untainted
    <3>7. \A c \in Binaries : \A x \in fixed'[c] : IsUnderWay(x)'
      <4>1. ASSUME NEW c \in Binaries, NEW x \in fixed'[c] PROVE IsUnderWay(x)'
        <5>1. x \in fixed[c] /\ x \in Binaries
          BY <1>5, <2>2, <4>1 DEF Binaries
        <5> QED
          BY <3>1, <3>4, <5>1 DEF Untainted
      <4> QED
        BY <4>1
    <3>8. \A x \in {Exe} \cup Libs : IsUnderWay(x) => IsUnderWay(x)'
      BY <3>4 DEF Binaries
    <3>9. IsUnderWay(l)' /\ \A k \in Libs : file'[k] # "torn"
      <4>1. IsUnderWay(l)
        BY <3>2 DEF IsUnderWay
      <4>2. file'[l] # "torn"
        BY <2>2, <3>1 DEF Untainted
      <4> QED
        BY <2>2, <3>1, <3>8, <4>1, <4>2 DEF Untainted
    <3>10. Whole \subseteq Libs
      BY DEF Whole
    <3> QED
      BY <1>1, <1>7, <3>1, <3>2, <3>5, <3>6, <3>7, <3>8, <3>9, <3>10 DEF Untainted
  <2> QED
    BY <2>3, <2>4, <2>5 DEF OsxInv
<1> QED
  BY <1>4, <1>6, <1>7 DEF CopyDependency, Walks

\* A call that returns has fixed its binary.
LEMMA ReturnKeepsInv ==
  ASSUME OsxInv, Return
  PROVE  OsxInv'
<1> DEFINE n == Len(stack)
<1>1. /\ OsxTypeOK /\ Bookkeeping /\ stack # <<>> /\ Top.todo = <<>> /\ step = "loop"
      /\ stack' = Below /\ phase \in {"main", "walk"}
      /\ UNCHANGED <<file, fixed, step, walk, phase, failed, tainted, runs>>
  BY DEF OsxInv, Return, Active, bundle, history
<1>2. /\ n \in DOMAIN stack /\ Below \in Seq(Frames) /\ DOMAIN Below = DOMAIN stack \ {n}
      /\ \A i \in DOMAIN Below : Below[i] = stack[i]
  BY <1>1, InnermostCall
<1>3. OsxTypeOK'
  BY <1>1, <1>2 DEF OsxTypeOK, Frames
<1>4. Bookkeeping'
  BY <1>1 DEF Bookkeeping
<1>5. ASSUME ~tainted' PROVE Untainted'
  <2>1. Untainted
    BY <1>1, <1>5 DEF OsxInv
  <2>2. Whole' = Whole /\ Copying = {} /\ Copying' = {}
    BY <1>1 DEF Whole, Copying
  <2>3. Settled(Top.binary)
    BY <1>1, <1>2, <2>1 DEF Untainted, CallSoFar, Settled, Top
  <2>4. ASSUME NEW b, IsUnderWay(b) PROVE IsUnderWay(b)'
    <3>1. Settled(b) => Settled(b)'
      BY <1>1, <2>2 DEF Settled, Needs
    <3>2. OnStack(b) => OnStack(b)' \/ Settled(b)
      BY <1>1, <1>2, <2>3 DEF OnStack, Top
    <3> QED
      BY <2>2, <2>4, <3>1, <3>2 DEF IsUnderWay
  <2>5. ASSUME NEW i \in DOMAIN stack' PROVE CallSoFar(i)'
    <3>1. i \in DOMAIN stack /\ stack'[i] = stack[i]
      BY <1>1, <1>2
    <3> QED
      BY <1>1, <2>1, <2>2, <3>1, CallStays DEF Untainted
  <2> QED
    BY <1>1, <2>1, <2>2, <2>4, <2>5 DEF Untainted
<1> QED
  BY <1>3, <1>4, <1>5 DEF OsxInv

\* The walk begins with all libraries of the bundle, and ends with none.
LEMMA WalkKeepsInv ==
  ASSUME OsxInv, StartWalk \/ Finish
  PROVE  OsxInv'
<1>1. /\ OsxTypeOK /\ Bookkeeping /\ stack = <<>> /\ stack' = stack /\ step' = step
      /\ phase' \in {"walk", "exit0"} /\ walk' \subseteq Libs
      /\ UNCHANGED <<file, fixed, failed, tainted, runs>>
  BY DEF OsxInv, OsxTypeOK, StartWalk, Finish, bundle, history
<1>2. OsxTypeOK'
  BY <1>1 DEF OsxTypeOK
<1>3. Bookkeeping'
  BY <1>1 DEF Bookkeeping
<1>4. ASSUME ~tainted' PROVE Untainted'
  <2>1. Untainted
    BY <1>1, <1>4 DEF OsxInv
  <2>2. Whole' = Whole /\ Copying = {} /\ Copying' = {}
    BY <1>1 DEF Whole, Copying, Bookkeeping
  <2>3. \A b : IsUnderWay(b)' <=> IsUnderWay(b)
    BY <1>1, <2>2 DEF IsUnderWay, Settled, Needs, OnStack
  <2>4. walk' \subseteq Whole /\ \A l \in Whole \ Frameworks : l \in walk' \/ IsUnderWay(l)
    <3>1. CASE StartWalk
      <4>1. walk' = {l \in Libs \ Frameworks : file[l] # "absent"}
        BY <3>1 DEF StartWalk
      <4>2. \A l \in Libs : file[l] # "absent" <=> file[l] = "whole"
        BY <1>1, <2>1 DEF OsxTypeOK, Untainted
      <4> QED
        BY <4>1, <4>2 DEF Whole
    <3>2. CASE Finish
      BY <2>1, <3>2 DEF Finish, Untainted
    <3> QED
      BY <3>1, <3>2
  <2>5. phase' = "exit0" => walk' = {}
    BY DEF StartWalk, Finish
  <2>6. DOMAIN stack' = {}
    BY <1>1
  <2> QED
    BY <1>1, <2>1, <2>2, <2>3, <2>4, <2>5, <2>6 DEF Untainted
<1> QED
  BY <1>2, <1>3, <1>4 DEF OsxInv

\* The stack of a single call.
LEMMA OneCall ==
  ASSUME NEW b \in Binaries, stack' = <<Call(b)>>
  PROVE  /\ stack' \in Seq(Frames) /\ stack' # <<>> /\ Len(stack') = 1
         /\ DOMAIN stack' = {1} /\ stack'[1] = Call(b) /\ OnStack(b)'
<1>1. Call(b) \in Frames /\ Call(b).binary = b
  BY DEF Call, Frames
<1>2. /\ stack' \in Seq(Frames) /\ stack' # <<>> /\ Len(stack') = 1
      /\ DOMAIN stack' = {1} /\ stack'[1] = Call(b)
  BY <1>1
<1> QED
  BY <1>1, <1>2 DEF OnStack

\* A library that the walk has come to is being fixed.
LEMMA WalkNextKeepsInv ==
  ASSUME OsxInv, WalkNext
  PROVE  OsxInv'
<1>1. /\ OsxTypeOK /\ Bookkeeping /\ stack = <<>> /\ phase = "walk" /\ step' = "otool"
      /\ UNCHANGED <<file, fixed, phase, failed, tainted, runs>>
  BY DEF OsxInv, WalkNext, bundle, history
<1>2. PICK l \in walk : walk' = walk \ {l} /\ stack' = <<Call(l)>>
  BY DEF WalkNext
<1>3. l \in Libs /\ l \in Binaries
  BY <1>1 DEF OsxTypeOK, Binaries
<1>4. /\ stack' \in Seq(Frames) /\ stack' # <<>> /\ Len(stack') = 1
      /\ DOMAIN stack' = {1} /\ stack'[1] = Call(l) /\ OnStack(l)'
  BY <1>2, <1>3, OneCall
<1>5. OsxTypeOK'
  BY <1>1, <1>2, <1>4 DEF OsxTypeOK, Frames
<1>6. Bookkeeping'
  BY <1>1 DEF Bookkeeping
<1>7. ASSUME ~tainted' PROVE Untainted'
  <2>1. Untainted
    BY <1>1, <1>7 DEF OsxInv
  <2>2. Whole' = Whole /\ Copying = {} /\ Copying' = {}
    BY <1>1 DEF Whole, Copying, Bookkeeping
  <2>3. \A b : IsUnderWay(b) => IsUnderWay(b)'
    BY <1>1, <2>2 DEF IsUnderWay, Settled, Needs, OnStack
  <2>4. IsUnderWay(l)'
    BY <1>4 DEF IsUnderWay
  <2>5. l \in Whole
    BY <1>2, <2>1 DEF Untainted
  <2>6. \A i \in DOMAIN stack' : CallSoFar(i)'
    BY <1>1, <1>4, <2>2, <2>5 DEF CallSoFar, Call
  <2> QED
    BY <1>1, <1>2, <2>1, <2>2, <2>3, <2>4, <2>6 DEF Untainted
<1> QED
  BY <1>5, <1>6, <1>7 DEF OsxInv

\* An interruption taints what follows.
LEMMA InterruptKeepsInv ==
  ASSUME OsxInv, Interrupt
  PROVE  OsxInv'
<1>1. OsxTypeOK /\ tainted' = TRUE /\ stack' = <<>> /\ step' = "loop" /\ phase' = "killed"
      /\ UNCHANGED <<fixed, walk, failed, runs>>
  BY DEF OsxInv, Interrupt
<1>2. file' \in [Libs -> {"absent", "torn", "whole"}]
  BY <1>1 DEF Interrupt, OsxTypeOK
<1>3. <<>> \in Seq([binary : Binaries, todo : Seq(Refs)])
  OBVIOUS
<1>4. OsxTypeOK'
  BY <1>1, <1>2, <1>3 DEF OsxTypeOK
<1> QED
  BY <1>1, <1>4 DEF OsxInv, Bookkeeping

\* The next run begins with the executable, whether or not it was linked again.
LEMMA RunAgainKeepsInv ==
  ASSUME OsxInv, RunAgain
  PROVE  OsxInv'
<1>1. /\ OsxTypeOK /\ Bookkeeping /\ step' = "otool" /\ phase' = "main" /\ walk' = {}
      /\ phase \in {"exit0", "exit1", "killed"}
      /\ runs <= MaxRuns /\ runs' = runs + 1 /\ failed' = FALSE
      /\ stack' = <<Call(Exe)>> /\ fixed' \in {fixed, [fixed EXCEPT ![Exe] = {}]}
      /\ UNCHANGED <<file, tainted>>
  BY DEF OsxInv, RunAgain
<1>2. Exe \in Binaries /\ Exe \notin Libs
  BY LibsAssumption DEF Binaries
<1>3. /\ stack' \in Seq(Frames) /\ stack' # <<>> /\ Len(stack') = 1
      /\ DOMAIN stack' = {1} /\ stack'[1] = Call(Exe) /\ OnStack(Exe)'
  BY <1>1, <1>2, OneCall
<1>4. /\ fixed' \in [Binaries -> SUBSET Libs] /\ \A b \in Binaries : fixed'[b] \subseteq fixed[b]
      /\ \A l \in Libs : fixed'[l] = fixed[l]
  BY <1>1, <1>2 DEF OsxTypeOK, Binaries
<1>5. OsxTypeOK'
  <2>1. runs' \in 1..(MaxRuns + 1)
    BY <1>1, MaxRunsAssumption DEF OsxTypeOK
  <2> QED
    BY <1>1, <1>3, <1>4, <2>1 DEF OsxTypeOK, Frames
<1>6. Bookkeeping'
  BY <1>1 DEF Bookkeeping
<1>7. ASSUME ~tainted' PROVE Untainted'
  <2>1. Untainted
    BY <1>1, <1>7 DEF OsxInv
  <2>2. stack = <<>> /\ Whole' = Whole /\ Copying = {} /\ Copying' = {}
    BY <1>1 DEF Whole, Copying, Bookkeeping
  <2>3. ASSUME NEW l \in Libs, IsUnderWay(l) PROVE IsUnderWay(l)'
    <3>1. ~OnStack(l)
      BY <2>2 DEF OnStack
    <3> QED
      BY <1>4, <2>2, <2>3, <3>1 DEF IsUnderWay, Settled, Needs
  <2>4. IsUnderWay(Exe)'
    BY <1>3 DEF IsUnderWay
  <2>5. \A i \in DOMAIN stack' : CallSoFar(i)'
    BY <1>1, <1>3 DEF CallSoFar, Call
  <2>6. ASSUME NEW b \in Binaries PROVE /\ fixed'[b] \subseteq Whole'
                                        /\ \A l \in fixed'[b] : IsUnderWay(l)'
    <3>1. fixed'[b] \subseteq fixed[b] /\ fixed[b] \subseteq Whole /\ fixed[b] \subseteq Libs
      BY <1>1, <1>4, <2>1, <2>2 DEF Untainted, OsxTypeOK
    <3> QED
      BY <2>1, <2>2, <2>3, <3>1 DEF Untainted
  <2> QED
    BY <1>1, <2>1, <2>2, <2>4, <2>5, <2>6 DEF Untainted
<1> QED
  BY <1>5, <1>6, <1>7 DEF OsxInv

\* OsxInv is inductive: one step for each action of the script.
LEMMA OsxNextKeepsInv == OsxInv /\ [OsxNext]_osxVars => OsxInv'
<1> SUFFICES ASSUME OsxInv, [OsxNext]_osxVars PROVE OsxInv'
  OBVIOUS
<1>1. CASE OsxNext
  BY <1>1, OtoolKeepsInv, SkipKeepsInv, ChangeKeepsInv, CopyKeepsInv, ReturnKeepsInv,
     WalkKeepsInv, WalkNextKeepsInv, InterruptKeepsInv, RunAgainKeepsInv
  DEF OsxNext, Work
<1>2. CASE UNCHANGED osxVars
  <2>1. UNCHANGED <<file, fixed, stack, step, walk, phase, failed, tainted, runs>>
    BY <1>2 DEF osxVars, bundle, control, history
  <2>2. Top' = Top /\ Ref' = Ref /\ Whole' = Whole
    BY <2>1 DEF Top, Ref, Whole
  <2>3. Copying' = Copying /\ \A i \in DOMAIN stack : CallSoFar(i) => CallSoFar(i)'
    BY <2>1, <2>2 DEF Copying, CallSoFar
  <2>4. \A b : IsUnderWay(b)' <=> IsUnderWay(b)
    BY <2>1, <2>2, <2>3 DEF IsUnderWay, Settled, Needs, OnStack
  <2>5. OsxTypeOK' /\ Bookkeeping'
    BY <2>1, <2>2 DEF OsxInv, OsxTypeOK, Bookkeeping
  <2>6. ~tainted' => Untainted'
    BY <2>1, <2>2, <2>3, <2>4 DEF OsxInv, Untainted
  <2> QED
    BY <2>5, <2>6 DEF OsxInv
<1> QED
  BY <1>1, <1>2

\* The types of the bundle and of the calls that work on it.
THEOREM OsxTypeIsInvariant == OsxSpec => []OsxTypeOK
<1>1. OsxInv => OsxTypeOK
  BY DEF OsxInv
<1> QED
  BY <1>1, OsxInitHasInv, OsxNextKeepsInv, PTL DEF OsxSpec

\* A run that reports success, after runs none of which failed or was
\* interrupted, leaves a bundle in which every member finds what it needs.
THEOREM SuccessMeansClosed == OsxSpec => []BundleIsClosed
<1>1. OsxInv => BundleIsClosed
  <2> SUFFICES ASSUME OsxInv, phase = "exit0", ~tainted, NEW b \in Members
               PROVE  Settled(b)
    BY DEF BundleIsClosed, Settled
  <2>1. Untainted /\ stack = <<>> /\ step # "copy" /\ walk = {}
    BY DEF OsxInv, Bookkeeping, Untainted
  <2>2. \A c : ~OnStack(c) /\ c \notin Copying
    BY <2>1 DEF OnStack, Copying
  <2>3. Deployed \subseteq Whole
    BY <2>1 DEF OsxInv, OsxTypeOK, Untainted, Deployed, Whole
  <2>4. IsUnderWay(b)
    BY <2>1, <2>3 DEF Members, Untainted
  <2> QED
    BY <2>2, <2>4 DEF IsUnderWay
<1> QED
  BY <1>1, OsxInitHasInv, OsxNextKeepsInv, PTL DEF OsxSpec
=============================================================================
