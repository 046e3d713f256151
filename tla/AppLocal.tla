------------------------------ MODULE AppLocal ------------------------------
(***************************************************************************)
(* scripts/buildsystems/msbuild/applocal.ps1: after a binary is linked,    *)
(* copy the DLLs it needs from the vcpkg tree next to it.  A deployer is   *)
(* one process running the script.  The projects of a solution often link  *)
(* into one output directory and are built in parallel, each against an    *)
(* installed tree of its own, so deployers share their target directory; a *)
(* named mutex is held while one file is compared and copied, but not      *)
(* while the dependencies of a file are read from the target directory.    *)
(***************************************************************************)
EXTENDS Naturals, Sequences

CONSTANTS
  Deployers,
  Root,      \* stands for the binary that a deployer starts from
  Files,     \* DLLs, by name
  Sources,   \* installed bin directories
  Local,     \* stands for where the files came from that were there before
  Free,      \* no deployer
  Provided,  \* Provided[s]: the DLLs in s
  Time,      \* Time[s, f]: the LastWriteTime of f in s
  Deps,      \* Deps[s, f]: what the f of s depends on, in dumpbin's order
  Now        \* the time of a file that is being written

Origins == Sources \cup {Local}

ASSUME NamesAssumption ==
  /\ Root \notin Files /\ Local \notin Sources /\ Free \notin Deployers
ASSUME TreesAssumption ==
  /\ Provided \in [Sources -> SUBSET Files]
  /\ Time \in [Origins \X Files -> Nat]
  /\ Deps \in [Origins \X (Files \cup {Root}) -> Seq(Files)]
  /\ Now \in Nat
  /\ \A s \in Sources, f \in Files : Time[Local, f] < Time[s, f] /\ Time[s, f] < Now

VARIABLES
  from,      \* from[d]: installedDir, of the tree that d's binary is linked to
  target,    \* target[f]: the file f in the target directory
  mutex,     \* who holds the mutex of the target directory
  abandoned, \* its last holder died and a waiting deployer kept it in being
  pc,        \* pc[d]: what d does next
  stack,     \* stack[d]: the calls of resolve that have not returned
  searched,  \* searched[d]: g_searched
  copiedLog, \* copiedLog[d]: copiedFilesLog (and tlogFile)
  copyFailed \* some Copy-Item reported an error

files == <<target, copyFailed>>
lock == <<mutex, abandoned>>
vars == <<from, files, lock, pc, stack, searched, copiedLog>>

NoFile == [origin |-> Local, time |-> 0, there |-> FALSE, whole |-> FALSE]
OfSource(s, f) == [origin |-> s, time |-> Time[s, f], there |-> TRUE, whole |-> TRUE]

Running == {"dump", "loop", "wait", "compare", "copy", "release"}

TypeOK ==
  /\ from \in [Deployers -> Sources]
  /\ target \in [Files -> [origin : Origins, time : Nat, there : BOOLEAN, whole : BOOLEAN]]
  /\ mutex \in Deployers \cup {Free} /\ abandoned \in BOOLEAN
  /\ pc \in [Deployers -> Running \cup {"done", "failed", "killed"}]
  /\ stack \in [Deployers -> Seq([binary : Files \cup {Root}, todo : Seq(Files)])]
  /\ searched \in [Deployers -> SUBSET Files]
  /\ copiedLog \in [Deployers -> SUBSET Files]
  /\ copyFailed \in BOOLEAN

Call(b) == [binary |-> b, todo |-> <<>>]

\* The directory may hold files of earlier builds, older than those of any tree.
Init ==
  /\ from \in [Deployers -> Sources]
  /\ \E old \in SUBSET Files :
       target = [f \in Files |-> IF f \in old THEN OfSource(Local, f) ELSE NoFile]
  /\ mutex = Free /\ abandoned = FALSE
  /\ pc = [d \in Deployers |-> "dump"]
  /\ stack = [d \in Deployers |-> <<Call(Root)>>]
  /\ searched = [d \in Deployers |-> {}]
  /\ copiedLog = [d \in Deployers |-> {}]
  /\ copyFailed = FALSE

-----------------------------------------------------------------------------
Goto(d, label) == pc' = [pc EXCEPT ![d] = label]
Top(d) == stack[d][Len(stack[d])]
Below(d) == SubSeq(stack[d], 1, Len(stack[d]) - 1)
File(d) == Head(Top(d).todo)

\* The loop of d is done with File(d).
Advanced(d) == Append(Below(d), [Top(d) EXCEPT !.todo = Tail(@)])
Resolve(d, b) == stack' = [stack EXCEPT ![d] = Append(Advanced(d), Call(b))]

\* What dumpbin prints: nothing for a file that is not there or is half written.
Dumped(d) ==
  LET b == Top(d).binary
  IN  IF b = Root THEN Deps[from[d], Root]
      ELSE IF target[b].whole THEN Deps[target[b].origin, b] ELSE <<>>

\* resolve starts: the list of dependencies is read once, without the mutex.
Dump(d) ==
  /\ pc[d] = "dump"
  /\ stack' = [stack EXCEPT ![d] = Append(Below(d), [Top(d) EXCEPT !.todo = Dumped(d)])]
  /\ Goto(d, "loop")
  /\ UNCHANGED <<from, files, lock, searched, copiedLog>>

\* A dependency that was met before, or is neither in the tree nor local.
Skip(d) ==
  /\ pc[d] = "loop" /\ Top(d).todo # <<>>
  /\ \/ File(d) \in searched[d]
     \/ File(d) \notin Provided[from[d]] /\ ~target[File(d)].there
  /\ searched' = [searched EXCEPT ![d] = @ \cup {File(d)}]
  /\ stack' = [stack EXCEPT ![d] = Advanced(d)]
  /\ UNCHANGED <<from, files, lock, pc, copiedLog>>

\* A dependency from the tree goes to deployBinary, a local one is resolved.
Search(d) ==
  /\ pc[d] = "loop" /\ Top(d).todo # <<>>
  /\ File(d) \notin searched[d]
  /\ searched' = [searched EXCEPT ![d] = @ \cup {File(d)}]
  /\ \/ /\ File(d) \in Provided[from[d]]
        /\ Goto(d, "wait")
        /\ UNCHANGED stack
     \/ /\ File(d) \notin Provided[from[d]] /\ target[File(d)].there
        /\ Resolve(d, File(d))
        /\ Goto(d, "dump")
  /\ UNCHANGED <<from, files, lock, copiedLog>>

\* resolve returns; the first call ends the script.
Return(d) ==
  /\ pc[d] = "loop" /\ Top(d).todo = <<>>
  /\ stack' = [stack EXCEPT ![d] = Below(d)]
  /\ IF Len(stack[d]) = 1 THEN Goto(d, "done") ELSE UNCHANGED pc
  /\ UNCHANGED <<from, files, lock, searched, copiedLog>>

\* Mutated form of Wait: the mutex is opened but not waited for.
WaitNot(d) ==
  /\ pc[d] = "wait"
  /\ Goto(d, "compare")
  /\ UNCHANGED <<from, files, lock, stack, searched, copiedLog>>

\* $mtx.WaitOne().  An abandoned mutex is acquired too, but with an exception,
\* which ends the script unless the host's error preference lets it go on.
Wait(d) ==
  /\ pc[d] = "wait"
  /\ mutex = Free
  /\ \/ mutex' = d /\ Goto(d, "compare")
     \/ abandoned /\ Goto(d, "failed") /\ UNCHANGED mutex
  /\ abandoned' = FALSE
  /\ UNCHANGED <<from, files, stack, searched, copiedLog>>

\* Mutated form of NeedsCopy: a file that is there is left alone.
NeedsCopyIfMissing(d) == ~target[File(d)].there

NeedsCopy(d) ==
  \/ ~target[File(d)].there
  \/ target[File(d)].time < Time[from[d], File(d)]

\* Test-Path and the comparison of the times; Copy-Item starts.  It reports an
\* error and leaves the file alone if another process has it open.
Compare(d) ==
  /\ pc[d] = "compare"
  /\ \/ ~NeedsCopy(d) /\ Goto(d, "release") /\ UNCHANGED files
     \/ /\ NeedsCopy(d)
        /\ target' = [target EXCEPT ![File(d)] =
             [origin |-> from[d], time |-> Now, there |-> TRUE, whole |-> FALSE]]
        /\ Goto(d, "copy")
        /\ UNCHANGED copyFailed
     \/ /\ NeedsCopy(d) /\ target[File(d)].there
        /\ copyFailed' = TRUE
        /\ Goto(d, "release")
        /\ UNCHANGED target
  /\ UNCHANGED <<from, lock, stack, searched, copiedLog>>

\* Copy-Item gives the complete file the time of its source.
Copy(d) ==
  /\ pc[d] = "copy"
  /\ target' = [target EXCEPT ![File(d)] = OfSource(from[d], File(d))]
  /\ Goto(d, "release")
  /\ UNCHANGED <<from, copyFailed, lock, stack, searched, copiedLog>>

\* Mutated form of Release: the log gets the tree, not the copy.
ReleaseLogsTree(d) ==
  /\ pc[d] = "release"
  /\ copiedLog' = [copiedLog EXCEPT ![d] = @ \cup {from[d]}]
  /\ mutex' = Free
  /\ Resolve(d, File(d))
  /\ Goto(d, "dump")
  /\ UNCHANGED <<from, files, abandoned, searched>>

\* Mutated form of Release: there is no finally, and an error keeps the mutex.
ReleaseUnlessFailed(d) ==
  /\ pc[d] = "release"
  /\ copiedLog' = [copiedLog EXCEPT ![d] = @ \cup {File(d)}]
  /\ mutex' = IF copyFailed THEN mutex ELSE Free
  /\ Resolve(d, File(d))
  /\ Goto(d, "dump")
  /\ UNCHANGED <<from, files, abandoned, searched>>

\* The logs get the file, copied or not, the mutex is released, and the file
\* in the target directory is resolved.
Release(d) ==
  /\ pc[d] = "release"
  /\ copiedLog' = [copiedLog EXCEPT ![d] = @ \cup {File(d)}]
  /\ mutex' = Free
  /\ Resolve(d, File(d))
  /\ Goto(d, "dump")
  /\ UNCHANGED <<from, files, abandoned, searched>>

\* The build is stopped.  The kernel frees the mutex, and remembers that it was
\* abandoned if another process has it open.
Kill(d) ==
  /\ pc[d] \in Running
  /\ Goto(d, "killed")
  /\ \/ /\ mutex = d
        /\ mutex' = Free
        /\ abandoned' = \E q \in Deployers : pc[q] = "wait"
     \/ mutex # d /\ UNCHANGED lock
  /\ UNCHANGED <<from, files, stack, searched, copiedLog>>

Step(d) ==
  \/ Dump(d) \/ Skip(d) \/ Search(d) \/ Return(d) \/ Wait(d) \/ Compare(d)
  \/ Copy(d) \/ Release(d)

Next == \E d \in Deployers : Step(d) \/ Kill(d)

\* A running script goes on; the kernel wakes a waiter when the mutex is free.
Spec == Init /\ [][Next]_vars /\ \A d \in Deployers : WF_vars(Step(d))

-----------------------------------------------------------------------------
\* g is in the directory, complete and no older than the g of tree s.
Deployed(s, g) == target[g].whole /\ Time[s, g] <= target[g].time

\* What the f of tree s needs from s is deployed.
Satisfied(s, f) ==
  \A i \in DOMAIN Deps[s, f] :
    Deps[s, f][i] \in Provided[s] => Deployed(s, Deps[s, f][i])

\* When all deployers are done, none was stopped and no copy failed, the
\* directory is closed: the linked binaries and every DLL that stands there in
\* the end find their dependencies, although a DLL may have been replaced by
\* another tree's, with other dependencies, while they were being resolved.
DirectoryIsClosed ==
  (\A d \in Deployers : pc[d] = "done") /\ ~copyFailed =>
    /\ \A d \in Deployers : Satisfied(from[d], Root)
    /\ \A f \in Files :
         target[f].there /\ target[f].origin \in Sources => Satisfied(target[f].origin, f)

\* The dependencies of a half-written DLL are read only where that does no
\* harm: another tree's deployer is replacing the DLL and will read it itself,
\* or was stopped while it did; or an earlier copy had failed.
HalfWrittenIsNotRead ==
  \A d \in Deployers :
    pc[d] = "dump" /\ Top(d).binary # Root /\ ~copyFailed =>
      LET b == Top(d).binary
      IN  \/ target[b].whole
          \/ \E q \in Deployers :
               /\ pc[q] = "killed" \/ (pc[q] = "copy" /\ from[q] # from[d])
               /\ Top(q).todo # <<>> /\ File(q) = b /\ from[q] = target[b].origin

\* A deployer that is not stopped ends, though another one died holding the
\* mutex, a copy failed, or the DLLs depend on each other in a circle.
EveryDeployEnds ==
  \A d \in Deployers : <>(pc[d] \in {"done", "failed", "killed"})
=============================================================================
