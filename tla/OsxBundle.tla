----------------------------- MODULE OsxBundle -----------------------------
(***************************************************************************)
(* scripts/buildsystems/osx/applocal.py: after a macOS application bundle  *)
(* is linked, copy the libraries it needs from the vcpkg tree into the     *)
(* bundle and make every reference to them relative to the executable.     *)
(*                                                                         *)
(* fix_binary and fix_dependency call each other recursively; their calls  *)
(* are an explicit stack here, because a nested call reads and writes the  *)
(* same bundle.  Tools (otool, install_name_tool, cp, chmod) may fail, and *)
(* the build may be interrupted and run again on what it left.             *)
(***************************************************************************)
EXTENDS Naturals, Sequences

CONSTANTS
  Exe,        \* the executable of the bundle
  Libs,       \* libraries, by file name
  Frameworks, \* those that are Qt frameworks
  Provided,   \* those that exist in the vcpkg tree
  Deps,       \* Deps[b]: the libraries b refers to, in otool's order
  Contains,   \* Contains[b]: the libraries whose reference contains b's name
  MaxRuns     \* bound on the runs of the script

Binaries == {Exe} \cup Libs

ASSUME LibsAssumption ==
  Exe \notin Libs /\ Frameworks \subseteq Libs /\ Provided \subseteq Libs
ASSUME DepsAssumption ==
  /\ Deps \in [Binaries -> Seq(Libs)]
  /\ Contains \in [Binaries -> SUBSET Libs]
  /\ \A l \in Libs : l \in Contains[l]
ASSUME MaxRunsAssumption == MaxRuns \in Nat

VARIABLES
  file,     \* file[l]: the copy of l in the bundle
  fixed,    \* fixed[b]: the libraries b in the bundle refers to by dep_rpath
  stack,    \* the calls of fix_binary that have not returned
  step,     \* what the innermost call does next
  walk,     \* the libraries os.walk has yet to reach
  phase,    \* "main" and "walk" of fix_main_binaries, or how the run ended
  failed,   \* this run: install_name_tool, mkdir, cp or chmod failed
  tainted,  \* some run: a tool failed or the run was interrupted
  runs      \* the runs so far

bundle == <<file, fixed>>
control == <<stack, step, walk, phase>>
history == <<failed, tainted, runs>>
osxVars == <<bundle, control, history>>

Refs == [lib : Libs, done : BOOLEAN]

OsxTypeOK ==
  /\ file \in [Libs -> {"absent", "torn", "whole"}]
  /\ fixed \in [Binaries -> SUBSET Libs]
  /\ stack \in Seq([binary : Binaries, todo : Seq(Refs)])
  /\ step \in {"otool", "loop", "copy"}
  /\ walk \subseteq Libs
  /\ phase \in {"main", "walk", "exit0", "exit1", "killed"}
  /\ failed \in BOOLEAN /\ tainted \in BOOLEAN /\ runs \in 1..(MaxRuns + 1)

Call(b) == [binary |-> b, todo |-> <<>>]

\* The linker and macdeployqt have made the bundle; nothing in it is fixed.
OsxInit ==
  /\ file \in [Libs -> {"absent", "whole"}]
  /\ fixed = [b \in Binaries |-> {}]
  /\ stack = <<Call(Exe)>>
  /\ step = "otool"
  /\ walk = {}
  /\ phase = "main"
  /\ failed = FALSE /\ tainted = FALSE /\ runs = 1

-----------------------------------------------------------------------------
Top == stack[Len(stack)]
Below == SubSeq(stack, 1, Len(stack) - 1)
Active == phase \in {"main", "walk"} /\ stack # <<>>
Ref == Head(Top.todo)

\* The reference fix_dependency is working on is dealt with.
Advanced == Append(Below, [Top EXCEPT !.todo = Tail(@)])

\* Mutated form of Listed: otool's lines as they are.
ListedRaw(b) == Deps[b]

\* get_dependencies: what otool lists; whether a reference is dep_rpath already
\* is part of it.
Listed(b) ==
  [i \in DOMAIN Deps[b] |-> [lib |-> Deps[b][i], done |-> Deps[b][i] \in fixed[b]]]

\* fix_binary starts: it reads the list once.  If otool fails there is none.
Otool ==
  /\ Active /\ step = "otool"
  /\ \/ /\ stack' = Append(Below, [Top EXCEPT !.todo = Listed(Top.binary)])
        /\ UNCHANGED tainted
     \/ UNCHANGED stack /\ tainted' = TRUE
  /\ step' = "loop"
  /\ UNCHANGED <<bundle, walk, phase, failed, runs>>

\* get_dependencies drops any reference that contains the name of the binary
\* itself from the list it returns.
NamesItself(b, r) == r.lib \in Contains[b]

\* A reference that is not to a file of the vcpkg tree is left alone.  So is a
\* fixed one: "../Frameworks/lib" does not exist there, unlike a framework.
LeftAlone(b, r) ==
  NamesItself(b, r) \/ r.lib \notin Provided \/ (r.done /\ r.lib \notin Frameworks)

SkipDependency ==
  /\ Active /\ step = "loop" /\ Top.todo # <<>>
  /\ LeftAlone(Top.binary, Ref)
  /\ stack' = Advanced
  /\ UNCHANGED <<bundle, step, walk, phase, history>>

\* A False returned through all the calls.  fix_main_binaries returns it only
\* for the plugins; for the executable it returns True.
GiveUp ==
  /\ stack' = <<>>
  /\ phase' = IF phase = "walk" THEN "exit1" ELSE "exit0"
  /\ step' = "loop"
  /\ failed' = TRUE /\ tainted' = TRUE
  /\ UNCHANGED <<walk, runs>>

\* install_name_tool -change and -id, unless the reference is dep_rpath
\* already; the second may fail where the first did not.
ChangeReference ==
  /\ Active /\ step = "loop" /\ Top.todo # <<>>
  /\ ~LeftAlone(Top.binary, Ref)
  /\ \/ /\ fixed' = [fixed EXCEPT ![Top.binary] = @ \cup {Ref.lib}]
        /\ step' = "copy"
        /\ UNCHANGED <<file, stack, walk, phase, history>>
     \/ /\ ~Ref.done
        /\ fixed' \in {fixed, [fixed EXCEPT ![Top.binary] = @ \cup {Ref.lib}]}
        /\ GiveUp
        /\ UNCHANGED file

\* os.walk lists a directory when it comes to it: it may yet find a library that
\* is copied while it walks.
Walks ==
  IF phase = "walk" /\ Ref.lib \notin Frameworks THEN {walk, walk \cup {Ref.lib}} ELSE {walk}

\* Mutated form of CopyDependency: a library that is copied is not fixed.
CopyOnly ==
  /\ Active /\ step = "copy"
  /\ \/ /\ file[Ref.lib] # "absent"
        /\ UNCHANGED bundle
        /\ stack' = Append(Advanced, Call(Ref.lib)) /\ step' = "otool"
        /\ UNCHANGED walk
     \/ /\ file[Ref.lib] = "absent"
        /\ file' = [file EXCEPT ![Ref.lib] = "whole"]
        /\ fixed' = [fixed EXCEPT ![Ref.lib] = {}]
        /\ stack' = Advanced /\ step' = "loop"
        /\ walk' \in Walks
  /\ UNCHANGED <<phase, history>>

\* Mutated form of CopyDependency: the caller does not go on to its next
\* reference.
CopyAgain ==
  /\ Active /\ step = "copy"
  /\ file' = [file EXCEPT ![Ref.lib] = "whole"]
  /\ stack' = Append(stack, Call(Ref.lib)) /\ step' = "otool"
  /\ UNCHANGED <<fixed, walk, phase, history>>

\* The dependency is in the bundle, or is copied there (mkdir, cp, chmod), and
\* fix_binary is called for it.  cp may stop half way.
CopyDependency ==
  /\ Active /\ step = "copy"
  /\ \/ /\ file[Ref.lib] # "absent"
        /\ UNCHANGED bundle
        /\ stack' = Append(Advanced, Call(Ref.lib)) /\ step' = "otool"
        /\ UNCHANGED <<walk, phase, history>>
     \/ /\ file[Ref.lib] = "absent"
        /\ file' = [file EXCEPT ![Ref.lib] = "whole"]
        /\ fixed' = [fixed EXCEPT ![Ref.lib] = {}]
        /\ stack' = Append(Advanced, Call(Ref.lib)) /\ step' = "otool"
        /\ walk' \in Walks
        /\ UNCHANGED <<phase, history>>
     \/ /\ file[Ref.lib] = "absent"
        /\ \E f \in {"absent", "torn", "whole"} : file' = [file EXCEPT ![Ref.lib] = f]
        /\ GiveUp /\ UNCHANGED fixed

\* fix_binary has gone through its list and returns True.
Return ==
  /\ Active /\ step = "loop" /\ Top.todo = <<>>
  /\ stack' = Below
  /\ UNCHANGED <<bundle, step, walk, phase, history>>

\* The executable is fixed; os.walk looks for .dylib files in the bundle.  It
\* finds those that are there, and perhaps some that are copied later.
StartWalk ==
  /\ phase = "main" /\ stack = <<>>
  /\ phase' = "walk"
  /\ walk' = {l \in Libs \ Frameworks : file[l] # "absent"}
  /\ UNCHANGED <<bundle, stack, step, history>>

WalkNext ==
  /\ phase = "walk" /\ stack = <<>>
  /\ \E l \in walk :
       /\ walk' = walk \ {l}
       /\ stack' = <<Call(l)>>
  /\ step' = "otool"
  /\ UNCHANGED <<bundle, phase, history>>

Finish ==
  /\ phase = "walk" /\ stack = <<>> /\ walk = {}
  /\ phase' = "exit0"
  /\ UNCHANGED <<bundle, stack, step, walk, history>>

\* The build is interrupted; a cp under way leaves what it has written.
Interrupt ==
  /\ phase \in {"main", "walk"}
  /\ phase' = "killed" /\ stack' = <<>> /\ step' = "loop" /\ tainted' = TRUE
  /\ IF Active /\ step = "copy"
     THEN \/ UNCHANGED file
          \/ file[Ref.lib] = "absent" /\ file' = [file EXCEPT ![Ref.lib] = "torn"]
     ELSE UNCHANGED file
  /\ UNCHANGED <<fixed, walk, failed, runs>>

\* The next build: the script runs again, on the executable as it is or as the
\* linker has made it anew.
RunAgain ==
  /\ phase \in {"exit0", "exit1", "killed"}
  /\ runs <= MaxRuns
  /\ runs' = runs + 1
  /\ fixed' \in {fixed, [fixed EXCEPT ![Exe] = {}]}
  /\ stack' = <<Call(Exe)>> /\ step' = "otool" /\ phase' = "main" /\ walk' = {}
  /\ failed' = FALSE
  /\ UNCHANGED <<file, tainted>>

Work ==
  \/ Otool \/ SkipDependency \/ ChangeReference \/ CopyDependency \/ Return
  \/ StartWalk \/ WalkNext \/ Finish

OsxNext == Work \/ Interrupt \/ RunAgain

\* The script keeps running unless it is interrupted; nobody has to run it again.
OsxSpec == OsxInit /\ [][OsxNext]_osxVars /\ WF_osxVars(Work)

-----------------------------------------------------------------------------
\* The libraries of the vcpkg tree that b needs and does not swallow by name.
Needs(b) == {Deps[b][i] : i \in DOMAIN Deps[b]} \cap (Provided \ Contains[b])

Deployed == {l \in Libs : file[l] # "absent"}

\* The binaries the script answers for: the executable, every .dylib of the
\* bundle, and whatever is referred to inside the bundle.
Members == {Exe} \cup (Deployed \ Frameworks) \cup UNION {fixed[b] : b \in Binaries}

Whole == {l \in Libs : file[l] = "whole"}

\* A run that reports success, with no tool failure or interruption in any run
\* so far, leaves a closed bundle: each member's dependencies are in the bundle,
\* whole, and it refers to them there, also along cycles, for libraries that
\* were copied on the way, and after the executable was linked again.
BundleIsClosed ==
  phase = "exit0" /\ ~tainted =>
    \A b \in Members : Needs(b) \subseteq Whole \cap fixed[b]

\* No frameworks need each other in a circle: each set of them has one that needs
\* none of the set.
NoFrameworkCircle ==
  \A S \in SUBSET (Frameworks \cap Provided) :
    S # {} => \E f \in S : Needs(f) \cap S = {}

\* A run ends unless it is interrupted: cyclic dependencies do not keep the
\* recursion going, also if there are frameworks on the cycle.  Only a cycle of
\* nothing but frameworks does, since a reference to a framework is not left
\* alone when it is fixed; such a run ends at Python's recursion limit.
EveryRunEnds ==
  NoFrameworkCircle => (phase = "main" ~> phase \in {"exit0", "exit1", "killed"})
=============================================================================
