----------------------------- MODULE Toolchain -----------------------------
(***************************************************************************)
(* scripts/buildsystems/vcpkg.cmake in manifest mode: CMake configures a   *)
(* build directory again and again.  The toolchain reads options from the  *)
(* cache of the build directory, bootstraps vcpkg if it has no executable, *)
(* and runs vcpkg install; fatal errors are collected and reported at the  *)
(* end of the toolchain.  The toolchain may return before that: it does    *)
(* not know the architecture, and the configure goes on without vcpkg.     *)
(* Between configures the user sets options, adds a manifest or deletes    *)
(* the build directory; a configure may be killed, and then saves no       *)
(* cache.  All build directories share one root.                           *)
(***************************************************************************)
EXTENDS Naturals, Sequences, Bootstrap

CONSTANTS
  Dirs,          \* build directories, each of a source directory of its own
  Options,       \* Options[d]: caches that -D options give d before its first configure
  MaxConfigures  \* MaxConfigures[d]: bound on the configures of d

ASSUME DirsAssumption == Dirs \subseteq Actors
ASSUME ConfiguresAssumption == MaxConfigures \in [Dirs -> Nat]

OnOff == {"ON", "OFF"}
Unset == "unset"    \* no such entry in the cache

VARIABLES
  manifest,    \* manifest[d]: the source directory has a vcpkg.json
  cache,       \* cache[d]: the cache of the build directory, as saved
  run,         \* run[d]: the cache in the running configure
  pc,          \* pc[d]: where the configure is
  hasError,    \* hasError[d]: Z_VCPKG_HAS_FATAL_ERROR
  message,     \* message[d]: Z_VCPKG_FATAL_ERROR
  raised,      \* history: raised[d]: all errors that were raised
  result,      \* result[d]: of the last configure, if it ended and nothing changed since
  first,       \* history: first[d]: mode of the first configure that ended
  followed,    \* history: the user did what the message says since
  configures   \* configures so far

toolVars ==
  <<manifest, cache, run, pc, hasError, message, raised, result, first, followed, configures>>
toolchainVars == <<bootVars, toolVars>>

Dir == {Unset, "", "source"}
Entries == [dir : Dir, mode : OnOff \cup {Unset}, check : OnOff \cup {Unset},
            install : OnOff \cup {Unset},
            triplet : BOOLEAN,   \* has VCPKG_TARGET_TRIPLET
            root : BOOLEAN]      \* has Z_VCPKG_ROOT_DIR
Empty == [dir |-> Unset, mode |-> Unset, check |-> Unset, install |-> Unset,
          triplet |-> FALSE, root |-> FALSE]

ASSUME OptionsAssumption ==
  \A d \in Dirs : /\ Options[d] \subseteq Entries
                  /\ \A c \in Options[d] : c.check = Unset /\ ~c.root

NoManifest == "couldn't find a manifest"
WasEnabled == "initially enabled"
WasDisabled == "initially disabled"
NoRoot == "could not find .vcpkg-root"
BootstrapFailed == "bootstrap failed"
InstallFailed == "vcpkg install failed"
Errors == {NoManifest, WasEnabled, WasDisabled, NoRoot, BootstrapFailed, InstallFailed}
Steps == {"idle", "exists", "bootstrap", "install", "report", "without"}
Results == {"none", "success", "failure", "without"}

TypeOK ==
  /\ BootTypeOK
  /\ manifest \in [Dirs -> BOOLEAN]
  /\ cache \in [Dirs -> Entries] /\ run \in [Dirs -> Entries]
  /\ \A d \in Dirs : pc[d] # "idle" =>
       run[d].dir # Unset /\ {run[d].mode, run[d].check} \subseteq OnOff
  /\ pc \in [Dirs -> Steps]
  /\ hasError \in [Dirs -> BOOLEAN]
  /\ message \in [Dirs -> Seq(Errors)] /\ raised \in [Dirs -> Seq(Errors)]
  /\ result \in [Dirs -> Results]
  /\ first \in [Dirs -> OnOff \cup {Unset}] /\ followed \in [Dirs -> BOOLEAN]
  /\ configures \in [Dirs -> Nat] /\ \A d \in Dirs : configures[d] <= MaxConfigures[d]

Init ==
  /\ BootInit
  /\ manifest \in [Dirs -> BOOLEAN]
  /\ cache \in [Dirs -> Entries] /\ \A d \in Dirs : cache[d] \in Options[d]
  /\ run = [d \in Dirs |-> Empty]
  /\ pc = [d \in Dirs |-> "idle"] /\ result = [d \in Dirs |-> "none"]
  /\ hasError = [d \in Dirs |-> FALSE] /\ followed = hasError
  /\ message = [d \in Dirs |-> <<>>] /\ raised = message
  /\ first = [d \in Dirs |-> Unset] /\ configures = [d \in Dirs |-> 0]

-----------------------------------------------------------------------------
\* Mutated form of Added: set without PARENT_SCOPE.
AddedLocally(state, error) == state

\* z_vcpkg_add_fatal_error: what is appended to the message is lost when the
\* function returns.
Added(state, error) ==
  IF state.has THEN state ELSE [has |-> TRUE, message |-> <<error>>]

\* The state after the errors of a step, which are three at most.
AddErrors(d, before, errors) ==
  LET one == IF Len(errors) >= 1 THEN Added(before, errors[1]) ELSE before
      two == IF Len(errors) >= 2 THEN Added(one, errors[2]) ELSE one
      now == IF Len(errors) >= 3 THEN Added(two, errors[3]) ELSE two
  IN /\ hasError' = [hasError EXCEPT ![d] = now.has]
     /\ message' = [message EXCEPT ![d] = now.message]

State(d) == [has |-> hasError[d], message |-> message[d]]

\* VCPKG_MANIFEST_DIR, the default of VCPKG_MANIFEST_MODE and of the check.
DirOf(c, hasManifest) ==
  IF c.dir # Unset THEN c.dir ELSE IF hasManifest THEN "source" ELSE ""
Or(option, default) == IF option # Unset THEN option ELSE default

\* Mutated form of CheckOf: the cache entry is set in manifest mode only.
CheckOfManifest(c, mode) == IF mode = "ON" THEN Or(c.check, mode) ELSE c.check

\* Mutated form of CheckOf: the cache entry is set in each configure.
CheckOfNow(c, mode) == mode

\* Z_VCPKG_CHECK_MANIFEST_MODE
CheckOf(c, mode) == Or(c.check, mode)

\* The cache after the options of the toolchain; the triplet and the root are
\* as they were.
WithOptions(c, hasManifest) ==
  LET dir == DirOf(c, hasManifest)
      mode == Or(c.mode, IF dir # "" THEN "ON" ELSE "OFF")
  IN [c EXCEPT !.dir = dir, !.mode = mode, !.check = CheckOf(c, mode),
               !.install = IF mode = "ON" THEN Or(c.install, "ON") ELSE c.install]

ModeErrors(c) ==
  LET missing == IF c.mode = "ON" /\ c.dir = "" THEN <<NoManifest>> ELSE <<>>
      changed == IF c.mode = c.check THEN <<>>
                 ELSE IF c.mode = "OFF" THEN <<WasEnabled>> ELSE <<WasDisabled>>
  IN missing \o changed

\* The cache and the errors when the toolchain goes on to the executable: the
\* triplet is cached, and the root if it is found.
Located(c, found) == [c EXCEPT !.triplet = TRUE, !.root = found]
LocatedErrors(c, found) == ModeErrors(c) \o (IF found THEN <<>> ELSE <<NoRoot>>)

\* What Configure does to the running configure d.
Start(d, c, errors, next) ==
  /\ run' = [run EXCEPT ![d] = c]
  /\ AddErrors(d, [has |-> FALSE, message |-> <<>>], errors)
  /\ raised' = [raised EXCEPT ![d] = errors]
  /\ pc' = [pc EXCEPT ![d] = next]
  /\ result' = [result EXCEPT ![d] = "none"]
  /\ configures' = [configures EXCEPT ![d] = @ + 1]
  /\ UNCHANGED <<bootVars, manifest, cache, first, followed>>

Ready(d) == pc[d] = "idle" /\ configures[d] < MaxConfigures[d]

\* A configure begins: options, triplet and root, and the errors they give.  A
\* root that is not cached is found or not.
Configure(d) ==
  /\ Ready(d)
  /\ LET c == WithOptions(cache[d], manifest[d]) IN
       \E found \in {TRUE, c.root} :
         Start(d, Located(c, found), LocatedErrors(c, found),
               IF c.mode = "ON" /\ c.install = "ON" /\ ~hasError'[d]
               THEN "exists" ELSE "report")

\* "Unable to determine target architecture, continuing without vcpkg": without
\* a triplet the toolchain may return, whatever errors it has collected.
ConfigureWithout(d) ==
  /\ Ready(d) /\ ~cache[d].triplet
  /\ LET c == WithOptions(cache[d], manifest[d]) IN Start(d, c, ModeErrors(c), "without")

Kept == UNCHANGED <<manifest, cache, run, result, first, followed, configures>>

\* The process of the configure is gone, and all it did not save.
Forget(d) ==
  /\ hasError' = [hasError EXCEPT ![d] = FALSE]
  /\ message' = [message EXCEPT ![d] = <<>>]
  /\ raised' = [raised EXCEPT ![d] = <<>>]

\* if(NOT EXISTS "${Z_VCPKG_EXECUTABLE}")
Exists(d) ==
  /\ pc[d] = "exists"
  /\ \/ exe # NoFile /\ pc' = [pc EXCEPT ![d] = "install"] /\ UNCHANGED bootVars
     \/ /\ exe = NoFile /\ pc' = [pc EXCEPT ![d] = "bootstrap"]
        /\ BootStart(d) \/ Refuse(d)
  /\ Kept /\ UNCHANGED <<hasError, message, raised>>

Raise(d, error) ==
  /\ AddErrors(d, State(d), <<error>>)
  /\ raised' = [raised EXCEPT ![d] = Append(@, error)]

\* The bootstrap script has returned.
Bootstrapped(d) ==
  /\ pc[d] = "bootstrap" /\ Goto(d, "idle")
  /\ \/ boot[d] = "done" /\ UNCHANGED <<hasError, message, raised>>
     \/ boot[d] = "failed" /\ Raise(d, BootstrapFailed)
  /\ pc' = [pc EXCEPT ![d] = IF hasError'[d] THEN "report" ELSE "install"]
  /\ Kept /\ UNCHANGED <<exe, part, overlapped>>

\* vcpkg install, which waits for the lock of the root.
Install(d) ==
  /\ pc[d] = "install" /\ pc' = [pc EXCEPT ![d] = "report"]
  /\ \/ Runs(exe) /\ UNCHANGED <<hasError, message, raised>>
     \/ Raise(d, InstallFailed)
  /\ Kept /\ UNCHANGED bootVars

\* CMake has configured, and saves the cache.
End(d, how) ==
  /\ pc' = [pc EXCEPT ![d] = "idle"]
  /\ result' = [result EXCEPT ![d] = how]
  /\ cache' = [cache EXCEPT ![d] = run[d]]
  /\ first' = [first EXCEPT ![d] = Or(@, run[d].mode)]
  /\ run' = [run EXCEPT ![d] = Empty]
  /\ UNCHANGED <<bootVars, manifest, hasError, message, raised, followed, configures>>

\* message(FATAL_ERROR), or the configure succeeds.
Report(d) == pc[d] = "report" /\ End(d, IF hasError[d] THEN "failure" ELSE "success")

\* A configure without vcpkg reports no error.
EndWithout(d) == pc[d] = "without" /\ End(d, "without")

\* The user kills the configure, and with it its bootstrap.
Kill(d) ==
  /\ pc[d] # "idle" /\ pc' = [pc EXCEPT ![d] = "idle"]
  /\ BootKilled(d) /\ Forget(d)
  /\ run' = [run EXCEPT ![d] = Empty]
  /\ UNCHANGED <<manifest, cache, result, first, followed, configures>>

-----------------------------------------------------------------------------
Between(d) == pc[d] = "idle" /\ configures[d] \in 1..MaxConfigures[d] - 1
Advised(d) == result[d] = "failure" /\ Head(message[d]) = NoManifest

\* The user changes something, which is what the message says or not.
Changes(d, asTold) ==
  /\ followed' = [followed EXCEPT ![d] = Advised(d) /\ asTold]
  /\ result' = [result EXCEPT ![d] = "none"] /\ Forget(d)
  /\ UNCHANGED <<bootVars, run, pc, configures>>

\* -DVCPKG_MANIFEST_MODE=..., -DVCPKG_MANIFEST_INSTALL=...
SetMode(d, mode) ==
  /\ Between(d) /\ cache[d].mode # mode
  /\ cache' = [cache EXCEPT ![d].mode = mode]
  /\ Changes(d, mode = "OFF") /\ UNCHANGED <<manifest, first>>

SetInstall(d, install) ==
  /\ Between(d) /\ cache[d].install # install
  /\ cache' = [cache EXCEPT ![d].install = install]
  /\ Changes(d, FALSE) /\ UNCHANGED <<manifest, first>>

AddManifest(d) ==
  /\ Between(d) /\ ~manifest[d]
  /\ manifest' = [manifest EXCEPT ![d] = TRUE]
  /\ Changes(d, TRUE) /\ UNCHANGED <<cache, first>>

RemoveManifest(d) ==
  /\ Between(d) /\ manifest[d]
  /\ manifest' = [manifest EXCEPT ![d] = FALSE]
  /\ Changes(d, FALSE) /\ UNCHANGED <<cache, first>>

DeleteBuildDir(d) ==
  /\ Between(d)
  /\ \E c \in Options[d] : cache' = [cache EXCEPT ![d] = c]
  /\ first' = [first EXCEPT ![d] = Unset]
  /\ Changes(d, FALSE) /\ UNCHANGED manifest

\* Somebody runs bootstrap-vcpkg.sh by hand, or kills it.
ByHand(a) ==
  /\ a \notin Dirs
  /\ BootStart(a) \/ (boot[a] \in Running /\ BootKilled(a))
  /\ UNCHANGED toolVars

Next ==
  \/ \E a \in Actors : BootStep(a) /\ UNCHANGED toolVars
  \/ \E a \in Actors : ByHand(a)
  \/ \E d \in Dirs :
       \/ Configure(d) \/ Exists(d) \/ Bootstrapped(d) \/ Install(d) \/ Report(d)
       \/ ConfigureWithout(d) \/ EndWithout(d)
       \/ Kill(d) \/ AddManifest(d) \/ RemoveManifest(d) \/ DeleteBuildDir(d)
       \/ \E option \in OnOff : SetMode(d, option) \/ SetInstall(d, option)

Spec == Init /\ [][Next]_toolchainVars

-----------------------------------------------------------------------------
\* A build directory stays in the mode of the first configure that ended: a
\* configure with vcpkg in the other mode does not succeed, whatever options and
\* manifests come and go, which configures failed, went on without vcpkg or were
\* killed in between.  A configure without vcpkg may end in the other mode.
ModeIsKept ==
  \A d \in Dirs : result[d] = "success" => cache[d].mode = first[d]

\* After a fatal error nothing is bootstrapped or installed, and the configure
\* fails, unless it goes on without vcpkg: "This Z_VCPKG_HAS_FATAL_ERROR must be
\* checked before any filesystem operations are done".
ErrorsAreFatal ==
  \A d \in Dirs : raised[d] # <<>> =>
    pc[d] \in {"idle", "report", "without"} /\ result[d] # "success"

\* What the message about a missing manifest advises: when the user has added
\* a manifest, or turned VCPKG_MANIFEST_MODE off, the next configure of the
\* build directory is not refused for its mode.  The code refuses it.
AdviceHelps ==
  \A d \in Dirs : followed[d] /\ result[d] = "failure" =>
    Head(message[d]) \notin {NoManifest, WasEnabled}
=============================================================================
