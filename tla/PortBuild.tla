----------------------------- MODULE PortBuild -----------------------------
(***************************************************************************)
(* One port built again and again: scripts/ports.cmake runs the portfile,  *)
(* whose build commands go through vcpkg_execute_build_process, which runs *)
(* a command again after failures that are known to be transient; at last  *)
(* build_info.cmake writes BUILD_INFO.  The packages directory, the logs   *)
(* and the list of failure logs stay on disk from build to build, and a    *)
(* build may be killed at any step.                                        *)
(***************************************************************************)
EXTENDS Naturals, Sequences

CONSTANTS
  Commands,  \* number of build commands in the portfile
  MaxBuilds  \* bound on the builds of the port

ASSUME CommandsAssumption == Commands \in Nat \ {0}
ASSUME MaxBuildsAssumption == MaxBuilds \in Nat \ {0}

\* How a run of a command ends: error_code 0; a failure whose output matches
\* the list of retryable messages, "mt : general error c101008d: ", the same
\* with "mt.exe", or none of them; a failure without output; no numeric
\* error_code at all.
Outcomes == {"ok", "memory", "mt", "mtexe", "other", "silent", "noCode"}

Builds == 1..MaxBuilds
Logs == (1..Commands) \X (1..4)  \* <<command, run>>, the out and err logs

VARIABLES
  build,      \* the build under way or ended last
  download,   \* VCPKG_DOWNLOAD_MODE of this build
  stage,      \* where ports.cmake is
  command,    \* the command the portfile runs next
  tries,      \* how its runs ended so far
  files,      \* files[c]: what command c installed in CURRENT_PACKAGES_DIR
  info,       \* the build that wrote BUILD_INFO there, 0 if there is none
  logs,       \* logs[l]: the build that wrote log l, 0 if there is none
  collection  \* Z_VCPKG_ERROR_LOG_COLLECTION_FILE

package == <<files, info>>
position == <<command, tries>>
vars == <<build, download, stage, position, package, logs, collection>>

NoFiles == [of |-> 0, whole |-> FALSE]

TypeOK ==
  /\ build \in Builds /\ download \in BOOLEAN
  /\ stage \in {"start", "remove", "include", "portfile", "post", "info",
                "built", "failed", "refused", "halted", "killed"}
  /\ command \in 1..(Commands + 1)
  /\ tries \in Seq(Outcomes) /\ Len(tries) <= 4
  /\ files \in [1..Commands -> [of : Builds \cup {0}, whole : BOOLEAN]]
  /\ info \in Builds \cup {0}
  /\ logs \in [Logs -> Builds \cup {0}]
  /\ collection \subseteq Logs

Init ==
  /\ build = 1 /\ download \in BOOLEAN
  /\ stage = "start"
  /\ command = 1 /\ tries = <<>>
  /\ files = [c \in 1..Commands |-> NoFiles]
  /\ info = 0
  /\ logs = [l \in Logs |-> 0]
  /\ collection = {}

-----------------------------------------------------------------------------
\* The triplet, the port or one of its files may not be there.
Start ==
  /\ stage = "start"
  /\ stage' \in {"remove", "refused"}
  /\ UNCHANGED <<build, download, position, package, logs, collection>>

\* Mutated form of Remove: the directory is kept.
RemoveNothing ==
  /\ stage = "remove"
  /\ stage' = "include"
  /\ UNCHANGED <<build, download, position, package, logs, collection>>

\* file(REMOVE_RECURSE CURRENT_PACKAGES_DIR): some files may be in use, and
\* those before them are gone by then.
Remove ==
  /\ stage = "remove"
  /\ \/ /\ files' = [c \in 1..Commands |-> NoFiles] /\ info' = 0
        /\ stage' = "include"
     \/ /\ \E gone \in SUBSET (1..Commands) :
             files' = [c \in 1..Commands |->
               IF c \in gone THEN NoFiles ELSE [of |-> files[c].of, whole |-> FALSE]]
        /\ info' \in {info, 0}
        /\ stage' = "refused"
  /\ UNCHANGED <<build, download, position, logs, collection>>

\* Mutated form of Include: the list of failure logs is not removed.
IncludeKeepsList ==
  /\ stage = "include"
  /\ stage' \in {"portfile", "refused"}
  /\ UNCHANGED <<build, download, position, package, logs, collection>>

\* The triplet and the VCPKG_PORT_CONFIGS are included, and may fail; then the
\* list of failure logs is removed.
Include ==
  /\ stage = "include"
  /\ \/ stage' = "portfile" /\ collection' = {}
     \/ stage' = "refused" /\ UNCHANGED collection
  /\ UNCHANGED <<build, download, position, package, logs>>

Last == tries[Len(tries)]

\* The command runs again: once after a message of the list, and up to three
\* times after the one of mt.exe, as long as the output has that of "mt".
Retries ==
  /\ tries # <<>>
  /\ \/ Len(tries) = 1 /\ Last \in {"memory", "mt", "mtexe"}
     \/ Len(tries) \in {2, 3} /\ tries[1] \in {"mt", "mtexe"} /\ Last = "mt"

\* execute_process of COMMAND or NO_PARALLEL_COMMAND with logs of its own.  A
\* run that fails may have installed some of the files.
Run ==
  /\ stage = "portfile" /\ ~download
  /\ command <= Commands /\ (tries = <<>> \/ Retries)
  /\ \E o \in Outcomes :
       /\ tries' = Append(tries, o)
       /\ \/ /\ o = "ok"
             /\ files' = [files EXCEPT ![command] = [of |-> build, whole |-> TRUE]]
          \/ /\ o # "ok"
             /\ files' \in {files,
                  [files EXCEPT ![command] = [of |-> build, whole |-> FALSE]]}
  /\ logs' = [logs EXCEPT ![<<command, Len(tries) + 1>>] = build]
  /\ UNCHANGED <<build, download, stage, command, info, collection>>

\* Download mode replaces execute_process by a fatal error.
Halt ==
  /\ stage = "portfile" /\ download /\ command <= Commands
  /\ stage' = "halted"
  /\ UNCHANGED <<build, download, position, package, logs, collection>>

\* Mutated form of Succeed: after a retry the error code is not looked at.
SucceedAfterRetry ==
  /\ stage = "portfile" /\ tries # <<>> /\ (Last = "ok" \/ Len(tries) > 1)
  /\ command' = command + 1 /\ tries' = <<>>
  /\ UNCHANGED <<build, download, stage, package, logs, collection>>

Succeed ==
  /\ stage = "portfile" /\ tries # <<>> /\ Last = "ok"
  /\ command' = command + 1 /\ tries' = <<>>
  /\ UNCHANGED <<build, download, stage, package, logs, collection>>

\* The logs of the command's runs that are not empty.
Collected ==
  {<<command, i>> : i \in {j \in DOMAIN tries : tries[j] \notin {"silent", "noCode"}}}

\* The fatal error, and the list of logs; without a numeric error code of the
\* first run there is no list.
Fail ==
  /\ stage = "portfile" /\ tries # <<>> /\ Last # "ok" /\ ~Retries
  /\ stage' = "failed"
  /\ collection' = IF tries = <<"noCode">> THEN collection ELSE collection \cup Collected
  /\ UNCHANGED <<build, download, position, package, logs>>

\* The portfile gets past its last command, or fails between commands.
Leave ==
  /\ stage = "portfile" /\ tries = <<>>
  /\ \/ command > Commands /\ stage' = "post"
     \/ stage' = "failed"
  /\ UNCHANGED <<build, download, position, package, logs, collection>>

\* Z_VCPKG_POST_PORTFILE_INCLUDES and the RPATH fixups.
Post ==
  /\ stage = "post"
  /\ stage' \in {"info", "failed"}
  /\ UNCHANGED <<build, download, position, package, logs, collection>>

\* build_info.cmake.
WriteInfo ==
  /\ stage = "info"
  /\ info' = build
  /\ stage' = "built"
  /\ UNCHANGED <<build, download, position, files, logs, collection>>

Kill ==
  /\ stage \in {"start", "remove", "include", "portfile", "post", "info"}
  /\ stage' = "killed"
  /\ \/ UNCHANGED package
     \/ /\ stage = "remove"
        /\ files' = [c \in 1..Commands |-> [of |-> files[c].of, whole |-> FALSE]]
        /\ UNCHANGED info
  /\ UNCHANGED <<build, download, position, logs, collection>>

\* Mutated form of Again: commands are counted from 0.
AgainFromZero ==
  /\ stage \in {"built", "failed", "refused", "halted", "killed"}
  /\ build < MaxBuilds
  /\ build' = build + 1 /\ download' \in BOOLEAN
  /\ stage' = "start" /\ command' = 0 /\ tries' = <<>>
  /\ UNCHANGED <<package, logs, collection>>

\* vcpkg builds the port again.
Again ==
  /\ stage \in {"built", "failed", "refused", "halted", "killed"}
  /\ build < MaxBuilds
  /\ build' = build + 1 /\ download' \in BOOLEAN
  /\ stage' = "start" /\ command' = 1 /\ tries' = <<>>
  /\ UNCHANGED <<package, logs, collection>>

Next ==
  \/ Start \/ Remove \/ Include \/ Run \/ Halt \/ Succeed \/ Fail \/ Leave
  \/ Post \/ WriteInfo \/ Kill \/ Again

Spec == Init /\ [][Next]_vars

-----------------------------------------------------------------------------
\* ports.cmake exits with success only with a package of this build alone: the
\* last run of every command succeeded, whatever runs failed before it, and
\* nothing of earlier, killed or halted builds is left in the directory.
PackageIsComplete ==
  stage = "built" =>
    /\ info = build
    /\ \A c \in 1..Commands : files[c] = [of |-> build, whole |-> TRUE]

\* BUILD_INFO never stands beside files of a build other than its own, in a
\* directory that any build was killed in or could not remove.
InfoMatchesFiles ==
  info # 0 => \A c \in 1..Commands : files[c].of \in {0, info}

\* The logs on the list that vcpkg reads after a failure hold the output of
\* this build's runs of the failing command, all of those that printed
\* something; unless the build failed before the portfile was included.
ListIsOfFailure ==
  stage = "failed" =>
    /\ \A l \in collection : logs[l] = build /\ l[1] = command
    /\ \A i \in DOMAIN tries :
         tries[i] \in {"memory", "mt", "mtexe", "other"} => <<command, i>> \in collection
=============================================================================
