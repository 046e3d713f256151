------------------------------ MODULE DistFile ------------------------------
(***************************************************************************)
(* z_vcpkg_download_distfile (scripts/cmake/vcpkg_download_distfile.cmake):*)
(* how port builds obtain a file through the DOWNLOADS directory they all  *)
(* share.  A request is one call of the function; its calls of EXISTS,     *)
(* file(SHA512) and vcpkg x-download are separate steps, because another   *)
(* vcpkg instance may change DOWNLOADS between any two of them.            *)
(*                                                                         *)
(* A content is identified with its SHA512, so an element of Hashes is     *)
(* both.                                                                   *)
(***************************************************************************)
EXTENDS Naturals

CONSTANTS
  Requests,     \* calls of z_vcpkg_download_distfile
  Files,        \* file names relative to DOWNLOADS
  Hashes,       \* SHA512 values that some content has
  ZeroHash,     \* the 128 zeros that "SHA512 0" stands for: no content has it
  Absent,       \* no file there, or no SHA512 argument
  Alt,          \* Alt[f, h]: f with the first 8 characters of h in its name
  Offered       \* the argument lists the ports pass, a set of records

ASSUME HashAssumption == ZeroHash \notin Hashes /\ Absent \notin Hashes
                           /\ Absent # ZeroHash
ASSUME AltAssumption == Alt \in [Files \X (Hashes \cup {ZeroHash}) -> Files]

Shas == Hashes \cup {ZeroHash, Absent}

\* FILENAME, SHA512, SKIP_SHA512, ALWAYS_REDOWNLOAD, and the two settings of
\* the vcpkg instance the port runs under.
Options == [name : Files, sha : Shas, skip : BOOLEAN, always : BOOLEAN,
            noDownloads : BOOLEAN, noHashCheck : BOOLEAN]

ASSUME OfferedAssumption == Offered \subseteq Options

VARIABLES
  store,    \* DOWNLOADS: the content of each file name
  opt,      \* opt[r]: the arguments of r
  pc,       \* pc[r]: where r is
  path,     \* path[r]: arg_FILENAME, the name r looks at now
  exclusive, \* TRUE if one vcpkg root, so one lock, covers all the requests
  robbed    \* requests a user took the file away from after they were served

vars == <<store, opt, pc, path, exclusive, robbed>>

Failures == {"badArguments", "cannotHash", "unexpectedHash",
             "downloadsDisabled", "downloadFailed"}
Running == {"exists", "hash", "existsAlt", "hashAlt", "fetch", "download"}
Labels == {"idle", "done"} \cup Running \cup Failures

TypeOK ==
  /\ store \in [Files -> Hashes \cup {Absent}]
  /\ opt \in [Requests -> Offered]
  /\ pc \in [Requests -> Labels]
  /\ path \in [Requests -> Files]
  /\ exclusive \in BOOLEAN
  /\ robbed \subseteq Requests

\* DOWNLOADS may hold anything earlier runs and users left there.
Init ==
  /\ store \in [Files -> Hashes \cup {Absent}]
  /\ opt \in [Requests -> Offered]
  /\ pc = [r \in Requests |-> "idle"]
  /\ path = [r \in Requests |-> opt[r].name]
  /\ exclusive \in BOOLEAN
  /\ robbed = {}

Goto(r, label) == pc' = [pc EXCEPT ![r] = label]

-----------------------------------------------------------------------------
\* The argument checks.  Missing URLS or FILENAME and a SHA512 that is none end
\* a call the same way; no element of Offered is like that.
BadArguments(o) ==
  \/ o.always /\ ~o.skip
  \/ ~o.skip /\ o.sha = Absent
  \/ o.skip /\ o.sha # Absent

\* arg_SKIP_SHA512, which _VCPKG_INTERNAL_NO_HASH_CHECK also sets.
Skip(o) == o.skip \/ o.noHashCheck

\* The lock vcpkg takes on its root directory for as long as it runs.
MayStart == exclusive => \A q \in Requests : pc[q] \notin Running

Start(r) ==
  /\ pc[r] = "idle"
  /\ MayStart
  /\ Goto(r, IF BadArguments(opt[r]) THEN "badArguments" ELSE "exists")
  /\ UNCHANGED <<store, opt, path, exclusive, robbed>>

\* if(EXISTS downloaded_file_path) and the SKIP_SHA512 branch under it.
Exists(r) ==
  /\ pc[r] = "exists"
  /\ \/ store[path[r]] = Absent /\ Goto(r, "fetch")
     \/ /\ store[path[r]] # Absent
        /\ \/ Skip(opt[r]) /\ opt[r].always /\ Goto(r, "fetch")
           \/ Skip(opt[r]) /\ ~opt[r].always /\ Goto(r, "done")
           \/ ~Skip(opt[r]) /\ Goto(r, "hash")
  /\ UNCHANGED <<store, opt, path, exclusive, robbed>>

\* Mutated form of Hash: a mismatch goes on to download over the cached file.
HashKeepsName(r) ==
  /\ pc[r] = "hash"
  /\ Goto(r, IF store[path[r]] = opt[r].sha THEN "done" ELSE "fetch")
  /\ UNCHANGED <<store, opt, path, exclusive, robbed>>

\* Mutated form of Hash: the second name is the hash alone.
HashDropsName(r) ==
  /\ pc[r] = "hash"
  /\ path' = [path EXCEPT ![r] = opt[r].sha]
  /\ Goto(r, "existsAlt")
  /\ UNCHANGED <<store, opt, exclusive, robbed>>

\* The cached file is used if it has the wanted hash; otherwise the function
\* goes on with the name that has the hash in it.  A file that was deleted since
\* EXISTS saw it is a fatal error of file(SHA512).
Hash(r) ==
  /\ pc[r] = "hash"
  /\ \/ store[path[r]] = Absent /\ Goto(r, "cannotHash") /\ UNCHANGED path
     \/ store[path[r]] = opt[r].sha /\ Goto(r, "done") /\ UNCHANGED path
     \/ /\ store[path[r]] \notin {Absent, opt[r].sha}
        /\ path' = [path EXCEPT ![r] = Alt[path[r], opt[r].sha]]
        /\ Goto(r, "existsAlt")
  /\ UNCHANGED <<store, opt, exclusive, robbed>>

\* Mutated form of ExistsAlt: a second file that is there is taken unhashed.
ExistsAltUnchecked(r) ==
  /\ pc[r] = "existsAlt"
  /\ Goto(r, IF store[path[r]] = Absent THEN "fetch" ELSE "done")
  /\ UNCHANGED <<store, opt, path, exclusive, robbed>>

ExistsAlt(r) ==
  /\ pc[r] = "existsAlt"
  /\ Goto(r, IF store[path[r]] = Absent THEN "fetch" ELSE "hashAlt")
  /\ UNCHANGED <<store, opt, path, exclusive, robbed>>

HashAlt(r) ==
  /\ pc[r] = "hashAlt"
  /\ \/ store[path[r]] = Absent /\ Goto(r, "cannotHash")
     \/ store[path[r]] = opt[r].sha /\ Goto(r, "done")
     \/ store[path[r]] \notin {Absent, opt[r].sha} /\ Goto(r, "unexpectedHash")
  /\ UNCHANGED <<store, opt, path, exclusive, robbed>>

Fetch(r) ==
  /\ pc[r] = "fetch"
  /\ Goto(r, IF opt[r].noDownloads THEN "downloadsDisabled" ELSE "download")
  /\ UNCHANGED <<store, opt, path, exclusive, robbed>>

\* vcpkg x-download: fetches whatever a URL serves into a file of its own,
\* checks its hash unless told --skip-sha512, and renames it into place.
Download(r) ==
  /\ pc[r] = "download"
  /\ \/ /\ \E c \in Hashes :
             /\ Skip(opt[r]) \/ c = opt[r].sha
             /\ store' = [store EXCEPT ![path[r]] = c]
        /\ Goto(r, "done")
     \/ Goto(r, "downloadFailed") /\ UNCHANGED store
  /\ UNCHANGED <<opt, path, exclusive, robbed>>

\* The user follows the advice of the "unexpected hash" error: deletes the file
\* and retries.  Nobody looks whether the advice is still true by then: another
\* request may have put the wanted content there, and been served with it.
DeleteAndRetry(r) ==
  /\ pc[r] = "unexpectedHash"
  /\ ~opt[r].noDownloads
  /\ store' = [store EXCEPT ![path[r]] = Absent]
  /\ robbed' = robbed \cup {q \in Requests : pc[q] = "done" /\ path[q] = path[r]}
  /\ path' = [path EXCEPT ![r] = opt[r].name]
  /\ Goto(r, "idle")
  /\ UNCHANGED <<opt, exclusive>>

Next ==
  \E r \in Requests :
    \/ Start(r) \/ Exists(r) \/ Hash(r) \/ ExistsAlt(r) \/ HashAlt(r)
    \/ Fetch(r) \/ Download(r) \/ DeleteAndRetry(r)

Spec == Init /\ [][Next]_vars

-----------------------------------------------------------------------------
\* Its caller pinned a content and the hash check is on.
Pinned(r) == ~Skip(opt[r])

AltName(r) == Alt[opt[r].name, opt[r].sha]

\* The names r may download to.
Names(r) == {opt[r].name} \cup (IF Pinned(r) THEN {AltName(r)} ELSE {})

\* The requests that may replace r's file after r was served with it: one that
\* always redownloads the name and, where no lock keeps the instances apart,
\* one that downloads to it without wanting the content r pinned.
Rival(q, r) ==
  /\ q # r
  /\ \/ opt[q].always /\ opt[q].name = path[r]
     \/ /\ ~exclusive
        /\ path[r] \in Names(q)
        /\ Skip(opt[q]) \/ opt[q].sha # opt[r].sha

\* A port that pinned a SHA512 and got a file (one of four return statements)
\* finds that very content in it from then on, whatever the other requests
\* do, wherever the cached and the alternative names lead them, and whatever
\* was in DOWNLOADS before.  Only a rival may replace the file, and only a
\* user who follows another port's outdated advice may take it away.
ServedIsPinned ==
  \A r \in Requests \ robbed :
    pc[r] = "done" /\ Pinned(r) =>
      store[path[r]] = opt[r].sha \/ \E q \in Requests : Rival(q, r)

\* Where one lock covers all requests, a file in DOWNLOADS is replaced only by
\* a request for it that says ALWAYS_REDOWNLOAD, and removed only by a user
\* whom a hash error told to: another SHA512 under the same name never costs
\* the first port its cached file.
CachedFilesSurvive ==
  [][exclusive =>
       \A f \in Files :
         store[f] # Absent /\ store'[f] # store[f] =>
           \E r \in Requests :
             /\ path[r] = f
             /\ \/ pc[r] = "download" /\ opt[r].always
                \/ pc[r] = "unexpectedHash" /\ store'[f] = Absent]_vars
=============================================================================
