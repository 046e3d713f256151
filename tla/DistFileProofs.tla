--------------------------- MODULE DistFileProofs ---------------------------
(***************************************************************************)
(* Theorems about DistFile for any number of requests, files and contents. *)
(* ServedIsPinned is not inductive: a request may have to answer for what  *)
(* another, half-way through its steps, is about to put in place.  IInv    *)
(* adds what each place in the function knows: which of the two names the  *)
(* request looks at, that its arguments passed the checks, and, under the  *)
(* lock, that the name it is about to download is still free.              *)
(***************************************************************************)
EXTENDS DistFile, TLAPS

\* A request that got past the argument checks has sound arguments.
ArgumentsChecked ==
  \A r \in Requests : pc[r] \notin {"idle", "badArguments"} => ~BadArguments(opt[r])

\* Only a request with a hash to check comes to hash anything, and it looks at
\* its second name from the first mismatch on.
NamesKnown ==
  \A r \in Requests :
    /\ pc[r] \in {"idle", "exists", "hash"} => path[r] = opt[r].name
    /\ pc[r] \in {"existsAlt", "hashAlt", "unexpectedHash"} => path[r] = AltName(r)
    /\ pc[r] \in {"hash", "existsAlt", "hashAlt", "unexpectedHash"} => Pinned(r)
    /\ pc[r] \in {"fetch", "download"} =>
         path[r] = opt[r].name \/ (Pinned(r) /\ path[r] = AltName(r))

\* The lock lets one request run at a time.
OneRuns ==
  exclusive =>
    \A q, r \in Requests : pc[q] \in Running /\ pc[r] \in Running => q = r

\* Under the lock, what a request saw is still so when it downloads.
DownloadsAreMissing ==
  exclusive =>
    \A r \in Requests :
      pc[r] \in {"fetch", "download"} => opt[r].always \/ store[path[r]] = Absent

IInv == /\ TypeOK /\ ArgumentsChecked /\ NamesKnown
        /\ OneRuns /\ DownloadsAreMissing /\ ServedIsPinned

-----------------------------------------------------------------------------
\* What the arguments of a request are; used wherever a step looks at them.
LEMMA OptType ==
  ASSUME TypeOK, NEW r \in Requests
  PROVE  /\ opt[r] \in Options
         /\ opt[r].name \in Files /\ opt[r].sha \in Shas
         /\ opt[r].always \in BOOLEAN /\ opt[r].skip \in BOOLEAN
BY OfferedAssumption DEF TypeOK, Options

\* The second name of a request with a hash to check is a file name.
LEMMA AltNameType ==
  ASSUME TypeOK, NEW r \in Requests, opt[r].sha # Absent
  PROVE  AltName(r) \in Files
<1>1. <<opt[r].name, opt[r].sha>> \in Files \X (Hashes \cup {ZeroHash})
  BY OptType DEF Shas
<1> QED
  BY <1>1, AltAssumption DEF AltName

\* A request with a hash to check that passed the argument checks has a SHA512.
LEMMA PinnedHasHash ==
  ASSUME TypeOK, NEW r \in Requests, Pinned(r), ~BadArguments(opt[r])
  PROVE  opt[r].sha # Absent
BY DEF Pinned, Skip, BadArguments

-----------------------------------------------------------------------------
\* The types hold at first.
LEMMA TypeInit == Init => TypeOK
<1> SUFFICES ASSUME Init PROVE TypeOK
  OBVIOUS
<1>1. \A r \in Requests : opt[r].name \in Files
  <2>1. \A o \in Offered : o.name \in Files
    BY OfferedAssumption DEF Options
  <2> QED
    BY <2>1 DEF Init
<1> QED
  BY <1>1 DEF Init, TypeOK, Labels

\* Typing needs NamesKnown: only the hash step, which looks at the first name
\* of a request with a SHA512, makes up a new name.
LEMMA TypeNext ==
  ASSUME TypeOK, ArgumentsChecked, NamesKnown, [Next]_vars
  PROVE  TypeOK'
<1> USE DEF Goto, Labels, Running, Failures
<1>1. CASE UNCHANGED vars
  BY <1>1 DEF TypeOK, vars
<1>2. ASSUME NEW r \in Requests, Start(r) PROVE TypeOK'
  BY <1>2 DEF TypeOK, Start
<1>3. ASSUME NEW r \in Requests, Exists(r) PROVE TypeOK'
  BY <1>3 DEF TypeOK, Exists
<1>4. ASSUME NEW r \in Requests, Hash(r) PROVE TypeOK'
  <2>1. Pinned(r) /\ ~BadArguments(opt[r]) /\ path[r] = opt[r].name
    BY <1>4 DEF Hash, NamesKnown, ArgumentsChecked
  <2>2. Alt[path[r], opt[r].sha] \in Files
    BY <2>1, PinnedHasHash, AltNameType DEF AltName
  <2> QED
    BY <1>4, <2>2 DEF TypeOK, Hash
<1>5. ASSUME NEW r \in Requests, ExistsAlt(r) PROVE TypeOK'
  BY <1>5 DEF TypeOK, ExistsAlt
<1>6. ASSUME NEW r \in Requests, HashAlt(r) PROVE TypeOK'
  BY <1>6 DEF TypeOK, HashAlt
<1>7. ASSUME NEW r \in Requests, Fetch(r) PROVE TypeOK'
  BY <1>7 DEF TypeOK, Fetch
<1>8. ASSUME NEW r \in Requests, Download(r) PROVE TypeOK'
  BY <1>8 DEF TypeOK, Download
<1>9. ASSUME NEW r \in Requests, DeleteAndRetry(r) PROVE TypeOK'
  BY <1>9, OptType DEF TypeOK, DeleteAndRetry
<1> QED
  BY <1>1, <1>2, <1>3, <1>4, <1>5, <1>6, <1>7, <1>8, <1>9 DEF Next

-----------------------------------------------------------------------------
\* A step keeps ArgumentsChecked.
LEMMA ArgumentsNext ==
  ASSUME TypeOK, ArgumentsChecked, [Next]_vars
  PROVE  ArgumentsChecked'
<1> SUFFICES ASSUME NEW r \in Requests, pc'[r] \notin {"idle", "badArguments"}
             PROVE  ~BadArguments(opt'[r])
  BY DEF ArgumentsChecked, BadArguments
<1>1. opt' = opt
  BY DEF Next, vars, Start, Exists, Hash, ExistsAlt, HashAlt, Fetch, Download,
         DeleteAndRetry
<1>2. ~BadArguments(opt[r])
  <2>1. CASE pc[r] \notin {"idle", "badArguments"}
    BY <2>1 DEF ArgumentsChecked
  <2>2. CASE pc[r] \in {"idle", "badArguments"}
    <3>1. Start(r)
      BY <2>2 DEF Next, vars, TypeOK, Goto, Start, Exists, Hash, ExistsAlt, HashAlt,
                  Fetch, Download, DeleteAndRetry
    <3> QED
      BY <3>1 DEF Start, Goto, TypeOK
  <2> QED
    BY <2>1, <2>2
<1> QED
  BY <1>1, <1>2

\* A step keeps NamesKnown.
LEMMA NamesNext ==
  ASSUME TypeOK, NamesKnown, [Next]_vars
  PROVE  NamesKnown'
<1> USE DEF NamesKnown, TypeOK, Goto, AltName, Pinned
<1>1. CASE UNCHANGED vars
  BY <1>1 DEF vars
<1>2. ASSUME NEW r \in Requests, Start(r) PROVE NamesKnown'
  BY <1>2 DEF Start
<1>3. ASSUME NEW r \in Requests, Exists(r) PROVE NamesKnown'
  BY <1>3 DEF Exists
<1>4. ASSUME NEW r \in Requests, Hash(r) PROVE NamesKnown'
  <2>1. opt' = opt /\ pc[r] = "hash" /\ Pinned(r) /\ path[r] = opt[r].name
    BY <1>4 DEF Hash
  <2>2. Alt[path[r], opt[r].sha] = AltName(r)
    BY <2>1
  <2>3. \A q \in Requests : AltName(q)' = AltName(q) /\ Pinned(q)' = Pinned(q)
    BY <2>1
  <2>4. /\ \A q \in Requests \ {r} : pc'[q] = pc[q] /\ path'[q] = path[q]
        /\ \/ pc'[r] \in {"done", "cannotHash"}
           \/ pc'[r] = "existsAlt" /\ path'[r] = AltName(r)
    BY <1>4, <2>2 DEF Hash
  <2> HIDE DEF AltName, Pinned
  <2> QED
    BY <2>1, <2>3, <2>4
<1>5. ASSUME NEW r \in Requests, ExistsAlt(r) PROVE NamesKnown'
  BY <1>5 DEF ExistsAlt
<1>6. ASSUME NEW r \in Requests, HashAlt(r) PROVE NamesKnown'
  BY <1>6 DEF HashAlt
<1>7. ASSUME NEW r \in Requests, Fetch(r) PROVE NamesKnown'
  BY <1>7 DEF Fetch
<1>8. ASSUME NEW r \in Requests, Download(r) PROVE NamesKnown'
  BY <1>8 DEF Download
<1>9. ASSUME NEW r \in Requests, DeleteAndRetry(r) PROVE NamesKnown'
  BY <1>9 DEF DeleteAndRetry
<1> QED
  BY <1>1, <1>2, <1>3, <1>4, <1>5, <1>6, <1>7, <1>8, <1>9 DEF Next

\* The lock lets one request run, after a step too.
LEMMA OneRunsNext ==
  ASSUME TypeOK, OneRuns, [Next]_vars
  PROVE  OneRuns'
<1> USE DEF OneRuns, TypeOK, Goto, Running, MayStart
<1>1. CASE UNCHANGED vars
  BY <1>1 DEF vars
<1>2. ASSUME NEW r \in Requests, Start(r) PROVE OneRuns'
  BY <1>2 DEF Start
<1>3. ASSUME NEW r \in Requests, Exists(r) PROVE OneRuns'
  BY <1>3 DEF Exists
<1>4. ASSUME NEW r \in Requests, Hash(r) PROVE OneRuns'
  BY <1>4 DEF Hash
<1>5. ASSUME NEW r \in Requests, ExistsAlt(r) PROVE OneRuns'
  BY <1>5 DEF ExistsAlt
<1>6. ASSUME NEW r \in Requests, HashAlt(r) PROVE OneRuns'
  BY <1>6 DEF HashAlt
<1>7. ASSUME NEW r \in Requests, Fetch(r) PROVE OneRuns'
  BY <1>7 DEF Fetch
<1>8. ASSUME NEW r \in Requests, Download(r) PROVE OneRuns'
  BY <1>8 DEF Download
<1>9. ASSUME NEW r \in Requests, DeleteAndRetry(r) PROVE OneRuns'
  BY <1>9 DEF DeleteAndRetry
<1> QED
  BY <1>1, <1>2, <1>3, <1>4, <1>5, <1>6, <1>7, <1>8, <1>9 DEF Next

\* A step keeps DownloadsAreMissing.
LEMMA MissingNext ==
  ASSUME TypeOK, OneRuns, DownloadsAreMissing, [Next]_vars
  PROVE  DownloadsAreMissing'
<1> USE DEF DownloadsAreMissing, TypeOK, Goto
<1>1. CASE UNCHANGED vars
  BY <1>1 DEF vars
<1>2. ASSUME NEW r \in Requests, Start(r) PROVE DownloadsAreMissing'
  BY <1>2 DEF Start
<1>3. ASSUME NEW r \in Requests, Exists(r) PROVE DownloadsAreMissing'
  BY <1>3 DEF Exists
<1>4. ASSUME NEW r \in Requests, Hash(r) PROVE DownloadsAreMissing'
  BY <1>4 DEF Hash
<1>5. ASSUME NEW r \in Requests, ExistsAlt(r) PROVE DownloadsAreMissing'
  BY <1>5 DEF ExistsAlt
<1>6. ASSUME NEW r \in Requests, HashAlt(r) PROVE DownloadsAreMissing'
  BY <1>6 DEF HashAlt
<1>7. ASSUME NEW r \in Requests, Fetch(r) PROVE DownloadsAreMissing'
  BY <1>7 DEF Fetch
<1>8. ASSUME NEW r \in Requests, Download(r) PROVE DownloadsAreMissing'
  BY <1>8 DEF Download, OneRuns, Running
<1>9. ASSUME NEW r \in Requests, DeleteAndRetry(r) PROVE DownloadsAreMissing'
  BY <1>9 DEF DeleteAndRetry, MayStart, Running
<1> QED
  BY <1>1, <1>2, <1>3, <1>4, <1>5, <1>6, <1>7, <1>8, <1>9 DEF Next

-----------------------------------------------------------------------------
\* A step of one request cannot spoil what another was served unless it is the
\* other's rival.
LEMMA ServedNext ==
  ASSUME IInv, [Next]_vars
  PROVE  ServedIsPinned'
<1> SUFFICES ASSUME NEW r \in Requests, r \notin robbed', pc'[r] = "done", Pinned(r)',
                    ~\E q \in Requests : Rival(q, r)'
             PROVE  store'[path'[r]] = opt'[r].sha
  BY DEF ServedIsPinned
<1>1. opt' = opt /\ exclusive' = exclusive
  BY DEF Next, vars, Start, Exists, Hash, ExistsAlt, HashAlt, Fetch, Download,
         DeleteAndRetry
<1>2. Pinned(r) /\ r \notin robbed
  BY <1>1 DEF Pinned, Next, vars, Start, Exists, Hash, ExistsAlt, HashAlt, Fetch, Download,
              DeleteAndRetry
<1>3. CASE pc[r] = "done"
  \* r was served before: whatever changes its file is the step of a rival.
  <2>1. path'[r] = path[r]
    BY <1>3 DEF IInv, TypeOK, Next, vars, Start, Exists, Hash, ExistsAlt, HashAlt,
                Fetch, Download, DeleteAndRetry
  <2>2. ~\E q \in Requests : Rival(q, r)
    BY <1>1, <2>1 DEF Rival, Names, Pinned, AltName
  <2>3. store[path[r]] = opt[r].sha
    BY <1>2, <1>3, <2>2 DEF IInv, ServedIsPinned
  <2>4. opt[r].sha \in Hashes
    <3>1. ~BadArguments(opt[r])
      BY <1>3 DEF IInv, ArgumentsChecked
    <3>2. opt[r].sha # Absent
      BY <1>2, <3>1, PinnedHasHash DEF IInv
    <3> QED
      BY <2>3, <3>2 DEF IInv, TypeOK
  <2>5. ASSUME NEW q \in Requests, Download(q), path[q] = path[r]
        PROVE  store'[path[r]] = opt[r].sha
    \* q = r is done; otherwise the name was free under the lock, or q downloads
    \* what r wants, or q is a rival.
    <3>1. q # r /\ pc[q] = "download" /\ ~BadArguments(opt[q])
      BY <1>3, <2>5 DEF Download, IInv, ArgumentsChecked
    <3>2. path[r] \in Names(q)
      BY <2>5, <3>1 DEF IInv, NamesKnown, Names
    <3>3. CASE exclusive
      <4>1. ~opt[q].always
        <5>1. CASE path[q] = opt[q].name
          BY <2>2, <2>5, <3>1, <5>1 DEF Rival
        <5>2. CASE Pinned(q)
          BY <3>1, <5>2 DEF BadArguments, Pinned, Skip
        <5> QED
          BY <3>1, <5>1, <5>2 DEF IInv, NamesKnown
      <4>2. store[path[q]] = Absent
        BY <3>1, <3>3, <4>1 DEF IInv, DownloadsAreMissing
      <4> QED
        BY <2>3, <2>4, <2>5, <4>2, HashAssumption
    <3>4. CASE ~exclusive
      <4>1. ~Skip(opt[q]) /\ opt[q].sha = opt[r].sha
        BY <2>2, <3>1, <3>2, <3>4 DEF Rival
      <4> QED
        BY <2>3, <2>5, <4>1 DEF Download, IInv, TypeOK
    <3> QED
      BY <3>3, <3>4
  <2>6. ASSUME NEW q \in Requests, DeleteAndRetry(q), path[q] = path[r]
        PROVE  FALSE
    \* Such a deletion makes r one of the robbed.
    BY <1>3, <2>6 DEF DeleteAndRetry
  <2>7. ASSUME NEW q \in Requests, Download(q) \/ DeleteAndRetry(q), path[q] # path[r]
        PROVE  store'[path[r]] = store[path[r]]
    BY <2>7 DEF Download, DeleteAndRetry, IInv, TypeOK
  <2>8. ASSUME ~\E q \in Requests : Download(q) \/ DeleteAndRetry(q)
        PROVE  store' = store
    BY <2>8 DEF Next, vars, Start, Exists, Hash, ExistsAlt, HashAlt, Fetch
  <2> QED
    BY <1>1, <2>1, <2>3, <2>5, <2>6, <2>7, <2>8
<1>4. CASE pc[r] # "done"
  \* r is served by this step: by one of the four ways out.
  <2>1. Exists(r) \/ Hash(r) \/ HashAlt(r) \/ Download(r)
    <3>1. ASSUME NEW q \in Requests,
                 Start(q) \/ ExistsAlt(q) \/ Fetch(q) \/ DeleteAndRetry(q)
          PROVE  FALSE
      BY <1>4, <3>1 DEF IInv, TypeOK, Goto, Start, ExistsAlt, Fetch, DeleteAndRetry
    <3>2. ASSUME NEW q \in Requests \ {r},
                 Exists(q) \/ Hash(q) \/ HashAlt(q) \/ Download(q)
          PROVE  FALSE
      BY <1>4, <3>2 DEF IInv, TypeOK, Goto, Exists, Hash, HashAlt, Download
    <3> QED
      BY <1>4, <3>1, <3>2 DEF Next, vars
  <2>2. CASE Exists(r)
    BY <1>2, <2>2 DEF Exists, Goto, Pinned, IInv, TypeOK
  <2>3. CASE Hash(r)
    BY <1>1, <2>3 DEF Hash, Goto, IInv, TypeOK
  <2>4. CASE HashAlt(r)
    BY <1>1, <2>4 DEF HashAlt, Goto, IInv, TypeOK
  <2>5. CASE Download(r)
    BY <1>1, <1>2, <2>5 DEF Download, Goto, Pinned, IInv, TypeOK
  <2> QED
    BY <2>1, <2>2, <2>3, <2>4, <2>5
<1> QED
  BY <1>3, <1>4

-----------------------------------------------------------------------------
\* The invariant holds at first...
LEMMA InvInit == Init => IInv
BY TypeInit
   DEF Init, IInv, ArgumentsChecked, NamesKnown, OneRuns, DownloadsAreMissing,
       ServedIsPinned, Running

\* ...every step keeps it...
LEMMA InvNext == IInv /\ [Next]_vars => IInv'
BY TypeNext, ArgumentsNext, NamesNext, OneRunsNext, MissingNext, ServedNext DEF IInv

\* ...and so it holds throughout.
LEMMA Invariance == Spec => []IInv
BY InvInit, InvNext, PTL DEF Spec

\* Whatever the requests do, every file in DOWNLOADS and every name a request
\* looks at, the second one included, is what the script can mean.
THEOREM TypeCorrect == Spec => []TypeOK
BY Invariance, PTL DEF IInv

\* z_vcpkg_download_distfile serves a pinned request the content it pinned, and
\* that content stays there until a rival by its arguments replaces it: for any
\* number of ports, file names and vcpkg processes.
THEOREM PinnedContentServed == Spec => []ServedIsPinned
BY Invariance, PTL DEF IInv

\* One vcpkg root's requests never cost a port its cached file: a request that
\* does not say ALWAYS_REDOWNLOAD downloads only to names that are free.
THEOREM CachedFilesStay == Spec => CachedFilesSurvive
<1> DEFINE Survives ==
      exclusive =>
        \A f \in Files :
          store[f] # Absent /\ store'[f] # store[f] =>
            \E r \in Requests :
              /\ path[r] = f
              /\ \/ pc[r] = "download" /\ opt[r].always
                 \/ pc[r] = "unexpectedHash" /\ store'[f] = Absent
<1>1. IInv /\ [Next]_vars => [Survives]_vars
  <2> SUFFICES ASSUME IInv, Next, exclusive,
                      NEW f \in Files, store[f] # Absent, store'[f] # store[f]
               PROVE  \E r \in Requests :
                        /\ path[r] = f
                        /\ \/ pc[r] = "download" /\ opt[r].always
                           \/ pc[r] = "unexpectedHash" /\ store'[f] = Absent
    OBVIOUS
  <2>1. PICK r \in Requests : Download(r) \/ DeleteAndRetry(r)
    BY DEF Next, Start, Exists, Hash, ExistsAlt, HashAlt, Fetch
  <2>2. path[r] = f
    BY <2>1 DEF Download, DeleteAndRetry, IInv, TypeOK
  <2>3. CASE Download(r)
    BY <2>2, <2>3 DEF Download, IInv, DownloadsAreMissing
  <2>4. CASE DeleteAndRetry(r)
    BY <2>2, <2>4 DEF DeleteAndRetry
  <2> QED
    BY <2>1, <2>2, <2>3, <2>4
<1> QED
  BY <1>1, Invariance, PTL DEF Spec, CachedFilesSurvive
=============================================================================
