------------------------ MODULE ExtractSourceProofs ------------------------
(***************************************************************************)
(* Proofs about vcpkg_extract_source_archive, for any number of calls and  *)
(* any archives, patches and options: what a killed call leaves behind     *)
(* never makes a later one fail, no patch is lost, and the directories     *)
(* implement SourceTrees, which knows nothing of .tmp and half-made trees. *)
(*                                                                         *)
(* One call runs at a time, and .tmp is cleared before it is filled.  So   *)
(* the loop over PATCHES works on a tree that has the patches before       *)
(* patchnum and nothing else, and this is the tree that is renamed.        *)
(***************************************************************************)
EXTENDS ExtractSource, SequenceTheorems, NaturalsInduction, WellFoundedInduction, TLAPS

\* Tree t has all patches of b, or a call with SKIP_PATCH_CHECK may have made
\* it, or a user has edited it.
HasPatches(b, t) ==
  ~opt[b].quiet /\ ~t.edited =>
    \/ t.applied = opt[b].patches
    \/ opt[b].editable /\ \E q \in Builds : opt[q].quiet /\ Path(q) = Path(b)

\* What b has achieved at each point of the script.
Work(b) ==
  /\ pc[b] = "clean" => ~opt[b].editable
  /\ pc[b] = "untar" => temps[Path(b)] = Empty
  /\ pc[b] = "unwrap" =>
       ~temps[Path(b)].stale /\ temps[Path(b)].applied = <<>> /\ next[b] = 1
  /\ pc[b] = "patch" =>
       /\ ~temps[Path(b)].stale
       /\ next[b] \in 1..Len(opt[b].patches) + 1
       /\ ~opt[b].quiet => temps[Path(b)].applied = SubSeq(opt[b].patches, 1, next[b] - 1)
  /\ pc[b] = "rename" /\ ~opt[b].quiet => temps[Path(b)].applied = opt[b].patches
  /\ pc[b] \in {"removeTemp", "return"} => HasPatches(b, trees[Path(b)])
  /\ pc[b] = "done" => HasPatches(b, given[b])
  /\ pc[b] = "patchFailed" =>
       \E i \in 1..Len(opt[b].patches) : opt[b].patches[i] \notin Applies[opt[b].archive]

\* vcpkg's lock on the build tree.
OneRuns ==
  \A b, q \in Builds : pc[b] \in Running /\ pc[q] \in Running => b = q

\* The tree that a call with --editable finds.
EditableKept ==
  \A b \in Builds :
    opt[b].editable /\ trees[Path(b)] # Nothing => HasPatches(b, trees[Path(b)])

SrcInv == TypeOK /\ OneRuns /\ (\A b \in Builds : Work(b)) /\ EditableKept

-----------------------------------------------------------------------------
\* Appending the next patch gives one more of the patches.
LEMMA OnePatchMore ==
  ASSUME NEW S, NEW s \in Seq(S), NEW n \in 1..Len(s)
  PROVE  SubSeq(s, 1, n) = Append(SubSeq(s, 1, n - 1), s[n])
<1>1. Len(s) \in Nat /\ n \in Nat
  OBVIOUS
<1>2. SubSeq(s, 1, n) \in Seq(S) /\ SubSeq(s, 1, n - 1) \in Seq(S) /\ s[n] \in S
  BY <1>1
<1>3. Len(SubSeq(s, 1, n)) = n /\ Len(SubSeq(s, 1, n - 1)) = n - 1
  BY <1>1, SubSeqProperties
<1>4. \A i \in 1..n : SubSeq(s, 1, n)[i] = s[i]
  BY <1>1, SubSeqProperties
<1>5. \A i \in 1..n - 1 : SubSeq(s, 1, n - 1)[i] = s[i]
  BY <1>1, SubSeqProperties
<1> DEFINE t == SubSeq(s, 1, n - 1)
           u == SubSeq(s, 1, n)
<1>6. Append(t, s[n]) \in Seq(S) /\ Len(Append(t, s[n])) = n
  BY <1>1, <1>2, <1>3
<1>7. \A i \in 1..n : Append(t, s[n])[i] = s[i]
  BY <1>1, <1>2, <1>3, <1>5
<1> HIDE DEF t, u
<1> QED
  BY <1>2, <1>3, <1>4, <1>6, <1>7, <1>1 DEF t, u

\* The arguments and the path of a call.
LEMMA ArgumentTypes ==
  ASSUME TypeOK, NEW b \in Builds
  PROVE  /\ opt[b] \in Options /\ Path(b) \in Paths
         /\ Path(b).clean = ~opt[b].editable /\ Path(b).patches = opt[b].patches
         /\ opt[b].patches \in Seq(Patches) /\ opt[b].archive \in Archives
         /\ opt[b].editable \in BOOLEAN /\ opt[b].quiet \in BOOLEAN
BY OfferedAssumption DEF TypeOK, Path, PathOf, Paths, Options

\* The trees the calls begin with.
LEMMA NoTrees == Nothing \in Trees /\ Empty \in Trees /\ Empty.archive = "empty" /\ ~Empty.stale
<1>1. <<>> \in Seq(Patches)
  OBVIOUS
<1>2. Nothing \in Trees
  BY <1>1, Zenon DEF Nothing, Trees
<1>3. \A t \in Trees :
        /\ [t EXCEPT !.archive = "empty"] \in Trees
        /\ [t EXCEPT !.archive = "empty"].archive = "empty"
        /\ [t EXCEPT !.archive = "empty"].stale = t.stale
  BY DEF Trees
<1>4. ~Nothing.stale
  BY DEF Nothing
<1> QED
  BY <1>2, <1>3, <1>4, Zenon DEF Empty

\* At the start nothing has run.
LEMMA SrcInitHasInv == Init => SrcInv
<1> SUFFICES ASSUME Init PROVE SrcInv
  OBVIOUS
<1>1. TypeOK
  BY NoTrees DEF Init, TypeOK
<1>2. OneRuns /\ \A b \in Builds : Work(b)
  BY DEF Init, OneRuns, Running, Work
<1>3. EditableKept
  BY <1>1, ArgumentTypes DEF Init, EditableKept
<1> QED
  BY <1>1, <1>2, <1>3 DEF SrcInv

\* While one call runs, the others keep what they were given.
LEMMA OthersKeep ==
  ASSUME SrcInv, NEW b \in Builds, opt' = opt,
         \A q \in Builds \ {b} :
           pc[q] \notin Running /\ pc'[q] = pc[q] /\ given'[q] = given[q]
  PROVE  OneRuns' /\ \A q \in Builds \ {b} : Work(q)'
<1>1. OneRuns'
  BY DEF OneRuns
<1>2. ASSUME NEW q \in Builds \ {b} PROVE Work(q)'
  BY <1>2 DEF SrcInv, Work, HasPatches, Path, Running
<1> QED
  BY <1>1, <1>2

\* A call that runs is the only one.
LEMMA OthersRest ==
  ASSUME SrcInv, NEW b \in Builds, pc[b] \in Running
  PROVE  \A q \in Builds \ {b} : pc[q] \notin Running
BY DEF SrcInv, OneRuns

\* Trees that do not change are what they were.
LEMMA TreesKept ==
  ASSUME SrcInv, opt' = opt, trees' = trees
  PROVE  EditableKept'
BY DEF SrcInv, EditableKept, HasPatches, Path

-----------------------------------------------------------------------------
\* A call starts when none runs.
LEMMA StartKeepsInv ==
  ASSUME SrcInv, NEW b \in Builds, Start(b)
  PROVE  SrcInv'
<1>1. TypeOK'
  BY DEF Start, Goto, SrcInv, TypeOK, Running, Failures
<1>2. OneRuns' /\ \A q \in Builds \ {b} : Work(q)'
  BY OthersKeep DEF Start, Goto, SrcInv, TypeOK
<1>3. Work(b)'
  BY DEF Start, Goto, SrcInv, TypeOK, Work
<1> QED
  BY <1>1, <1>2, <1>3, TreesKept DEF SrcInv, Start

\* A tree that is there is used if it is editable.
LEMMA LookupKeepsInv ==
  ASSUME SrcInv, NEW b \in Builds, Lookup(b)
  PROVE  SrcInv'
<1>1. TypeOK'
  BY DEF Lookup, Goto, SrcInv, TypeOK, Running
<1>2. OneRuns' /\ \A q \in Builds \ {b} : Work(q)'
  BY OthersKeep, OthersRest DEF Lookup, Goto, SrcInv, TypeOK, Running
<1>3. Work(b)'
  BY DEF Lookup, Goto, SrcInv, TypeOK, Work, EditableKept, HasPatches, Path
<1> QED
  BY <1>1, <1>2, <1>3, TreesKept DEF SrcInv, Lookup

\* A tree that is removed is not one of --editable.
LEMMA CleanKeepsInv ==
  ASSUME SrcInv, NEW b \in Builds, Clean(b)
  PROVE  SrcInv'
<1>1. Path(b) \in Paths /\ Path(b).clean = ~opt[b].editable /\ ~opt[b].editable
  BY ArgumentTypes DEF Clean, SrcInv, Work
<1>2. PICK t \in Removals(trees[Path(b)]) :
        /\ trees' = [trees EXCEPT ![Path(b)] = t]
        /\ Goto(b, IF t = Nothing THEN "clearTemp" ELSE "clean")
  BY DEF Clean
<1>3. t \in Trees
  BY <1>1, NoTrees DEF Removals, SrcInv, TypeOK, Trees
<1>4. TypeOK'
  BY <1>2, <1>3 DEF Clean, Goto, SrcInv, TypeOK, Running
<1>5. OneRuns' /\ \A q \in Builds \ {b} : Work(q)'
  BY <1>2, OthersKeep, OthersRest DEF Clean, Goto, SrcInv, TypeOK, Running
<1>6. Work(b)'
  BY <1>1, <1>2 DEF Clean, Goto, SrcInv, TypeOK, Work
<1>7. EditableKept'
  <2>1. ASSUME NEW q \in Builds, opt[q].editable PROVE trees'[Path(q)] = trees[Path(q)]
    BY <1>1, <1>2, <2>1, ArgumentTypes DEF SrcInv, TypeOK
  <2> QED
    BY <2>1 DEF Clean, SrcInv, EditableKept, HasPatches, Path
<1> QED
  BY <1>4, <1>5, <1>6, <1>7 DEF SrcInv

\* The temporary directory is emptied before it is used.
LEMMA ClearTempKeepsInv ==
  ASSUME SrcInv, NEW b \in Builds, ClearTemp(b)
  PROVE  SrcInv'
<1>1. Path(b) \in Paths
  BY ArgumentTypes DEF SrcInv
<1>2. \A t \in Removals(temps[Path(b)]) : t \in Trees
  BY <1>1, NoTrees DEF Removals, SrcInv, TypeOK, Trees
<1>3. TypeOK'
  BY <1>1, <1>2, NoTrees DEF ClearTemp, Goto, SrcInv, TypeOK, Running
<1>4. OneRuns' /\ \A q \in Builds \ {b} : Work(q)'
  BY OthersKeep, OthersRest DEF ClearTemp, Goto, SrcInv, TypeOK, Running
<1>5. Work(b)'
  BY <1>1 DEF ClearTemp, Goto, SrcInv, TypeOK, Work, Path
<1> QED
  BY <1>3, <1>4, <1>5, TreesKept DEF SrcInv, ClearTemp

\* What is unpacked into an empty directory is the archive and nothing else.
LEMMA UntarKeepsInv ==
  ASSUME SrcInv, NEW b \in Builds, Untar(b)
  PROVE  SrcInv'
<1>1. Path(b) \in Paths /\ opt[b].archive \in Archives /\ temps[Path(b)] = Empty
  BY ArgumentTypes DEF Untar, SrcInv, Work
<1>2. ~(temps[Path(b)].stale \/ temps[Path(b)].archive \in Archives)
  BY <1>1, NoTrees, ArchiveAssumption
<1>3. PICK w \in BOOLEAN :
        /\ temps' = [temps EXCEPT ![Path(b)] =
             [archive |-> opt[b].archive, applied |-> <<>>, whole |-> w,
              stale |-> @.stale \/ @.archive \in Archives, edited |-> FALSE]]
        /\ \/ w /\ Goto(b, "unwrap")
           \/ ~w /\ Goto(b, "extractFailed")
  BY DEF Untar
<1> DEFINE t == [archive |-> opt[b].archive, applied |-> <<>>, whole |-> w,
                 stale |-> FALSE, edited |-> FALSE]
<1>4. temps' = [temps EXCEPT ![Path(b)] = t]
  BY <1>2, <1>3
<1>5. t \in Trees /\ ~t.stale /\ t.applied = <<>>
  BY <1>1 DEF Trees
<1> HIDE DEF t
<1>6. TypeOK'
  <2>1. temps' \in [Paths -> Trees]
    BY <1>4, <1>5 DEF SrcInv, TypeOK
  <2>2. next' \in [Builds -> Nat]
    BY DEF Untar, SrcInv, TypeOK
  <2>3. pc' \in [Builds -> {"idle", "done"} \cup Running \cup Failures]
    BY <1>3 DEF Goto, SrcInv, TypeOK, Running, Failures
  <2> QED
    BY <2>1, <2>2, <2>3 DEF Untar, SrcInv, TypeOK
<1>7. OneRuns' /\ \A q \in Builds \ {b} : Work(q)'
  BY <1>3, OthersKeep, OthersRest DEF Untar, Goto, SrcInv, TypeOK, Running
<1>8. Work(b)'
  BY <1>1, <1>3, <1>4, <1>5 DEF Untar, Goto, SrcInv, TypeOK, Work, Path
<1> QED
  BY <1>6, <1>7, <1>8, TreesKept DEF SrcInv, Untar

\* The tree that patches are applied to.
LEMMA UnwrapKeepsInv ==
  ASSUME SrcInv, NEW b \in Builds, Unwrap(b)
  PROVE  SrcInv'
<1>1. opt[b].patches \in Seq(Patches) /\ Len(opt[b].patches) \in Nat
  BY ArgumentTypes DEF SrcInv
<1>2. SubSeq(opt[b].patches, 1, 0) = <<>> /\ 1 \in 1..Len(opt[b].patches) + 1 /\ 1 - 1 = 0
  BY <1>1, SubSeqEmpty
<1>3. TypeOK'
  BY DEF Unwrap, Goto, SrcInv, TypeOK, Running, Failures
<1>4. OneRuns' /\ \A q \in Builds \ {b} : Work(q)'
  BY OthersKeep, OthersRest DEF Unwrap, Goto, SrcInv, TypeOK, Running
<1>5. Work(b)'
  BY <1>2 DEF Unwrap, Goto, SrcInv, TypeOK, Work, Path
<1> QED
  BY <1>3, <1>4, <1>5, TreesKept DEF SrcInv, Unwrap

\* Every patch that applies is applied; one that does not is the caller's, since
\* there is nothing of earlier calls in the tree.
LEMMA PatchKeepsInv ==
  ASSUME SrcInv, NEW b \in Builds, Patch(b)
  PROVE  SrcInv'
<1> DEFINE s == opt[b].patches
           n == next[b]
           t == temps[Path(b)]
<1>1. Path(b) \in Paths /\ s \in Seq(Patches) /\ Len(s) \in Nat /\ t \in Trees
  BY ArgumentTypes DEF SrcInv, TypeOK
<1>2. /\ pc[b] = "patch" /\ ~t.stale /\ n \in 1..Len(s) + 1
      /\ ~opt[b].quiet => t.applied = SubSeq(s, 1, n - 1)
  BY DEF Patch, SrcInv, Work
<1>3. OneRuns' /\ \A q \in Builds \ {b} : Work(q)'
  BY <1>2, OthersKeep, OthersRest DEF Patch, Goto, SrcInv, TypeOK, Running
<1>4. CASE n > Len(s)
  <2>1. n = Len(s) + 1 /\ SubSeq(s, 1, Len(s)) = s
    BY <1>1, <1>2, <1>4, SubSeqFull
  <2>2. pc' = [pc EXCEPT ![b] = "rename"] /\ UNCHANGED <<next, temps>>
    BY <1>1, <1>2, <1>4 DEF Patch, Goto
  <2>3. n - 1 = Len(s)
    BY <1>1, <2>1
  <2>4. ~opt[b].quiet => t.applied = s
    BY <1>2, <2>1, <2>3
  <2>5. TypeOK'
    BY <2>2 DEF Patch, SrcInv, TypeOK, Running
  <2>6. Work(b)'
    BY <2>2, <2>4 DEF Patch, SrcInv, TypeOK, Work, Path
  <2> QED
    BY <1>3, <2>5, <2>6, TreesKept DEF SrcInv, Patch
<1>5. CASE n <= Len(s)
  <2> DEFINE patch == s[n]
             works == patch \in Applies[opt[b].archive]
  <2>1. patch \in Patches /\ n \in 1..Len(s) /\ ~(n > Len(s))
    BY <1>1, <1>2, <1>5
  <2>2. /\ temps' = IF works THEN [temps EXCEPT ![Path(b)].applied = Append(@, patch)] ELSE temps
        /\ \/ /\ works \/ opt[b].quiet
              /\ next' = [next EXCEPT ![b] = @ + 1]
              /\ UNCHANGED pc
           \/ ~works /\ ~opt[b].quiet /\ Goto(b, "patchFailed") /\ UNCHANGED next
    BY <1>2, <2>1 DEF Patch
  <2> DEFINE u == temps'[Path(b)]
  <2>3. /\ temps' \in [Paths -> Trees] /\ u.stale = t.stale
        /\ works => u.applied = Append(t.applied, patch)
    <3>1. [t EXCEPT !.applied = Append(@, patch)] \in Trees
      <4>1. \A x \in Trees, l \in Seq(Patches) : [x EXCEPT !.applied = l] \in Trees
        BY DEF Trees
      <4>2. Append(t.applied, patch) \in Seq(Patches)
        BY <1>1, <2>1 DEF Trees
      <4> QED
        BY <1>1, <4>1, <4>2
    <3>2. CASE works
      <4>1. temps' = [temps EXCEPT ![Path(b)] = [t EXCEPT !.applied = Append(@, patch)]]
        BY <2>2, <3>2
      <4> QED
        BY <1>1, <3>1, <4>1 DEF SrcInv, TypeOK, Trees
    <3>3. CASE ~works
      BY <2>2, <3>3 DEF SrcInv, TypeOK
    <3> QED
      BY <3>2, <3>3
  <2>4. SubSeq(s, 1, n) = Append(SubSeq(s, 1, n - 1), s[n])
    BY <1>1, <2>1, OnePatchMore
  <2>5. CASE /\ works \/ opt[b].quiet
             /\ next' = [next EXCEPT ![b] = @ + 1]
             /\ UNCHANGED pc
    <3>1. next'[b] = n + 1 /\ n + 1 \in 1..Len(s) + 1 /\ (n + 1) - 1 = n /\ next' \in [Builds -> Nat]
      BY <1>1, <1>2, <2>1, <2>5 DEF SrcInv, TypeOK
    <3>2. ~opt[b].quiet => u.applied = SubSeq(s, 1, n)
      BY <1>2, <2>3, <2>4, <2>5
    <3>3. TypeOK'
      BY <2>3, <2>5, <3>1 DEF Patch, SrcInv, TypeOK
    <3>4. opt' = opt /\ Path(b)' = Path(b) /\ pc'[b] = "patch"
      BY <1>2, <2>5 DEF Patch, Path
    <3> HIDE DEF s, n, t, u, works, patch
    <3>5. Work(b)'
      BY <1>2, <2>3, <3>1, <3>2, <3>4 DEF Work, s, u
    <3> QED
      BY <1>3, <3>3, <3>5, TreesKept DEF SrcInv, Patch
  <2>6. CASE ~works /\ ~opt[b].quiet /\ Goto(b, "patchFailed") /\ UNCHANGED next
    <3>1. TypeOK'
      BY <2>3, <2>6 DEF Patch, Goto, SrcInv, TypeOK, Failures
    <3>2. Work(b)'
      BY <2>1, <2>6 DEF Patch, Goto, SrcInv, TypeOK, Work
    <3> QED
      BY <1>3, <3>1, <3>2, TreesKept DEF SrcInv, Patch
  <2> QED
    BY <2>2, <2>5, <2>6
<1> QED
  BY <1>1, <1>2, <1>4, <1>5

\* The tree that appears has the patches of every call for its path.
LEMMA RenameKeepsInv ==
  ASSUME SrcInv, NEW b \in Builds, Rename(b)
  PROVE  SrcInv'
<1> DEFINE t == temps[Path(b)]
<1>1. Path(b) \in Paths /\ t \in Trees
  BY ArgumentTypes DEF SrcInv, TypeOK
<1>2. ~opt[b].quiet => t.applied = opt[b].patches
  BY DEF Rename, SrcInv, Work
<1>3. TypeOK'
  BY <1>1, NoTrees DEF Rename, Goto, SrcInv, TypeOK, Running
<1>4. OneRuns' /\ \A q \in Builds \ {b} : Work(q)'
  BY OthersKeep, OthersRest DEF Rename, Goto, SrcInv, TypeOK, Running
<1>5. \A q \in Builds : trees'[Path(q)] = IF Path(q) = Path(b) THEN t ELSE trees[Path(q)]
  BY <1>1, ArgumentTypes DEF Rename, SrcInv, TypeOK
<1>6. opt' = opt /\ \A q \in Builds : Path(q)' = Path(q)
  BY DEF Rename, Path
<1>7. Work(b)'
  BY <1>2, <1>5, <1>6 DEF Rename, Goto, SrcInv, TypeOK, Work, HasPatches
<1>8. ASSUME NEW q \in Builds, opt[q].editable, Path(q) = Path(b), ~opt[q].quiet
      PROVE  \/ t.applied = opt[q].patches
             \/ \E r \in Builds : opt[r].quiet /\ Path(r) = Path(q)
  BY <1>2, <1>8, ArgumentTypes DEF SrcInv
<1>9. EditableKept'
  BY <1>5, <1>6, <1>8 DEF SrcInv, EditableKept, HasPatches
<1> QED
  BY <1>3, <1>4, <1>7, <1>9 DEF SrcInv

\* The last steps of a call: it is given the tree at its path.
LEMMA ReturnKeepsInv ==
  ASSUME SrcInv, NEW b \in Builds, RemoveTemp(b) \/ Return(b)
  PROVE  SrcInv'
<1>1. Path(b) \in Paths
  BY ArgumentTypes DEF SrcInv
<1>2. TypeOK'
  BY <1>1, NoTrees DEF RemoveTemp, Return, Goto, SrcInv, TypeOK, Running
<1>3. OneRuns' /\ \A q \in Builds \ {b} : Work(q)'
  BY OthersKeep, OthersRest DEF RemoveTemp, Return, Goto, SrcInv, TypeOK, Running
<1>4. Work(b)'
  BY <1>1 DEF RemoveTemp, Return, Goto, SrcInv, TypeOK, Work, HasPatches, Path
<1> QED
  BY <1>2, <1>3, <1>4, TreesKept DEF SrcInv, RemoveTemp, Return

\* A call is killed.
LEMMA KillKeepsInv ==
  ASSUME SrcInv, NEW b \in Builds, Kill(b)
  PROVE  SrcInv'
<1>1. TypeOK'
  BY DEF Kill, Goto, SrcInv, TypeOK, Failures
<1>2. OneRuns' /\ \A q \in Builds \ {b} : Work(q)'
  BY OthersKeep, OthersRest DEF Kill, Goto, SrcInv, TypeOK, Running
<1>3. Work(b)'
  BY DEF Kill, Goto, SrcInv, TypeOK, Work
<1> QED
  BY <1>1, <1>2, <1>3, TreesKept DEF SrcInv, Kill

\* The user's own tree is the user's.
LEMMA EditKeepsInv ==
  ASSUME SrcInv, NEW p \in Paths, Edit(p)
  PROVE  SrcInv'
<1> DEFINE e == [trees[p] EXCEPT !.edited = TRUE]
<1>1. e \in Trees /\ e.edited
  BY DEF SrcInv, TypeOK, Trees
<1>2. trees' = [trees EXCEPT ![p] = e]
  BY DEF Edit
<1> HIDE DEF e
<1>3. TypeOK'
  BY <1>1, <1>2 DEF Edit, SrcInv, TypeOK
<1>4. \A b \in Builds : trees'[Path(b)] = trees[Path(b)] \/ trees'[Path(b)] = e
  BY <1>2, ArgumentTypes DEF SrcInv, TypeOK
<1>5. opt' = opt /\ \A b \in Builds : Path(b)' = Path(b)
  BY DEF Edit, Path
<1>6. ASSUME NEW b \in Builds PROVE Work(b)'
  BY <1>1, <1>4, <1>5 DEF Edit, SrcInv, Work, HasPatches
<1>7. EditableKept'
  <2>1. trees[p] # Nothing
    BY DEF Edit
  <2>2. ASSUME NEW b \in Builds, trees'[Path(b)] = trees[Path(b)], opt[b].editable,
               trees'[Path(b)] # Nothing
        PROVE  HasPatches(b, trees[Path(b)])
    BY <2>2 DEF SrcInv, EditableKept
  <2> QED
    BY <1>1, <1>4, <1>5, <2>2 DEF EditableKept, HasPatches
<1> QED
  BY <1>3, <1>6, <1>7 DEF Edit, SrcInv, OneRuns

\* SrcInv is inductive: one step for each action of the script.
LEMMA SrcNextKeepsInv == SrcInv /\ [Next]_vars => SrcInv'
<1> SUFFICES ASSUME SrcInv, [Next]_vars PROVE SrcInv'
  OBVIOUS
<1>1. CASE Next
  BY <1>1, StartKeepsInv, LookupKeepsInv, CleanKeepsInv, ClearTempKeepsInv,
     UntarKeepsInv, UnwrapKeepsInv, PatchKeepsInv, RenameKeepsInv,
     ReturnKeepsInv, KillKeepsInv, EditKeepsInv
  DEF Next, Step
<1>2. CASE UNCHANGED vars
  BY <1>2 DEF vars, SrcInv, TypeOK, OneRuns, Work, EditableKept, HasPatches, Path
<1> QED
  BY <1>1, <1>2

-----------------------------------------------------------------------------
\* The types of the state of the calls and of the directories.
THEOREM SrcTypeIsInvariant == Spec => []TypeOK
<1>1. SrcInv => TypeOK
  BY DEF SrcInv
<1> QED
  BY <1>1, SrcInitHasInv, SrcNextKeepsInv, PTL DEF Spec

\* A call fails in the patches only over a patch that does not apply to its
\* archive, whatever killed calls have left in .tmp.
THEOREM LeftoversNeverFail == Spec => []LeftoversAreHarmless
<1>1. SrcInv => LeftoversAreHarmless
  BY DEF SrcInv, Work, LeftoversAreHarmless
<1> QED
  BY <1>1, SrcInitHasInv, SrcNextKeepsInv, PTL DEF Spec

\* A call without SKIP_PATCH_CHECK is given a tree with all its patches, or one
\* that a user or a call with SKIP_PATCH_CHECK has made of it.
THEOREM PatchesAreKept == Spec => []NoPatchIsLost
<1>1. SrcInv => NoPatchIsLost
  BY DEF SrcInv, Work, HasPatches, NoPatchIsLost
<1> QED
  BY <1>1, SrcInitHasInv, SrcNextKeepsInv, PTL DEF Spec

-----------------------------------------------------------------------------
(***************************************************************************)
(* The refinement of SourceTrees.  The tree in .tmp is the one that the    *)
(* path promises as far as the loop has come; it is renamed to a path      *)
(* where there is nothing; and a tree that is there when a call returns    *)
(* has either come from there or is a user's.                              *)
(***************************************************************************)

\* What patch n makes of the patches before it.
AppliedNext(a, s, t, n) == IF s[n] \in Applies[a] THEN Append(t, s[n]) ELSE t

\* The recursive definition of AppliedBy has a solution up to every n.
LEMMA AppliedExists ==
  ASSUME NEW a \in Archives, NEW s \in Seq(Patches)
  PROVE  \E f \in [0..Len(s) -> Seq(Patches)] :
           f[0] = <<>> /\ \A n \in 1..Len(s) : f[n] = AppliedNext(a, s, f[n - 1], n)
<1> DEFINE Good(m) == \E f \in [0..m -> Seq(Patches)] :
             f[0] = <<>> /\ \A n \in 1..m : f[n] = AppliedNext(a, s, f[n - 1], n)
           bad == {m \in 0..Len(s) : ~Good(m)}
<1>1. Len(s) \in Nat /\ \A n \in 1..Len(s) : s[n] \in Patches
  OBVIOUS
<1>2. Good(0)
  <2> DEFINE g == [n \in 0..0 |-> <<>>]
  <2>1. <<>> \in Seq(Patches)
    OBVIOUS
  <2>2. g \in [0..0 -> Seq(Patches)] /\ g[0] = <<>> /\ 1..0 = {}
    BY <2>1
  <2> HIDE DEF g
  <2> QED
    BY <2>2
<1>3. ASSUME NEW m \in 0..Len(s) - 1, Good(m) PROVE Good(m + 1)
  <2>1. PICK f \in [0..m -> Seq(Patches)] :
          f[0] = <<>> /\ \A n \in 1..m : f[n] = AppliedNext(a, s, f[n - 1], n)
    BY <1>3
  <2> DEFINE t == AppliedNext(a, s, f[m], m + 1)
             g == [n \in 0..(m + 1) |-> IF n = m + 1 THEN t ELSE f[n]]
  <2>2. m \in Nat /\ m + 1 \in 1..Len(s) /\ f[m] \in Seq(Patches)
    BY <1>1, <1>3
  <2>3. t \in Seq(Patches)
    <3>1. s[m + 1] \in Patches
      BY <1>1, <2>2
    <3>2. Append(f[m], s[m + 1]) \in Seq(Patches)
      BY <2>2, <3>1
    <3> QED
      BY <2>2, <3>2 DEF AppliedNext
  <2> HIDE DEF t
  <2>4. g \in [0..(m + 1) -> Seq(Patches)]
    BY <2>2, <2>3
  <2>5. /\ g[0] = f[0] /\ g[m + 1] = t /\ g[m] = f[m] /\ (m + 1) - 1 = m
        /\ \A n \in 1..m : g[n] = f[n] /\ g[n - 1] = f[n - 1]
    BY <2>2
  <2> HIDE DEF g
  <2>6. \A n \in 1..(m + 1) : n \in 1..m \/ n = m + 1
    BY <2>2
  <2>7. \A n \in 1..(m + 1) : g[n] = AppliedNext(a, s, g[n - 1], n)
    BY <2>1, <2>5, <2>6 DEF t
  <2> QED
    BY <2>1, <2>4, <2>5, <2>7
<1>4. bad = {}
  <2> SUFFICES ASSUME bad # {} PROVE FALSE
    OBVIOUS
  <2>1. bad \subseteq Nat
    BY <1>1
  <2>2. \A x, y \in Nat : x < y => <<x, y>> \in OpToRel(<, Nat)
    BY DEF OpToRel
  <2> HIDE DEF Good
  <2>3. PICK m \in bad : \A y \in bad : <<y, m>> \notin OpToRel(<, Nat)
    BY <2>1, NatLessThanWellFounded, WFMin
  <2>4. m \in 0..Len(s) /\ ~Good(m) /\ m # 0
    BY <1>2
  <2>5. m - 1 \in 0..Len(s) - 1 /\ (m - 1) + 1 = m /\ m - 1 < m
    BY <1>1, <2>4
  <2>6. m - 1 \notin bad
    BY <2>1, <2>2, <2>3, <2>5
  <2>7. Good(m - 1)
    BY <1>1, <2>5, <2>6
  <2> QED
    BY <1>3, <2>4, <2>5, <2>7
<1> HIDE DEF Good
<1>5. Good(Len(s))
  BY <1>1, <1>4
<1> QED
  BY <1>5 DEF Good

\* The recursion of AppliedBy, unfolded.
LEMMA AppliedUnfolded ==
  ASSUME NEW a \in Archives, NEW s \in Seq(Patches)
  PROVE  /\ AppliedBy(a, s)[0] = <<>>
         /\ \A n \in 1..Len(s) : AppliedBy(a, s)[n] = AppliedNext(a, s, AppliedBy(a, s)[n - 1], n)
<1> DEFINE Body(f) ==
      [n \in 0..Len(s) |->
         IF n = 0 THEN <<>>
         ELSE IF s[n] \in Applies[a] THEN Append(f[n - 1], s[n]) ELSE f[n - 1]]
<1>1. AppliedBy(a, s) = CHOOSE f : f = Body(f)
  BY DEF AppliedBy
<1>2. Len(s) \in Nat
  OBVIOUS
<1>3. PICK f \in [0..Len(s) -> Seq(Patches)] :
           f[0] = <<>> /\ \A n \in 1..Len(s) : f[n] = AppliedNext(a, s, f[n - 1], n)
  BY <1>2, AppliedExists
<1>4. f = Body(f)
  <2>1. \A n \in 0..Len(s) : f[n] = Body(f)[n]
    <3>1. \A n \in 0..Len(s) : n = 0 \/ (n \in 1..Len(s) /\ n # 0)
      BY <1>2
    <3> QED
      BY <1>3, <3>1 DEF AppliedNext
  <2> QED
    BY <1>3, <2>1
<1>5. AppliedBy(a, s) = Body(AppliedBy(a, s))
  <2> HIDE DEF Body
  <2> QED
    BY <1>1, <1>4
<1>6. \A n \in 1..Len(s) : n \in 0..Len(s) /\ n # 0
  BY <1>2
<1>7. 0 \in 0..Len(s)
  BY <1>2
<1> QED
  BY <1>5, <1>6, <1>7 DEF AppliedNext

\* The archive of b with those of its first n patches that apply.
Unpacked(b, n) ==
  [archive |-> opt[b].archive, applied |-> AppliedBy(opt[b].archive, opt[b].patches)[n],
   whole |-> TRUE, stale |-> FALSE, edited |-> FALSE]

\* Only a directory that is about to be removed is incomplete.
TreeIsSound(p) ==
  \/ trees[p] = Nothing
  \/ trees[p] = CompleteTree(p)
  \/ ~p.clean /\ trees[p].edited
  \/ p.clean /\ ~trees[p].whole /\ ~trees[p].edited

\* What b has made of the promised tree.
Progress(b) ==
  /\ pc[b] # "done" => given[b] = Nothing
  /\ pc[b] \in {"clearTemp", "untar", "unwrap", "patch", "rename"} => trees[Path(b)] = Nothing
  /\ pc[b] = "unwrap" => temps[Path(b)] = Unpacked(b, 0)
  /\ pc[b] = "patch" => temps[Path(b)] = Unpacked(b, next[b] - 1)
  /\ pc[b] = "rename" => temps[Path(b)] = CompleteTree(Path(b))
  /\ pc[b] \in {"removeTemp", "return"} =>
       trees[Path(b)] = CompleteTree(Path(b)) \/ trees[Path(b)].edited

PromiseInv ==
  SrcInv /\ (\A p \in Paths : TreeIsSound(p)) /\ (\A b \in Builds : Progress(b))

\* The fields of the trees that are promised, and how the directories look.
LEMMA PromisedTrees ==
  /\ \A p \in Paths :
       /\ CompleteTree(p) # Nothing /\ Visible(CompleteTree(p)) = CompleteTree(p)
       /\ ~CompleteTree(p).edited
  /\ ~Nothing.edited /\ Visible(Nothing) = Nothing
  /\ EditedTree # Nothing
<1>1. ~Nothing.whole /\ ~Nothing.edited
  BY DEF Nothing
<1>2. EditedTree.edited
  BY DEF EditedTree, Nothing
<1>3. \A p \in Paths : CompleteTree(p).whole /\ ~CompleteTree(p).edited
  BY DEF CompleteTree
<1> QED
  BY <1>1, <1>2, <1>3 DEF Visible

\* What a call unpacks becomes the tree of its path.
LEMMA UnpackedIsComplete ==
  ASSUME TypeOK, NEW b \in Builds
  PROVE  Unpacked(b, Len(opt[b].patches)) = CompleteTree(Path(b))
<1>1. Path(b) \in Paths /\ Path(b).archive = opt[b].archive /\ Path(b).patches = opt[b].patches
  BY ArgumentTypes DEF Path, PathOf
<1> QED
  BY <1>1 DEF Unpacked, CompleteTree, Applicable

\* A step that neither changes a tree nor gives one is none of SourceTrees.
LEMMA SilentStep ==
  ASSUME UNCHANGED <<opt, trees, given>>
  PROVE  UNCHANGED Promise!vars
BY DEF Promise!vars, Path, Visible

-----------------------------------------------------------------------------
\* At the start there is no tree.
LEMMA PromiseInitially == Init => PromiseInv /\ Promise!Init
<1> SUFFICES ASSUME Init PROVE PromiseInv /\ Promise!Init
  OBVIOUS
<1>1. SrcInv /\ TypeOK
  BY SrcInitHasInv DEF SrcInv
<1>2. \A b \in Builds : Path(b) \in Paths
  BY <1>1, ArgumentTypes
<1>3. PromiseInv
  BY <1>1, <1>2 DEF Init, PromiseInv, TreeIsSound, Progress
<1>4. Promise!Init
  BY <1>2, PromisedTrees DEF Init, Promise!Init
<1> QED
  BY <1>3, <1>4

\* The steps of a call that leave the trees alone, up to the loop over PATCHES.
LEMMA PrepareSteps ==
  ASSUME PromiseInv, NEW b \in Builds,
         Start(b) \/ Lookup(b) \/ ClearTemp(b) \/ Untar(b) \/ Unwrap(b)
  PROVE  (\A p \in Paths : TreeIsSound(p)') /\ (\A q \in Builds : Progress(q)')
         /\ UNCHANGED <<opt, trees, given>>
<1> DEFINE a == opt[b].archive
           s == opt[b].patches
<1>1. /\ UNCHANGED <<opt, trees, given>> /\ Path(b)' = Path(b)
      /\ \A q \in Builds \ {b} : pc'[q] = pc[q]
  BY DEF Start, Lookup, ClearTemp, Untar, Unwrap, Goto, Path, PromiseInv, SrcInv, TypeOK
<1>2. TypeOK /\ Path(b) \in Paths /\ s \in Seq(Patches) /\ a \in Archives
      /\ Path(b).clean = ~opt[b].editable /\ given[b] \in Trees
  BY ArgumentTypes DEF PromiseInv, SrcInv, TypeOK
<1>3. \A p \in Paths : TreeIsSound(p)'
  BY <1>1 DEF PromiseInv, TreeIsSound
<1>4. pc[b] # "done" /\ given[b] = Nothing
  BY DEF Start, Lookup, ClearTemp, Untar, Unwrap, PromiseInv, Progress
<1>5. Progress(b)'
  <2>1. CASE Start(b)
    BY <1>1, <1>2, <1>4, <2>1 DEF Start, Goto, Progress, TypeOK
  <2>2. CASE Lookup(b)
    <3>1. TreeIsSound(Path(b))
      BY <1>2 DEF PromiseInv
    <3> QED
      BY <1>1, <1>2, <1>4, <2>2, <3>1 DEF Lookup, Goto, Progress, TypeOK, TreeIsSound
  <2>3. CASE ClearTemp(b)
    BY <1>1, <1>2, <1>4, <2>3 DEF ClearTemp, Goto, PromiseInv, Progress, TypeOK
  <2>4. CASE Untar(b)
    <3>1. PICK w \in BOOLEAN :
            /\ temps' = [temps EXCEPT ![Path(b)] =
                 [archive |-> opt[b].archive, applied |-> <<>>, whole |-> w,
                  stale |-> @.stale \/ @.archive \in Archives, edited |-> FALSE]]
            /\ \/ w /\ Goto(b, "unwrap")
               \/ ~w /\ Goto(b, "extractFailed")
      BY <2>4 DEF Untar
    <3>2. temps[Path(b)] = Empty
      BY <2>4 DEF Untar, PromiseInv, SrcInv, Work
    <3>3. ~(temps[Path(b)].stale \/ temps[Path(b)].archive \in Archives)
      BY <3>2, NoTrees, ArchiveAssumption
    <3>4. temps'[Path(b)] = [archive |-> a, applied |-> <<>>, whole |-> w,
                             stale |-> FALSE, edited |-> FALSE]
      BY <1>2, <3>1, <3>3 DEF TypeOK
    <3>5. Unpacked(b, 0)' = [archive |-> a, applied |-> <<>>, whole |-> TRUE,
                             stale |-> FALSE, edited |-> FALSE]
      BY <1>1, <1>2, AppliedUnfolded DEF Unpacked
    <3>6. trees[Path(b)] = Nothing
      BY <2>4 DEF Untar, PromiseInv, Progress
    <3> QED
      BY <1>1, <1>2, <1>4, <3>1, <3>4, <3>5, <3>6 DEF Goto, Progress, TypeOK
  <2>5. CASE Unwrap(b)
    <3>1. /\ pc[b] = "unwrap" /\ pc'[b] \in {"patch", "unwrapFailed"}
          /\ next'[b] = 1 /\ temps' = temps
      BY <2>5 DEF Unwrap, Goto, PromiseInv, SrcInv, Work, TypeOK
    <3>2. Unpacked(b, 0)' = Unpacked(b, 0)
      BY <1>1 DEF Unpacked
    <3> QED
      BY <1>1, <1>4, <3>1, <3>2 DEF PromiseInv, Progress
  <2> QED
    BY <2>1, <2>2, <2>3, <2>4, <2>5
<1>6. \A q \in Builds \ {b} : Progress(q)'
  <2>1. \A q \in Builds \ {b} : pc[q] \notin Running
    BY OthersRest DEF Start, Lookup, ClearTemp, Untar, Unwrap, PromiseInv, Running
  <2> QED
    BY <1>1, <2>1 DEF PromiseInv, Progress, Running
<1> QED
  BY <1>1, <1>3, <1>5, <1>6

\* The loop over PATCHES: whether or not the call is quiet, the tree has those
\* patches up to patchnum that apply.
LEMMA PatchStep ==
  ASSUME PromiseInv, NEW b \in Builds, Patch(b)
  PROVE  (\A p \in Paths : TreeIsSound(p)') /\ (\A q \in Builds : Progress(q)')
         /\ UNCHANGED <<opt, trees, given>>
<1> DEFINE s == opt[b].patches
           a == opt[b].archive
           n == next[b]
           t == temps[Path(b)]
<1>1. UNCHANGED <<opt, trees, given>> /\ Path(b)' = Path(b)
  BY DEF Patch, Path
<1>2. /\ TypeOK /\ Path(b) \in Paths /\ s \in Seq(Patches) /\ a \in Archives /\ Len(s) \in Nat
      /\ given[b] = Nothing /\ trees[Path(b)] = Nothing
  BY ArgumentTypes DEF PromiseInv, SrcInv, Patch, Progress
<1>3. pc[b] = "patch" /\ ~t.stale /\ n \in 1..Len(s) + 1 /\ t = Unpacked(b, n - 1)
  BY DEF Patch, PromiseInv, SrcInv, Work, Progress
<1>4. \A p \in Paths : TreeIsSound(p)'
  BY <1>1 DEF PromiseInv, TreeIsSound
<1>5. \A q \in Builds \ {b} : Progress(q)'
  <2>1. \A q \in Builds \ {b} : pc[q] \notin Running /\ pc'[q] = pc[q]
    BY <1>2, <1>3, OthersRest DEF Patch, Goto, PromiseInv, TypeOK, Running
  <2> QED
    BY <1>1, <2>1 DEF PromiseInv, Progress, Running
<1>6. CASE n > Len(s)
  <2>1. n - 1 = Len(s)
    BY <1>2, <1>3, <1>6
  <2>2. t = CompleteTree(Path(b))
    BY <1>2, <1>3, <2>1, UnpackedIsComplete
  <2>3. pc'[b] = "rename" /\ temps' = temps
    BY <1>2, <1>3, <1>6 DEF Patch, Goto, TypeOK
  <2> QED
    BY <1>1, <1>2, <1>4, <1>5, <2>2, <2>3 DEF Progress
<1>7. CASE n <= Len(s)
  <2> DEFINE patch == s[n]
             works == patch \in Applies[a]
  <2>1. n \in 1..Len(s) /\ ~(n > Len(s))
    BY <1>2, <1>3, <1>7
  <2>2. /\ temps' = IF works THEN [temps EXCEPT ![Path(b)].applied = Append(@, patch)] ELSE temps
        /\ \/ next' = [next EXCEPT ![b] = @ + 1] /\ UNCHANGED pc
           \/ Goto(b, "patchFailed")
    BY <1>3, <2>1 DEF Patch
  <2>3. AppliedBy(a, s)[n] = AppliedNext(a, s, AppliedBy(a, s)[n - 1], n)
    BY <1>2, <2>1, AppliedUnfolded
  <2>4. t.applied = AppliedBy(a, s)[n - 1]
    BY <1>3 DEF Unpacked
  <2>5. temps'[Path(b)] = Unpacked(b, n)
    <3>1. CASE works
      <4>1. temps'[Path(b)] = [t EXCEPT !.applied = Append(@, patch)]
        BY <1>2, <2>2, <3>1 DEF TypeOK
      <4>2. AppliedBy(a, s)[n] = Append(t.applied, patch)
        BY <2>3, <2>4, <3>1 DEF AppliedNext
      <4>3. t \in Trees /\ Append(t.applied, patch) \in Seq(Patches)
        BY <1>2, <2>1 DEF TypeOK, Trees
      <4>4. [t EXCEPT !.applied = Append(@, patch)]
              = [archive |-> t.archive, applied |-> Append(t.applied, patch), whole |-> t.whole,
                 stale |-> t.stale, edited |-> t.edited]
        <5>1. \A x \in Trees, l \in Seq(Patches) :
                [x EXCEPT !.applied = l]
                  = [archive |-> x.archive, applied |-> l, whole |-> x.whole,
                     stale |-> x.stale, edited |-> x.edited]
          BY DEF Trees
        <5> QED
          BY <4>3, <5>1
      <4>5. t.archive = a /\ t.whole = TRUE /\ t.stale = FALSE /\ t.edited = FALSE
        BY <1>3 DEF Unpacked
      <4> QED
        BY <4>1, <4>2, <4>4, <4>5 DEF Unpacked
    <3>2. CASE ~works
      BY <1>3, <2>2, <2>3, <3>2 DEF AppliedNext, Unpacked
    <3> QED
      BY <3>1, <3>2
  <2>6. Unpacked(b, n)' = Unpacked(b, n') \/ pc'[b] = "patchFailed"
    BY <1>1, <1>2, <2>2 DEF Unpacked, Goto, TypeOK
  <2>7. CASE next' = [next EXCEPT ![b] = @ + 1] /\ UNCHANGED pc
    <3>1. next'[b] = n + 1 /\ (n + 1) - 1 = n /\ pc'[b] = "patch"
      BY <1>2, <1>3, <2>1, <2>7 DEF TypeOK
    <3>2. temps'[Path(b)'] = Unpacked(b, n) /\ trees'[Path(b)'] = Nothing /\ given'[b] = Nothing
      BY <1>1, <1>2, <2>5
    <3>3. Progress(b)'
      BY <1>1, <3>1, <3>2 DEF Progress, Unpacked
    <3> QED
      BY <1>1, <1>4, <1>5, <3>3
  <2>8. CASE Goto(b, "patchFailed")
    <3>1. pc'[b] = "patchFailed" /\ given'[b] = Nothing
      BY <1>1, <1>2, <2>8 DEF Goto, TypeOK
    <3>2. Progress(b)'
      BY <3>1 DEF Progress
    <3> QED
      BY <1>1, <1>4, <1>5, <3>2
  <2> QED
    BY <2>2, <2>7, <2>8
<1> QED
  BY <1>2, <1>3, <1>6, <1>7

\* After the rename the call only clears up; and it may be killed anywhere.
LEMMA ClosingSteps ==
  ASSUME PromiseInv, NEW b \in Builds, RemoveTemp(b) \/ Kill(b)
  PROVE  (\A p \in Paths : TreeIsSound(p)') /\ (\A q \in Builds : Progress(q)')
         /\ UNCHANGED <<opt, trees, given>>
<1>1. /\ UNCHANGED <<opt, trees, given>> /\ \A q \in Builds : Path(q)' = Path(q)
      /\ pc[b] \in Running /\ pc[b] # "done"
  BY DEF RemoveTemp, Kill, Path, Running
<1>2. \A p \in Paths : TreeIsSound(p)'
  BY <1>1 DEF PromiseInv, TreeIsSound
<1>3. Progress(b)'
  BY <1>1 DEF RemoveTemp, Kill, Goto, PromiseInv, SrcInv, TypeOK, Progress
<1>4. \A q \in Builds \ {b} : Progress(q)'
  <2>1. \A q \in Builds \ {b} : pc[q] \notin Running /\ pc'[q] = pc[q]
    BY <1>1, OthersRest DEF RemoveTemp, Kill, Goto, PromiseInv, SrcInv, TypeOK
  <2> QED
    BY <1>1, <2>1 DEF PromiseInv, Progress, Running
<1> QED
  BY <1>1, <1>2, <1>3, <1>4

\* A directory that is removed is no tree any more at the first step.
LEMMA CleanDiscards ==
  ASSUME PromiseInv, NEW b \in Builds, Clean(b)
  PROVE  (\A p \in Paths : TreeIsSound(p)') /\ (\A q \in Builds : Progress(q)')
         /\ Promise!Discard(Path(b))
<1> DEFINE P == Path(b)
<1>1. /\ TypeOK /\ P \in Paths /\ P.clean /\ pc[b] = "clean" /\ given[b] = Nothing
      /\ \A q \in Builds : Path(q) \in Paths
  BY ArgumentTypes DEF PromiseInv, SrcInv, Work, Clean, Progress
<1>2. PICK t \in Removals(trees[P]) :
        /\ trees' = [trees EXCEPT ![P] = t]
        /\ Goto(b, IF t = Nothing THEN "clearTemp" ELSE "clean")
  BY DEF Clean
<1>3. UNCHANGED <<opt, given>> /\ \A q \in Builds : Path(q)' = Path(q)
  BY DEF Clean, Path
<1>4. ~trees[P].edited /\ trees[P] \in Trees
  BY <1>1, PromisedTrees DEF PromiseInv, TreeIsSound, TypeOK
<1>5. ~t.edited /\ ~t.whole /\ Visible(t) = Nothing
  BY <1>2, <1>4, PromisedTrees DEF Removals, Trees, Nothing, Visible
<1>6. \A p \in Paths : TreeIsSound(p)'
  BY <1>1, <1>2, <1>5 DEF PromiseInv, TreeIsSound, TypeOK
<1>7. pc'[b] \in {"clearTemp", "clean"} /\ (pc'[b] = "clearTemp" => trees'[P] = Nothing)
  BY <1>1, <1>2 DEF Goto, TypeOK
<1>8. Progress(b)'
  BY <1>1, <1>3, <1>7 DEF Progress
<1>9. \A q \in Builds \ {b} : Progress(q)'
  <2>1. \A q \in Builds \ {b} : pc[q] \notin Running /\ pc'[q] = pc[q]
    BY <1>1, <1>2, OthersRest DEF Goto, PromiseInv, TypeOK, Running
  <2> QED
    BY <1>3, <2>1 DEF PromiseInv, Progress, Running
<1>10. Promise!Discard(P)
  <2>1. [p \in Paths |-> Visible(trees'[p])]
          = [[p \in Paths |-> Visible(trees[p])] EXCEPT ![P] = Nothing]
    BY <1>1, <1>2, <1>5 DEF TypeOK
  <2>2. P \notin {p \in Paths : ~p.clean}
    BY <1>1
  <2>3. Visible(trees'[P]) = Visible(t)
    BY <1>1, <1>2 DEF TypeOK
  <2> QED
    BY <1>3, <2>1, <2>2 DEF Promise!Discard, Visible
<1> QED
  BY <1>6, <1>8, <1>9, <1>10

\* The rename publishes the promised tree where there was nothing.
LEMMA RenamePublishes ==
  ASSUME PromiseInv, NEW b \in Builds, Rename(b)
  PROVE  (\A p \in Paths : TreeIsSound(p)') /\ (\A q \in Builds : Progress(q)')
         /\ Promise!Publish(Path(b))
<1> DEFINE P == Path(b)
<1>1. /\ TypeOK /\ P \in Paths /\ pc[b] = "rename" /\ given[b] = Nothing
      /\ trees[P] = Nothing /\ temps[P] = CompleteTree(P)
  BY ArgumentTypes DEF PromiseInv, SrcInv, Rename, Progress
<1>2. /\ trees' = [trees EXCEPT ![P] = CompleteTree(P)] /\ pc' = [pc EXCEPT ![b] = "removeTemp"]
      /\ UNCHANGED <<opt, given>> /\ \A q \in Builds : Path(q)' = Path(q)
  BY <1>1 DEF Rename, Goto, Path
<1>3. \A p \in Paths : TreeIsSound(p)'
  BY <1>1, <1>2 DEF PromiseInv, TreeIsSound, TypeOK
<1>4. Progress(b)'
  BY <1>1, <1>2 DEF Progress, TypeOK
<1>5. \A q \in Builds \ {b} : Progress(q)'
  <2>1. \A q \in Builds \ {b} : pc[q] \notin Running /\ pc'[q] = pc[q]
    BY <1>1, <1>2, OthersRest DEF PromiseInv, TypeOK, Running
  <2> QED
    BY <1>2, <2>1 DEF PromiseInv, Progress, Running
<1>6. Promise!Publish(P)
  <2>1. Visible(CompleteTree(P)) = CompleteTree(P) /\ Visible(Nothing) = Nothing
    BY <1>1, PromisedTrees
  <2>2. [p \in Paths |-> Visible(trees'[p])]
          = [[p \in Paths |-> Visible(trees[p])] EXCEPT ![P] = CompleteTree(P)]
    BY <1>1, <1>2, <2>1 DEF TypeOK
  <2>3. [p \in Paths |-> Visible(trees[p])][P] = Nothing
    BY <1>1, <2>1
  <2> QED
    BY <1>1, <1>2, <2>2, <2>3 DEF Promise!Publish, Visible
<1> QED
  BY <1>3, <1>4, <1>5, <1>6

\* A call returns the tree at its path.
LEMMA ReturnGives ==
  ASSUME PromiseInv, NEW b \in Builds, Return(b)
  PROVE  (\A p \in Paths : TreeIsSound(p)') /\ (\A q \in Builds : Progress(q)')
         /\ Promise!Give(b)
<1> DEFINE P == Path(b)
           Seen(t) == IF t.edited THEN EditedTree ELSE t
<1>1. /\ TypeOK /\ P \in Paths /\ pc[b] = "return" /\ given[b] = Nothing
      /\ trees[P] = CompleteTree(P) \/ trees[P].edited
  BY ArgumentTypes DEF PromiseInv, SrcInv, Return, Progress
<1>2. /\ given' = [given EXCEPT ![b] = trees[P]] /\ pc' = [pc EXCEPT ![b] = "done"]
      /\ UNCHANGED <<opt, trees>> /\ \A q \in Builds : Path(q)' = Path(q)
  BY DEF Return, Goto, Path
<1>3. \A p \in Paths : TreeIsSound(p)'
  BY <1>2 DEF PromiseInv, TreeIsSound
<1>4. Progress(b)'
  BY <1>1, <1>2 DEF Progress, TypeOK
<1>5. \A q \in Builds \ {b} : Progress(q)'
  <2>1. \A q \in Builds \ {b} : pc[q] \notin Running /\ pc'[q] = pc[q] /\ given'[q] = given[q]
    BY <1>1, <1>2, OthersRest DEF PromiseInv, TypeOK, Running
  <2> QED
    BY <1>2, <2>1 DEF PromiseInv, Progress, Running
<1>6. Promise!Give(b)
  <2>1. Seen(trees[P]) = Visible(trees[P]) /\ Visible(trees[P]) # Nothing /\ Seen(Nothing) = Nothing
    BY <1>1, PromisedTrees DEF Visible
  <2>2. [q \in Builds |-> Seen(given'[q])]
          = [[q \in Builds |-> Seen(given[q])] EXCEPT ![b] = Visible(trees[P])]
    BY <1>1, <1>2, <2>1 DEF TypeOK
  <2>3. [q \in Builds |-> Seen(given[q])][b] = Nothing
    BY <1>1, <2>1
  <2>4. [p \in Paths |-> Visible(trees[p])][[q \in Builds |-> Path(q)][b]] = Visible(trees[P])
    BY <1>1
  <2>5. UNCHANGED <<[q \in Builds |-> Path(q)], [p \in Paths |-> Visible(trees[p])]>>
    BY <1>2 DEF Visible
  <2>6. [q \in Builds |-> Seen(given[q])]'
          = [[q \in Builds |-> Seen(given[q])] EXCEPT
               ![b] = [p \in Paths |-> Visible(trees[p])][[q \in Builds |-> Path(q)][b]]]
    BY <2>2, <2>4
  <2>7. [p \in Paths |-> Visible(trees[p])][[q \in Builds |-> Path(q)][b]] # Nothing
    BY <2>1, <2>4
  <2> QED
    BY <2>3, <2>5, <2>6, <2>7 DEF Promise!Give
<1> QED
  BY <1>3, <1>4, <1>5, <1>6

\* A user edits a tree that is there.
LEMMA EditEdits ==
  ASSUME PromiseInv, NEW P \in Paths, Edit(P)
  PROVE  (\A p \in Paths : TreeIsSound(p)') /\ (\A q \in Builds : Progress(q)')
         /\ Promise!Edit(P)
<1> DEFINE e == [trees[P] EXCEPT !.edited = TRUE]
<1>1. /\ TypeOK /\ ~P.clean /\ trees[P] # Nothing /\ e.edited
      /\ \A b \in Builds : Path(b) \in Paths
  BY ArgumentTypes DEF PromiseInv, SrcInv, Edit, TypeOK, Trees
<1>2. trees' = [trees EXCEPT ![P] = e] /\ UNCHANGED <<opt, pc, next, temps, given>>
      /\ \A b \in Builds : Path(b)' = Path(b)
  BY DEF Edit, Path
<1> HIDE DEF e
<1>3. \A p \in Paths : TreeIsSound(p)'
  BY <1>1, <1>2 DEF PromiseInv, TreeIsSound, TypeOK
<1>4. \A p \in Paths : trees'[p] = IF p = P THEN e ELSE trees[p]
  BY <1>2 DEF PromiseInv, SrcInv, TypeOK
<1>5. ASSUME NEW b \in Builds PROVE Progress(b)'
  <2>1. Unpacked(b, 0)' = Unpacked(b, 0) /\ Unpacked(b, next[b] - 1)' = Unpacked(b, next[b] - 1)
    BY <1>2 DEF Unpacked
  <2> QED
    BY <1>1, <1>2, <1>4, <2>1 DEF PromiseInv, Progress
<1>6. Promise!Edit(P)
  <2>1. Visible(e) = EditedTree
    BY <1>1 DEF Visible
  <2>2. [p \in Paths |-> Visible(trees'[p])]
          = [[p \in Paths |-> Visible(trees[p])] EXCEPT ![P] = EditedTree]
    BY <1>4, <2>1
  <2>3. TreeIsSound(P)
    BY DEF PromiseInv
  <2>4. [p \in Paths |-> Visible(trees[p])][P] # Nothing
    BY <1>1, <2>3, PromisedTrees DEF TreeIsSound, Visible
  <2>5. P \in {p \in Paths : ~p.clean}
    BY <1>1
  <2> QED
    BY <1>2, <2>2, <2>4, <2>5 DEF Promise!Edit, Visible
<1> QED
  BY <1>3, <1>5, <1>6

\* Every step of a call or a user is one step of SourceTrees or none.
LEMMA PromiseStep ==
  PromiseInv /\ [Next]_vars => PromiseInv' /\ [Promise!Next]_Promise!vars
<1> SUFFICES ASSUME PromiseInv, [Next]_vars
             PROVE  PromiseInv' /\ [Promise!Next]_Promise!vars
  OBVIOUS
<1>1. SrcInv' /\ TypeOK /\ \A b \in Builds : Path(b) \in Paths
  BY SrcNextKeepsInv, ArgumentTypes DEF PromiseInv, SrcInv
<1>2. CASE UNCHANGED vars
  <2>1. UNCHANGED <<opt, pc, next, trees, temps, given>>
    BY <1>2 DEF vars
  <2>2. \A p : TreeIsSound(p)' <=> TreeIsSound(p)
    BY <2>1 DEF TreeIsSound
  <2>3. \A b : Progress(b)' <=> Progress(b)
    BY <2>1 DEF Progress, Unpacked, Path
  <2> QED
    BY <1>1, <2>1, <2>2, <2>3, SilentStep DEF PromiseInv
<1>3. ASSUME NEW b \in Builds, Step(b) \/ Kill(b)
      PROVE  PromiseInv' /\ [Promise!Next]_Promise!vars
  <2>1. Path(b) \in Paths
    BY <1>1
  <2>2. CASE Start(b) \/ Lookup(b) \/ ClearTemp(b) \/ Untar(b) \/ Unwrap(b)
    BY <1>1, <2>2, PrepareSteps, SilentStep, Zenon DEF PromiseInv
  <2>3. CASE Patch(b)
    BY <1>1, <2>3, PatchStep, SilentStep, Zenon DEF PromiseInv
  <2>4. CASE RemoveTemp(b) \/ Kill(b)
    BY <1>1, <2>4, ClosingSteps, SilentStep, Zenon DEF PromiseInv
  <2>5. CASE Clean(b)
    BY <1>1, <2>1, <2>5, CleanDiscards, Zenon DEF PromiseInv, Promise!Next
  <2>6. CASE Rename(b)
    BY <1>1, <2>1, <2>6, RenamePublishes, Zenon DEF PromiseInv, Promise!Next
  <2>7. CASE Return(b)
    BY <1>1, <2>7, ReturnGives, Zenon DEF PromiseInv, Promise!Next
  <2> QED
    BY <1>3, <2>2, <2>3, <2>4, <2>5, <2>6, <2>7 DEF Step
<1>4. ASSUME NEW p \in Paths, Edit(p) PROVE PromiseInv' /\ [Promise!Next]_Promise!vars
  BY <1>1, <1>4, EditEdits, Zenon DEF PromiseInv, Promise!Next
<1> QED
  BY <1>2, <1>3, <1>4 DEF Next

\* The directories on disk implement SourceTrees: whatever is interrupted, a tree
\* appears whole, with its own patches and in one step; edits are not thrown
\* away; and a call is given a whole tree of its own archive and patches.
THEOREM DirectoriesKeepPromise == Spec => KeepsPromise
<1>1. Init => PromiseInv /\ Promise!Init
  BY PromiseInitially
<1>2. PromiseInv /\ [Next]_vars => PromiseInv' /\ [Promise!Next]_Promise!vars
  BY PromiseStep
<1> QED
  BY <1>1, <1>2, PTL DEF Spec, KeepsPromise, Promise!Spec
=============================================================================
