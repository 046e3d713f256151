--------------------------- MODULE ExtractSource ---------------------------
(***************************************************************************)
(* vcpkg_extract_source_archive (scripts/cmake): unpack an archive next to *)
(* its final path, patch it (z_vcpkg_apply_patches), and rename it into    *)
(* place.  A build is one call; vcpkg's lock keeps the calls for one build *)
(* tree apart, but each may be killed at any step, and what it leaves      *)
(* behind is what the next one finds.                                      *)
(***************************************************************************)
EXTENDS Naturals, Sequences

CONSTANTS
  Builds,    \* calls of vcpkg_extract_source_archive
  Archives,  \* archive contents, by hash
  Patches,   \* patch file contents, by hash
  Wrapped,   \* the archives with exactly one top-level directory
  Applies,   \* Applies[a]: the patches that apply to a
  Offered    \* the arguments the builds may have

\* PATCHES, NO_REMOVE_ONE_LEVEL, SKIP_PATCH_CHECK, the patches that are not
\* there, and whether vcpkg runs with --editable for this port.
Options == [archive : Archives, patches : Seq(Patches), missing : BOOLEAN,
            flat : BOOLEAN, quiet : BOOLEAN, editable : BOOLEAN]

ASSUME ArchiveAssumption ==
  /\ {"none", "empty"} \cap Archives = {}
  /\ Wrapped \subseteq Archives /\ Applies \in [Archives -> SUBSET Patches]
ASSUME OfferedAssumption == Offered \subseteq Options

VARIABLES
  opt,    \* opt[b]: the arguments of b
  pc,     \* pc[b]: where b is
  next,   \* next[b]: patchnum, the patch b applies next
  trees,  \* trees[p]: the directory at source path p
  temps,  \* temps[p]: the directory at p.tmp
  given   \* given[b]: what b found at the path it was handed

vars == <<opt, pc, next, trees, temps, given>>

\* <base>-<hash> is determined by the hash of the archive and the patches;
\* without --editable ".clean" is appended.
PathOf(o) == [archive |-> o.archive, patches |-> o.patches, clean |-> ~o.editable]
Paths == {PathOf(o) : o \in Offered}
Path(b) == PathOf(opt[b])

Nothing == [archive |-> "none", applied |-> <<>>, whole |-> FALSE,
            stale |-> FALSE, edited |-> FALSE]
Empty == [Nothing EXCEPT !.archive = "empty"]
Trees == [archive : Archives \cup {"none", "empty"}, applied : Seq(Patches),
          whole : BOOLEAN,   \* all files are there
          stale : BOOLEAN,   \* files of an earlier directory are among them
          edited : BOOLEAN]  \* the user changed them

Running == {"lookup", "clean", "clearTemp", "untar", "unwrap", "patch",
            "rename", "removeTemp", "return"}
Failures == {"missingPatch", "extractFailed", "unwrapFailed", "patchFailed",
             "killed"}

TypeOK ==
  /\ opt \in [Builds -> Offered]
  /\ pc \in [Builds -> {"idle", "done"} \cup Running \cup Failures]
  /\ next \in [Builds -> Nat]
  /\ trees \in [Paths -> Trees]
  /\ temps \in [Paths -> Trees]
  /\ given \in [Builds -> Trees]

Init ==
  /\ opt \in [Builds -> Offered]
  /\ pc = [b \in Builds |-> "idle"]
  /\ next = [b \in Builds |-> 1]
  /\ trees = [p \in Paths |-> Nothing]
  /\ temps = [p \in Paths |-> Nothing]
  /\ given = [b \in Builds |-> Nothing]

Goto(b, label) == pc' = [pc EXCEPT ![b] = label]

-----------------------------------------------------------------------------
Start(b) ==
  /\ pc[b] = "idle"
  /\ \A q \in Builds : pc[q] \notin Running
  /\ Goto(b, IF opt[b].missing THEN "missingPatch" ELSE "lookup")
  /\ UNCHANGED <<opt, next, trees, temps, given>>

\* An editable tree is used as it is; another one is removed first.
Lookup(b) ==
  /\ pc[b] = "lookup"
  /\ \/ trees[Path(b)] = Nothing /\ Goto(b, "clearTemp")
     \/ /\ trees[Path(b)] # Nothing
        /\ Goto(b, IF opt[b].editable THEN "return" ELSE "clean")
  /\ UNCHANGED <<opt, next, trees, temps, given>>

\* file(REMOVE_RECURSE) of a directory takes many steps.
Removals(t) == {Nothing, [t EXCEPT !.whole = FALSE]}

Clean(b) ==
  /\ pc[b] = "clean"
  /\ \E t \in Removals(trees[Path(b)]) :
       /\ trees' = [trees EXCEPT ![Path(b)] = t]
       /\ Goto(b, IF t = Nothing THEN "clearTemp" ELSE "clean")
  /\ UNCHANGED <<opt, next, temps, given>>

\* Mutated form of ClearTemp: what an earlier call left in .tmp stays.
KeepTemp(b) ==
  /\ pc[b] = "clearTemp"
  /\ temps' = [temps EXCEPT ![Path(b)] = IF @ = Nothing THEN Empty ELSE @]
  /\ Goto(b, "untar")
  /\ UNCHANGED <<opt, next, trees, given>>

\* file(REMOVE_RECURSE temp_dir), file(MAKE_DIRECTORY temp_dir).
ClearTemp(b) ==
  /\ pc[b] = "clearTemp"
  /\ \/ /\ temps[Path(b)] = Nothing
        /\ temps' = [temps EXCEPT ![Path(b)] = Empty]
        /\ Goto(b, "untar")
     \/ /\ temps[Path(b)] # Nothing
        /\ \E t \in Removals(temps[Path(b)]) :
             temps' = [temps EXCEPT ![Path(b)] = t]
        /\ UNCHANGED pc
  /\ UNCHANGED <<opt, next, trees, given>>

\* cmake -E tar: the files appear one by one; the archive may be corrupt.
Untar(b) ==
  /\ pc[b] = "untar"
  /\ \E w \in BOOLEAN :
       /\ temps' = [temps EXCEPT ![Path(b)] =
            [archive |-> opt[b].archive, applied |-> <<>>, whole |-> w,
             stale |-> @.stale \/ @.archive \in Archives, edited |-> FALSE]]
       /\ \/ w /\ Goto(b, "unwrap")
          \/ ~w /\ Goto(b, "extractFailed")
  /\ next' = [next EXCEPT ![b] = 1]
  /\ UNCHANGED <<opt, trees, given>>

\* Mutated form of Unwrap: the path of the directory is taken for its contents.
UnwrapPath(b) ==
  /\ pc[b] = "unwrap"
  /\ Goto(b, IF opt[b].flat \/ opt[b].archive \in Wrapped THEN "patch"
                                                         ELSE "unwrapFailed")
  /\ temps' = [temps EXCEPT ![Path(b)] = Path(b)]
  /\ UNCHANGED <<opt, next, trees, given>>

\* The single top-level directory is the tree, unless NO_REMOVE_ONE_LEVEL.
Unwrap(b) ==
  /\ pc[b] = "unwrap"
  /\ Goto(b, IF opt[b].flat \/ opt[b].archive \in Wrapped THEN "patch"
                                                         ELSE "unwrapFailed")
  /\ UNCHANGED <<opt, next, trees, temps, given>>

\* Mutated form of Patch: a patch that fails is always passed over.
PatchSilently(b) ==
  /\ pc[b] = "patch"
  /\ IF next[b] > Len(opt[b].patches) THEN Goto(b, "rename") /\ UNCHANGED <<next, temps>>
     ELSE LET patch == opt[b].patches[next[b]]
          IN  /\ temps' = IF patch \in Applies[opt[b].archive]
                          THEN [temps EXCEPT ![Path(b)].applied = Append(@, patch)]
                          ELSE temps
              /\ next' = [next EXCEPT ![b] = @ + 1]
              /\ UNCHANGED pc
  /\ UNCHANGED <<opt, trees, given>>

\* One round of the loop over PATCHES: git apply takes a patch whole or not at
\* all, and takes none again; QUIET goes on after a failure.
Patch(b) ==
  /\ pc[b] = "patch"
  /\ \/ next[b] > Len(opt[b].patches) /\ Goto(b, "rename") /\ UNCHANGED <<next, temps>>
     \/ /\ next[b] <= Len(opt[b].patches)
        /\ LET patch == opt[b].patches[next[b]]
               works == patch \in Applies[opt[b].archive] /\ ~temps[Path(b)].stale
           IN  /\ temps' = IF works
                           THEN [temps EXCEPT ![Path(b)].applied = Append(@, patch)]
                           ELSE temps
               /\ \/ /\ works \/ opt[b].quiet
                     /\ next' = [next EXCEPT ![b] = @ + 1]
                     /\ UNCHANGED pc
                  \/ ~works /\ ~opt[b].quiet /\ Goto(b, "patchFailed") /\ UNCHANGED next
  /\ UNCHANGED <<opt, trees, given>>

\* file(RENAME temp_source_path source_path): the one step a tree appears in.
\* The emptied wrapper stays behind if the top level was removed.
Rename(b) ==
  /\ pc[b] = "rename"
  /\ trees' = [trees EXCEPT ![Path(b)] = temps[Path(b)]]
  /\ temps' = [temps EXCEPT ![Path(b)] = IF opt[b].flat THEN Nothing ELSE Empty]
  /\ Goto(b, "removeTemp")
  /\ UNCHANGED <<opt, next, given>>

\* file(REMOVE_RECURSE temp_dir); the directory is empty by now.
RemoveTemp(b) ==
  /\ pc[b] = "removeTemp"
  /\ temps' = [temps EXCEPT ![Path(b)] = Nothing]
  /\ Goto(b, "return")
  /\ UNCHANGED <<opt, next, trees, given>>

Return(b) ==
  /\ pc[b] = "return"
  /\ given' = [given EXCEPT ![b] = trees[Path(b)]]
  /\ Goto(b, "done")
  /\ UNCHANGED <<opt, next, trees, temps>>

\* The vcpkg process is killed at any point.
Kill(b) ==
  /\ pc[b] \in Running
  /\ Goto(b, "killed")
  /\ UNCHANGED <<opt, next, trees, temps, given>>

\* The user of --editable works on a tree.
Edit(p) ==
  /\ ~p.clean
  /\ trees[p] # Nothing
  /\ trees' = [trees EXCEPT ![p].edited = TRUE]
  /\ UNCHANGED <<opt, pc, next, temps, given>>

Step(b) ==
  \/ Start(b) \/ Lookup(b) \/ Clean(b) \/ ClearTemp(b) \/ Untar(b) \/ Unwrap(b)
  \/ Patch(b) \/ Rename(b) \/ RemoveTemp(b) \/ Return(b)

Next ==
  \/ \E b \in Builds : Step(b) \/ Kill(b)
  \/ \E p \in Paths : Edit(p)

\* A running CMake script goes on unless it is killed.
Fairness == \A b \in Builds : WF_vars(Step(b))

Spec == Init /\ [][Next]_vars /\ Fairness

-----------------------------------------------------------------------------
\* AppliedBy(a, patches)[n]: those of the first n patches that apply to a.
AppliedBy(a, patches) ==
  LET applied[n \in 0..Len(patches)] ==
        IF n = 0 THEN <<>>
        ELSE IF patches[n] \in Applies[a] THEN Append(applied[n - 1], patches[n])
                                         ELSE applied[n - 1]
  IN applied

Applicable(a, patches) == AppliedBy(a, patches)[Len(patches)]

\* The tree a caller of path p is promised.
CompleteTree(p) ==
  [archive |-> p.archive, applied |-> Applicable(p.archive, p.patches),
   whole |-> TRUE, stale |-> FALSE, edited |-> FALSE]

EditedTree == [Nothing EXCEPT !.edited = TRUE]

\* An incomplete directory counts as none: it must never be given to a build.
Visible(t) ==
  IF t.edited THEN EditedTree ELSE IF t.whole THEN t ELSE Nothing

Promise == INSTANCE SourceTrees WITH
  Editable <- {p \in Paths : ~p.clean},
  Pristine <- [p \in Paths |-> CompleteTree(p)],
  Edited <- EditedTree,
  wanted <- [b \in Builds |-> Path(b)],
  trees <- [p \in Paths |-> Visible(trees[p])],
  given <- [b \in Builds |-> IF given[b].edited THEN EditedTree ELSE given[b]]

\* The directories on disk, through every interruption, implement SourceTrees:
\* a tree is published whole and with its own patches, edits are never thrown
\* away, and a build gets a whole tree of what it asked for.
KeepsPromise == Promise!Spec

\* Nothing an earlier call left behind makes a call fail: it fails only over
\* its own arguments, a corrupt archive, or being killed.
LeftoversAreHarmless ==
  \A b \in Builds :
    pc[b] = "patchFailed" =>
      \E i \in 1..Len(opt[b].patches) : opt[b].patches[i] \notin Applies[opt[b].archive]

\* A port without SKIP_PATCH_CHECK that is given a tree nobody edited is given
\* one with every patch applied, in order, unless a call with SKIP_PATCH_CHECK
\* made the --editable tree it reuses: the hash in the path does not tell the
\* two apart.
NoPatchIsLost ==
  \A b \in Builds :
    pc[b] = "done" /\ ~opt[b].quiet /\ ~given[b].edited =>
      \/ given[b].applied = opt[b].patches
      \/ opt[b].editable /\ \E q \in Builds : opt[q].quiet /\ Path(q) = Path(b)

\* A call whose archive unwraps and whose patches apply.
Sound(b) ==
  /\ opt[b].flat \/ opt[b].archive \in Wrapped
  /\ \A i \in 1..Len(opt[b].patches) : opt[b].patches[i] \in Applies[opt[b].archive]

\* A sound call comes to its end with a tree, however much rubbish it has to
\* clear away first, unless it is killed or its archive turns out corrupt.
SoundCallsFinish ==
  \A b \in Builds :
    (pc[b] = "lookup" /\ Sound(b)) ~> (pc[b] \in {"done", "killed", "extractFailed"})
=============================================================================
