---------------------------- MODULE SourceTrees ----------------------------
(***************************************************************************)
(* What vcpkg_extract_source_archive promises its callers, whatever was    *)
(* interrupted before: at the path of a patched archive there is either    *)
(* nothing or a complete tree, trees appear in one step, only trees nobody *)
(* may have edited are discarded, and a build is given a complete tree of  *)
(* its own archive and patches.                                            *)
(***************************************************************************)
EXTENDS Naturals

CONSTANTS
  Builds,
  Paths,        \* the paths of source trees
  Editable,     \* the paths whose trees a user may edit
  Nothing,      \* no tree
  Pristine,     \* Pristine[p]: what unpacking and patching makes for path p
  Edited        \* what the user makes of a tree

VARIABLES
  wanted,       \* wanted[b]: the path that build b asks for
  trees,        \* trees[p]: Nothing, Pristine[p] or Edited
  given         \* given[b]: the tree that build b was given

vars == <<wanted, trees, given>>

Init ==
  /\ wanted \in [Builds -> Paths]
  /\ trees = [p \in Paths |-> Nothing]
  /\ given = [b \in Builds |-> Nothing]

Publish(p) ==
  /\ trees[p] = Nothing
  /\ trees' = [trees EXCEPT ![p] = Pristine[p]]
  /\ UNCHANGED <<wanted, given>>

Discard(p) ==
  /\ p \notin Editable
  /\ trees' = [trees EXCEPT ![p] = Nothing]
  /\ UNCHANGED <<wanted, given>>

Edit(p) ==
  /\ p \in Editable
  /\ trees[p] # Nothing
  /\ trees' = [trees EXCEPT ![p] = Edited]
  /\ UNCHANGED <<wanted, given>>

Give(b) ==
  /\ given[b] = Nothing
  /\ trees[wanted[b]] # Nothing
  /\ given' = [given EXCEPT ![b] = trees[wanted[b]]]
  /\ UNCHANGED <<wanted, trees>>

Next ==
  \/ \E p \in Paths : Publish(p) \/ Discard(p) \/ Edit(p)
  \/ \E b \in Builds : Give(b)

Spec == Init /\ [][Next]_vars
=============================================================================
