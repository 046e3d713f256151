----------------------------- MODULE MCAppLocal -----------------------------
(***************************************************************************)
(* A small instance of AppLocal: two projects, each linked to one of two   *)
(* trees.  The main DLL of s1 needs both others, and its left needs main;  *)
(* the main DLL of s2 is newer and needs only right, and its right is      *)
(* older and needs left.  A main DLL of an earlier build needs right.      *)
(***************************************************************************)
EXTENDS AppLocal

CONSTANTS main, left, right, s1, s2

MCProvided == [s \in {s1, s2} |-> {main, left, right} \ (IF s = s1 THEN {} ELSE {left})]

MCTime ==
  [sf \in {s1, s2, Local} \X {main, left, right} |->
     CASE sf = <<s1, right>> \/ sf = <<s2, main>> -> 2
       [] sf[1] = Local -> 0
       [] OTHER -> 1]

MCDeps ==
  [sf \in {s1, s2, Local} \X {main, left, right, Root} |->
     CASE sf[2] = Root -> <<main>>
       [] sf = <<s1, main>> -> <<left, right>>
       [] sf = <<s1, left>> -> <<main>>
       [] sf = <<s2, main>> \/ sf = <<Local, main>> -> <<right>>
       [] sf = <<s2, right>> -> <<left>>
       [] OTHER -> <<>>]
=============================================================================
