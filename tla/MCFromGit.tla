----------------------------- MODULE MCFromGit -----------------------------
(***************************************************************************)
(* A small instance of FromGit: two builds, of one port or of two, in a    *)
(* repository with two commits of which c2 has c1 in its history, a branch *)
(* that a push can move to either, and an abbreviation of c1.              *)
(***************************************************************************)
EXTENDS FromGit

CONSTANTS p, q, c1, c2, main, abbrev

MCExpand == [s \in {abbrev} |-> c1]
MCHistory == [c \in {c1, c2} |-> IF c = c2 THEN {c1, c2} ELSE {c1}]

Plain(port, ref, fetchRef) ==
  [port |-> port, ref |-> ref, fetchRef |-> fetchRef, headRef |-> Absent,
   useHead |-> FALSE, noDownloads |-> FALSE]
Head(ref, useHead, noDownloads) ==
  [port |-> p, ref |-> ref, fetchRef |-> Absent, headRef |-> main,
   useHead |-> useHead, noDownloads |-> noDownloads]

MCOffered ==
  {Plain(p, c1, Absent), Plain(q, c1, main), Plain(p, c1, main),
   Plain(p, abbrev, main), Plain(p, main, Absent), Plain(p, Absent, main),
   [Plain(p, c1, Absent) EXCEPT !.noDownloads = TRUE],
   Head(Absent, FALSE, FALSE), Head(c1, TRUE, FALSE), Head(Absent, TRUE, TRUE)}
    \cup {[Plain(p, c1, f) EXCEPT !.useHead = TRUE] : f \in {main, Absent}}
    \cup {[Plain(p, c2, Absent) EXCEPT !.useHead = TRUE]}
=============================================================================
