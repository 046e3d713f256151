---------------------------- MODULE MCOsxBundle ----------------------------
(***************************************************************************)
(* A small instance of OsxBundle: "app" needs x; x and z need each other;  *)
(* z and the framework qt need each other too, and z needs a system        *)
(* library; "libapp" has the executable's name in its own, so that only    *)
(* the walk comes to it, and to w, which it needs.                         *)
(***************************************************************************)
EXTENDS OsxBundle

CONSTANTS x, z, qt, libapp, w, sys

MCDeps ==
  [b \in Binaries |->
     CASE b = Exe -> <<x, libapp>>
       [] b = x -> <<x, z>>
       [] b = z -> <<sys, x, qt>>
       [] b = qt -> <<z>>
       [] b = libapp -> <<w>>
       [] OTHER -> <<>>]

MCContains ==
  [b \in Binaries |-> IF b = Exe THEN {libapp} ELSE {b}]
=============================================================================
