---------------------------- MODULE MCPortBuild ----------------------------
(***************************************************************************)
(* Small instances of PortBuild: the debug and the release command of a    *)
(* port, and builds enough for the leftovers of two to meet in a third.    *)
(***************************************************************************)
EXTENDS PortBuild
=============================================================================
