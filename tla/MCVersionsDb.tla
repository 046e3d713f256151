---------------------------- MODULE MCVersionsDb ----------------------------
(***************************************************************************)
(* A small instance of VersionsDb: any history of two commits of three     *)
(* interchangeable ports, and a pool of two processes.                     *)
(***************************************************************************)
EXTENDS VersionsDb, TLC

Symmetry == Permutations(Ports)
=============================================================================
