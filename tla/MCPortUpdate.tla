---------------------------- MODULE MCPortUpdate ----------------------------
(***************************************************************************)
(* Small instances of the three scripts that update ports: PortUpdate with *)
(* three releases, the second without a new version of amd, the third      *)
(* without one of graphblas; Kf6Update with two ports; SlangUpdate with    *)
(* three blocks.                                                           *)
(***************************************************************************)
EXTENDS PortScripts

CONSTANTS amd, graphblas, kplotting, kwallet

MCVersion ==
  [rl \in (1..3) \X {amd, graphblas} |->
     IF rl[2] = amd THEN (IF rl[1] = 3 THEN 2 ELSE 1) ELSE (IF rl[1] = 1 THEN 1 ELSE 2)]

MCKfList == <<kplotting, kwallet>>
=============================================================================
