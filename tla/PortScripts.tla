---------------------------- MODULE PortScripts ----------------------------
(***************************************************************************)
(* The three scripts with which a maintainer updates ports, side by side:  *)
(* PortUpdate, Kf6Update and SlangUpdate.  They have no file in common, so *)
(* a behaviour runs one of them, chosen at its start.                      *)
(***************************************************************************)
EXTENDS PortUpdate, Kf6Update, SlangUpdate

VARIABLE script_run    \* the script of this behaviour

ScriptsInit ==
  /\ Init /\ KfInit /\ SlangInit
  /\ script_run \in {"update_suitesparse", "update_kf6", "update_shas"}

ScriptsNext ==
  /\ UNCHANGED script_run
  /\ \/ script_run = "update_suitesparse" /\ Next /\ UNCHANGED <<kfVars, sVars>>
     \/ script_run = "update_kf6" /\ KfNext /\ UNCHANGED <<vars, sVars>>
     \/ script_run = "update_shas" /\ SlangNext /\ UNCHANGED <<vars, kfVars>>

scriptsVars == <<vars, kfVars, sVars, script_run>>

ScriptsSpec == ScriptsInit /\ [][ScriptsNext]_scriptsVars

\* The types of the three modules.
TypesOK == TypeOK /\ KfTypeOK /\ SlangTypeOK
=============================================================================
