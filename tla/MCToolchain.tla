---------------------------- MODULE MCToolchain ----------------------------
(***************************************************************************)
(* A small instance of Toolchain: a build directory, and a user who        *)
(* bootstraps its root by hand at any time, which is all that a configure  *)
(* of another build directory would do to the root.                        *)
(***************************************************************************)
EXTENDS Toolchain

CONSTANTS app, user

MCMaxConfigures == [d \in {app} |-> 4]

MCOptions ==
  [d \in {app} |->
     {c \in Entries :
        c.dir = Unset /\ c.check = Unset /\ c.install # "ON" /\ ~c.root}]
=============================================================================
