--------------------------- MODULE MCUpdateClient ---------------------------
(***************************************************************************)
(* Instances of UpdateClient for TLC: the user sends a newer release, a    *)
(* second build of the running commit (the controller then reports the     *)
(* same version), or an image that may not come up.                        *)
(***************************************************************************)
EXTENDS UpdateClient

MCSlots == {"rootfs.0", "rootfs.1"}
MCMine == {"next", "twin", "dud"}
MCSound == {"old", "other", "next", "twin"}
MCImages == MCSound \cup MCMine
MCDescribe == [i \in MCImages |-> IF i \in {"old", "twin"} THEN "a" ELSE i]
=============================================================================
