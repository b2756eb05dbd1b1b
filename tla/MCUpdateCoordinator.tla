------------------------ MODULE MCUpdateCoordinator ------------------------
(***************************************************************************)
(* Instances of UpdateCoordinator for TLC.                                 *)
(***************************************************************************)
EXTENDS UpdateCoordinator

MCErrors == {"rejected"}
=============================================================================
