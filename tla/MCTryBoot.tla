----------------------------- MODULE MCTryBoot -----------------------------
(***************************************************************************)
(* Instances of TryBoot for TLC: one image that stays up, one whose        *)
(* controller fails after a while, one whose controller never serves, one  *)
(* that never reaches userspace.                                           *)
(***************************************************************************)
EXTENDS TryBoot

MCImages == {"sound", "late", "early", "dead"}
MCBoots == {"sound", "late", "early"}
MCServes == {"sound", "late"}
MCSound == {"sound"}
=============================================================================
