----------------------------- MODULE MCOtaLoop -----------------------------
(***************************************************************************)
(* Instances of OtaLoop for TLC: an old and a new sound release, and one   *)
(* between them that comes up and whose controller starts, confirms itself *)
(* or not, and fails before it serves anything.                            *)
(***************************************************************************)
EXTENDS OtaLoop

MCSound == {"v1", "v3"}
MCWithCrash == MCSound \cup {"crash"}
MCBetween == [v1 |-> 1, crash |-> 2, v3 |-> 3]
=============================================================================
