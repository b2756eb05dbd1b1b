------------------------ MODULE MCControllerConfig ------------------------
(* One request of any kind beside one that logs in or switches SSH on; a   *)
(* count of failures at the last free one and next to the cap of the delay. *)
EXTENDS ControllerConfig, TLC

CONSTANTS R1, R2

MCRequests == {R1, R2}
MCKinds == R1 :> {"apput", "off", "password", "unset", "import", "login"}
             @@ R2 :> {"login", "on"}
MCSaves == R1 :> {"channel"} @@ R2 :> {"on"}
MCAttempts == {3, 9}
=============================================================================
