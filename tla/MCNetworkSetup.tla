--------------------------- MODULE MCNetworkSetup ---------------------------
(* A request that connects or disconnects and one of another kind, or two  *)
(* that connect; a scan that hears one name better the second time and one *)
(* worse, one beacon without a name, and two names equally well.           *)
EXTENDS NetworkSetup

CONSTANTS R1, R2

MCRequests == {R1, R2}
MCKinds == R1 :> {"connect", "disconnect"}
             @@ R2 :> {"connect", "scan", "softap", "ethernet"}

Beacon(ssid, signal, flags) == [ssid |-> ssid, signal |-> signal, flags |-> flags]

MCAir == {
  <<Beacon("a", -70, {"WPA"}), Beacon("b", -60, {"RSN"}), Beacon("a", -50, {"RSN", "SAE"}),
    Beacon("", -20, {}), Beacon("b", -80, {"WEP"}), Beacon("c", -50, {})>>}
=============================================================================
