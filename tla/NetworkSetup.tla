---------------------------- MODULE NetworkSetup ----------------------------
(***************************************************************************)
(* The setup access point and the network settings (network.rs,            *)
(* captive_dns.rs, manage_setup_ap in main.rs, the network part of         *)
(* system.rs): the startup task that opens the access point on a device    *)
(* nobody can reach, the teardown that a new Wi-Fi connection or a working *)
(* link brings, and requests that change the same files and units          *)
(* meanwhile.                                                              *)
(* Simplifications:                                                        *)
(*   - one wireless and one wired interface; an address stands for its     *)
(*     kind; the access point's address is there once networkd has applied *)
(*     its profile, as ConfigureWithoutCarrier asks;                       *)
(*   - hostapd and wpa_supplicant may be active at the same time, but then *)
(*     the radio serves neither (network.rs:89);                           *)
(*   - a file write and the reads of one status query are one step; files  *)
(*     can be written, commands may fail;                                  *)
(*   - names, passphrases and the country are left out, a refused          *)
(*     passphrase or an unsupported text is a refused request.             *)
(***************************************************************************)
EXTENDS Integers, SequencesExt

CONSTANTS
  Requests,    \* requests of the pages, one each,
  Kinds,       \* and what each may be
  None,
  Boot,        \* the startup task
  Air,         \* what a scan may read: sequences of beacons
  Waits,       \* how often the startup task looks for a link (10 in the code)
  MaxFaults,   \* bounds: failing commands, controller restarts and reboots;
  MaxCables    \* changes of the wired link

Tasks == Requests \cup {Boot}

ASSUME TasksAssumption == {None, Boot} \cap Requests = {} /\ None # Boot
ASSUME AirAssumption ==
  Air \subseteq Seq([ssid : STRING, signal : Int, flags : SUBSET STRING])
ASSUME BoundsAssumption ==
  {Waits, MaxFaults, MaxCables} \subseteq Nat
-----------------------------------------------------------------------------
(* What a scan shows (parse_scan_results, parse_security): of each name    *)
(* the strongest beacon, the strongest first.                              *)
Security(flags) ==
  IF flags \cap {"SAE", "WPA3"} # {} THEN "wpa3"
  ELSE IF flags \cap {"WPA2", "RSN"} # {} THEN "wpa2"
  ELSE IF "WPA" \in flags THEN "wpa"
  ELSE IF "WEP" \in flags THEN "wep" ELSE "open"

Entry(b) == [ssid |-> b.ssid, signal |-> b.signal, security |-> Security(b.flags)]

Noted(best, b) ==
  [s \in DOMAIN best \cup {b.ssid} |-> IF s = b.ssid THEN Entry(b) ELSE best[s]]

(* Mutant: the last beacon of a name counts. *)
Heard_Last(best, b) == IF b.ssid = "" THEN best ELSE Noted(best, b)

Heard(best, b) ==
  IF \/ b.ssid = ""
     \/ b.ssid \in DOMAIN best /\ b.signal <= best[b.ssid].signal
  THEN best ELSE Noted(best, b)

(* The entry of each name after the first i beacons. *)
Best(beacons) ==
  LET best[i \in 0..Len(beacons)] ==
        IF i = 0 THEN [s \in {} |-> None] ELSE Heard(best[i - 1], beacons[i])
  IN best[Len(beacons)]

(* The entries come out of the map in any order; the sort leaves those of  *)
(* equal strength as they came.                                            *)
ScanResults(beacons) ==
  LET best == Best(beacons)
  IN {list \in SetToSeqs({best[s] : s \in DOMAIN best}) :
        \A i, j \in DOMAIN list : i < j => list[i].signal >= list[j].signal}

Results == [heard \in Air |-> ScanResults(heard)]
-----------------------------------------------------------------------------
VARIABLES
  apFile, wifiFile, ethFile,
                      \* 15-ap, 20-wifi, 10-ethernet.network: whether they are there
  wpaConf,            \* wpa_supplicant.conf: none, base, or with a network
  softap,             \* softap.enabled in ctrl.toml
  loaded, applied,    \* the wireless profile networkd has read, has applied
  hostapd,            \* the unit is active
  supplicant,         \* off, or the configuration it runs with
  captive, resolved,  \* the catch-all DNS responder, systemd-resolved
  cable,              \* the wired interface has an address
  associated,         \* the supplicant has joined a network
  setup, waited,      \* manage_setup_ap, and how often it has looked
  teardown, lock,     \* stop_ap by task, and its lock
  op, pc,             \* by request: what it does, and where it is
  wired,              \* history: a connection was asked for by the cable
  shown,              \* the last scan: [heard, listed]
  faults, cables

profiles == <<apFile, wifiFile, wpaConf, ethFile>>
networkd == <<loaded, applied>>
radio == <<hostapd, supplicant, associated>>
dns == <<captive, resolved>>
startup == <<setup, waited>>
stopping == <<teardown, lock>>
pages == <<op, pc, wired, shown>>
outside == <<cable, cables, faults>>
vars == <<profiles, softap, networkd, radio, dns, startup, stopping, pages, outside>>

Init ==
  /\ apFile = FALSE /\ wifiFile = FALSE /\ wpaConf = "none" /\ ethFile = FALSE
  /\ softap = TRUE
  /\ loaded = "none" /\ applied = "none"
  /\ hostapd = FALSE /\ supplicant = "off" /\ associated = FALSE
  /\ captive = FALSE /\ resolved = TRUE
  /\ cable \in BOOLEAN
  /\ setup = "ethernet" /\ waited = 0
  /\ teardown = [t \in Tasks |-> "none"] /\ lock = None
  /\ op = [r \in Requests |-> "none"] /\ pc = [r \in Requests |-> "idle"]
  /\ wired = FALSE /\ shown = None
  /\ faults = 0 /\ cables = 0

(* networkd takes the first profile that matches the interface.            *)
Profile == IF apFile THEN "ap" ELSE IF wifiFile THEN "wifi" ELSE "none"

ApActive == apFile \/ hostapd

(* The address of the wireless interface.                                  *)
Address ==
  CASE applied = "ap" -> "ap"
    [] applied = "wifi" /\ associated -> "lan"
    [] OTHER -> "none"

(* get_wifi: connected, with an address, whichever it is; or ethernet.     *)
HasConnectivity == Address # "none" \/ cable

(* What has_connectivity is said to tell.                                  *)
RealLink == Address = "lan" \/ cable

Fault == faults < MaxFaults /\ faults' = faults + 1
Well == UNCHANGED faults
-----------------------------------------------------------------------------
(* Commands.  Starting the supplicant takes a configuration file; a        *)
(* restart that fails may have stopped it.                                 *)
StartSupplicant == supplicant' = IF supplicant # "off" THEN supplicant
                                 ELSE IF wpaConf = "none" THEN "off" ELSE wpaConf
RestartSupplicant == supplicant' = wpaConf /\ associated' = FALSE
FailedRestart ==
  \/ supplicant' = "off" /\ associated' = FALSE
  \/ UNCHANGED <<supplicant, associated>>

Reload == loaded' = Profile /\ UNCHANGED applied
Reconfigure == applied' = loaded /\ UNCHANGED loaded
-----------------------------------------------------------------------------
(* manage_setup_ap: the wired interface is given a profile, resolved makes *)
(* room for the responder, and a configured Wi-Fi is started; whether any  *)
(* of this worked, it goes on.                                             *)
Setup(from, to) == setup = from /\ setup' = to

SetupEthernet ==
  /\ Setup("ethernet", "resolved")
  /\ ethFile' = TRUE
  /\ \/ ~ethFile /\ Reload /\ Well
     \/ ~ethFile /\ Fault /\ UNCHANGED networkd
     \/ ethFile /\ Well /\ UNCHANGED networkd
  /\ UNCHANGED <<apFile, wifiFile, wpaConf, softap, radio, dns, waited, stopping,
                 pages, cable, cables>>

SetupResolved ==
  /\ Setup("resolved", "configured")
  /\ \/ resolved' = FALSE /\ Well
     \/ Fault /\ UNCHANGED resolved
  /\ UNCHANGED <<profiles, softap, networkd, radio, captive, waited, stopping,
                 pages, cable, cables>>

SetupConfigured ==
  /\ \/ Setup("configured", "client") /\ wpaConf = "net"
     \/ Setup("configured", "over") /\ wpaConf # "net" /\ ~softap
     \/ Setup("configured", "wait") /\ wpaConf # "net" /\ softap
  /\ UNCHANGED <<profiles, softap, networkd, radio, dns, waited, stopping, pages,
                 outside>>

SetupClient ==
  /\ Setup("client", "over")
  /\ \/ StartSupplicant /\ Well
     \/ Fault /\ UNCHANGED supplicant
  /\ UNCHANGED <<profiles, softap, networkd, hostapd, associated, dns, waited,
                 stopping, pages, cable, cables>>

SetupWait ==
  /\ waited' = waited + 1
  /\ \/ Setup("wait", "over") /\ waited < Waits /\ HasConnectivity
     \/ Setup("wait", "wait") /\ waited < Waits /\ ~HasConnectivity
     \/ Setup("wait", "profile") /\ waited = Waits
  /\ UNCHANGED <<profiles, softap, networkd, radio, dns, stopping, pages, outside>>

(* start_ap, without the lock of stop_ap.  A failing command ends the task *)
(* and undoes nothing; only the supplicant may fail to stop.               *)
ApProfile ==
  /\ Setup("profile", "reload")
  /\ apFile' = TRUE
  /\ UNCHANGED <<wifiFile, wpaConf, ethFile, softap, networkd, radio, dns, waited,
                 stopping, pages, outside>>

ApReload ==
  /\ \/ Setup("reload", "reconfigure") /\ Reload /\ Well
     \/ Setup("reload", "over") /\ Fault /\ UNCHANGED networkd
  /\ UNCHANGED <<profiles, softap, radio, dns, waited, stopping, pages, cable,
                 cables>>

ApReconfigure ==
  /\ \/ Setup("reconfigure", "supplicant") /\ Reconfigure /\ Well
     \/ Setup("reconfigure", "over") /\ Fault /\ UNCHANGED networkd
  /\ UNCHANGED <<profiles, softap, radio, dns, waited, stopping, pages, cable,
                 cables>>

ApSupplicant ==
  /\ Setup("supplicant", "hostapd")
  /\ \/ supplicant' = "off" /\ associated' = FALSE /\ Well
     \/ Fault /\ UNCHANGED <<supplicant, associated>>
  /\ UNCHANGED <<profiles, softap, networkd, hostapd, dns, waited, stopping, pages,
                 cable, cables>>

(* Mutant: the access point is not started again after a failure. *)
ApHostapd_Never ==
  /\ Setup("hostapd", "over")
  /\ UNCHANGED <<profiles, softap, networkd, radio, dns, waited, stopping, pages,
                 outside>>

ApHostapd ==
  /\ \/ Setup("hostapd", "dns") /\ hostapd' = TRUE /\ Well
     \/ Setup("hostapd", "over") /\ Fault /\ UNCHANGED hostapd
  /\ UNCHANGED <<profiles, softap, networkd, supplicant, associated, dns, waited,
                 stopping, pages, cable, cables>>

(* The responder binds the access point's address, or gives up.            *)
ApDns ==
  /\ Setup("dns", "watch")
  /\ captive' = (applied = "ap")
  /\ UNCHANGED <<profiles, softap, networkd, radio, resolved, waited, stopping,
                 pages, outside>>

(* The access point is closed once there is connectivity.                  *)
SetupWatch ==
  /\ HasConnectivity
  /\ Setup("watch", "over")
  /\ teardown' = [teardown EXCEPT ![Boot] = "wait"]
  /\ UNCHANGED <<profiles, softap, networkd, radio, dns, waited, lock, pages, outside>>
-----------------------------------------------------------------------------
(* stop_ap, by the startup task or by the deferred task of a connection.   *)
(* It holds the lock; a failing command ends it, but for the first.        *)
Stopping(t, from, to) ==
  /\ teardown[t] = from
  /\ teardown' = [teardown EXCEPT ![t] = to]
  /\ lock' = IF to = "none" THEN None ELSE t

Rest == <<wifiFile, wpaConf, ethFile, softap, startup, pages, cable, cables>>

(* Mutant: the profile alone tells whether there is something to stop. *)
StopCheck_Profile(t) ==
  /\ lock = None
  /\ \/ apFile /\ Stopping(t, "wait", "hostapd")
     \/ ~apFile /\ Stopping(t, "wait", "none")
  /\ UNCHANGED <<apFile, networkd, radio, dns, faults, Rest>>

StopCheck(t) ==
  /\ lock = None
  /\ \/ ApActive /\ Stopping(t, "wait", "hostapd")
     \/ ~ApActive /\ Stopping(t, "wait", "none")
  /\ UNCHANGED <<apFile, networkd, radio, dns, faults, Rest>>

StopHostapd(t) ==
  /\ Stopping(t, "hostapd", "profile")
  /\ \/ hostapd' = FALSE /\ Well
     \/ Fault /\ UNCHANGED hostapd
  /\ UNCHANGED <<apFile, networkd, supplicant, associated, dns, Rest>>

StopProfile(t) ==
  /\ Stopping(t, "profile", "reload")
  /\ captive' = FALSE
  /\ apFile' = FALSE
  /\ UNCHANGED <<networkd, radio, resolved, faults, Rest>>

StopReload(t) ==
  /\ \/ Stopping(t, "reload", "reconfigure") /\ Reload /\ Well
     \/ Stopping(t, "reload", "none") /\ Fault /\ UNCHANGED networkd
  /\ UNCHANGED <<apFile, radio, dns, Rest>>

StopReconfigure(t) ==
  /\ \/ Stopping(t, "reconfigure", "resolved") /\ Reconfigure /\ Well
     \/ Stopping(t, "reconfigure", "none") /\ Fault /\ UNCHANGED networkd
  /\ UNCHANGED <<apFile, radio, dns, Rest>>

StopResolved(t) ==
  /\ \/ Stopping(t, "resolved", "client") /\ resolved' = TRUE /\ Well
     \/ Stopping(t, "resolved", "none") /\ Fault /\ UNCHANGED resolved
  /\ UNCHANGED <<apFile, networkd, radio, captive, Rest>>

(* Mutant: the client is left to the next boot. *)
StopClient_Later(t) ==
  /\ Stopping(t, "client", "none")
  /\ UNCHANGED <<apFile, networkd, radio, dns, faults, Rest>>

StopClient(t) ==
  /\ Stopping(t, "client", "none")
  /\ \/ StartSupplicant /\ Well
     \/ Fault /\ UNCHANGED supplicant
  /\ UNCHANGED <<apFile, networkd, hostapd, associated, dns, Rest>>

StopAp(t) ==
  \/ StopCheck(t) \/ StopHostapd(t) \/ StopProfile(t) \/ StopReload(t)
  \/ StopReconfigure(t) \/ StopResolved(t) \/ StopClient(t)
-----------------------------------------------------------------------------
(* Requests: of a page that reaches the device by some way.                *)
Reached == RealLink \/ (hostapd /\ applied = "ap" /\ supplicant = "off")

Begin(r, what) ==
  /\ op[r] = "none" /\ Reached
  /\ op' = [op EXCEPT ![r] = what]
  /\ pc' = [pc EXCEPT ![r] = "begin"]
  /\ wired' = (wired \/ (cable /\ what = "connect"))
  /\ UNCHANGED <<profiles, softap, networkd, radio, dns, startup, stopping,
                 shown, outside>>

At(r, what, from, to) ==
  /\ op[r] = what /\ pc[r] = from
  /\ pc' = [pc EXCEPT ![r] = to]
  /\ UNCHANGED <<op, wired>>

Kept == <<apFile, ethFile, softap, hostapd, dns, startup, shown, cable, cables>>
Calmly == <<Kept, faults>>

(* connect_wifi.  With the access point up its teardown is deferred to a   *)
(* task of its own, so that the answer gets through.  Nothing holds the    *)
(* access point down from the look at it to the restart.                   *)
ConnectConf(r) ==
  /\ At(r, "connect", "begin", "wifi")
  /\ wpaConf' = "net"
  /\ UNCHANGED <<wifiFile, networkd, supplicant, associated, stopping, Calmly>>

ConnectProfile(r) ==
  /\ At(r, "connect", "wifi", "apply")
  /\ wifiFile' = TRUE
  /\ UNCHANGED <<wpaConf, networkd, supplicant, associated, stopping, Calmly>>

ConnectCheck(r) ==
  /\ \/ /\ ApActive
        /\ At(r, "connect", "apply", "over")
        /\ teardown' = [teardown EXCEPT ![r] = "wait"]
        /\ UNCHANGED lock
     \/ ~ApActive /\ At(r, "connect", "apply", "restart") /\ UNCHANGED stopping
  /\ UNCHANGED <<wifiFile, wpaConf, networkd, supplicant, associated, Calmly>>

ConnectRestart(r) ==
  /\ At(r, "connect", "restart", "over")
  /\ \/ RestartSupplicant /\ Well
     \/ FailedRestart /\ Fault
  /\ UNCHANGED <<wifiFile, wpaConf, networkd, stopping, Kept>>

(* disconnect_wifi: the profile goes once the supplicant is restarted.     *)
DisconnectConf(r) ==
  /\ At(r, "disconnect", "begin", "restart")
  /\ wpaConf' = "base"
  /\ UNCHANGED <<wifiFile, networkd, supplicant, associated, stopping, Calmly>>

DisconnectRestart(r) ==
  /\ \/ /\ At(r, "disconnect", "restart", "reload")
        /\ RestartSupplicant /\ wifiFile' = FALSE /\ Well
     \/ /\ At(r, "disconnect", "restart", "over")
        /\ FailedRestart /\ Fault /\ UNCHANGED wifiFile
  /\ UNCHANGED <<wpaConf, networkd, stopping, Kept>>

DisconnectReload(r) ==
  /\ \/ At(r, "disconnect", "reload", "reconfigure") /\ Reload /\ Well
     \/ At(r, "disconnect", "reload", "over") /\ Fault /\ UNCHANGED networkd
  /\ UNCHANGED <<wifiFile, wpaConf, supplicant, associated, stopping, Kept>>

DisconnectReconfigure(r) ==
  /\ At(r, "disconnect", "reconfigure", "over")
  /\ \/ Reconfigure /\ Well
     \/ Fault /\ UNCHANGED networkd
  /\ UNCHANGED <<wifiFile, wpaConf, supplicant, associated, stopping, Kept>>

(* scan_networks: not while the access point is up; a supplicant that does *)
(* not run is given a configuration, if it has none, and started.          *)
ScanCheck(r) ==
  /\ \/ ApActive /\ At(r, "scan", "begin", "over")
     \/ ~ApActive /\ supplicant # "off" /\ At(r, "scan", "begin", "read")
     \/ ~ApActive /\ supplicant = "off" /\ At(r, "scan", "begin", "look")
  /\ UNCHANGED <<wifiFile, wpaConf, networkd, supplicant, associated, stopping, Calmly>>

ScanLook(r) ==
  /\ \/ wpaConf = "none" /\ At(r, "scan", "look", "write")
     \/ wpaConf # "none" /\ At(r, "scan", "look", "start")
  /\ UNCHANGED <<wifiFile, wpaConf, networkd, supplicant, associated, stopping, Calmly>>

ScanWrite(r) ==
  /\ At(r, "scan", "write", "start")
  /\ wpaConf' = "base"
  /\ UNCHANGED <<wifiFile, networkd, supplicant, associated, stopping, Calmly>>

ScanStart(r) ==
  /\ \/ At(r, "scan", "start", "read") /\ StartSupplicant /\ Well
     \/ At(r, "scan", "start", "over") /\ Fault /\ UNCHANGED supplicant
  /\ UNCHANGED <<wifiFile, wpaConf, networkd, associated, stopping, Kept>>

ScanRead(r) ==
  /\ At(r, "scan", "read", "over")
  /\ IF supplicant = "off" THEN UNCHANGED shown
     ELSE \E heard \in Air : \E list \in Results[heard] :
            shown' = [heard |-> heard, listed |-> list]
  /\ UNCHANGED <<profiles, softap, networkd, radio, dns, startup, stopping,
                 outside>>

(* PUT /network/softap and PUT /network/ethernet.                          *)
PutSoftap(r) ==
  /\ At(r, "softap", "begin", "over")
  /\ \/ softap' = TRUE
     \/ HasConnectivity /\ softap' = FALSE
     \/ ~HasConnectivity /\ UNCHANGED softap
  /\ UNCHANGED <<profiles, networkd, radio, dns, startup, stopping, shown,
                 outside>>

PutEthernet(r) ==
  /\ At(r, "ethernet", "begin", "over")
  /\ ethFile' = TRUE
  /\ \/ Reload /\ Well
     \/ Fault /\ UNCHANGED networkd
  /\ UNCHANGED <<apFile, wifiFile, wpaConf, softap, radio, dns, startup, stopping,
                 shown, cable, cables>>

Step(r) ==
  \/ ConnectConf(r) \/ ConnectProfile(r) \/ ConnectCheck(r) \/ ConnectRestart(r)
  \/ DisconnectConf(r) \/ DisconnectRestart(r) \/ DisconnectReload(r)
  \/ DisconnectReconfigure(r)
  \/ ScanCheck(r) \/ ScanLook(r) \/ ScanWrite(r) \/ ScanStart(r) \/ ScanRead(r)
  \/ PutSoftap(r) \/ PutEthernet(r)
-----------------------------------------------------------------------------
(* The world.                                                              *)
Associate ==
  /\ supplicant = "net" /\ ~hostapd /\ ~associated
  /\ associated' = TRUE
  /\ UNCHANGED <<profiles, softap, networkd, hostapd, supplicant, dns, startup,
                 stopping, pages, outside>>

Cable ==
  /\ cables < MaxCables
  /\ cable' = ~cable /\ cables' = cables + 1
  /\ UNCHANGED <<profiles, softap, networkd, radio, dns, startup, stopping, pages,
                 faults>>

(* The controller ends, alone or with the device, and starts again.        *)
Restart ==
  /\ Fault
  /\ setup' = "ethernet" /\ waited' = 0
  /\ teardown' = [t \in Tasks |-> "none"] /\ lock' = None
  /\ pc' = [r \in Requests |-> IF op[r] = "none" THEN "idle" ELSE "over"]
  /\ captive' = FALSE
  /\ \/ UNCHANGED <<networkd, radio, resolved>>
     \/ /\ loaded' = Profile /\ applied' = Profile
        /\ hostapd' = FALSE /\ supplicant' = "off" /\ associated' = FALSE
        /\ resolved' = TRUE
  /\ UNCHANGED <<profiles, softap, op, wired, shown, cable, cables>>
-----------------------------------------------------------------------------
SetupTask ==
  \/ SetupEthernet \/ SetupResolved \/ SetupConfigured \/ SetupClient \/ SetupWait
  \/ ApProfile \/ ApReload \/ ApReconfigure \/ ApSupplicant \/ ApHostapd \/ ApDns
  \/ SetupWatch

Next ==
  \/ SetupTask
  \/ \E t \in Tasks : StopAp(t)
  \/ \E r \in Requests : Step(r) \/ \E what \in Kinds[r] : Begin(r, what)
  \/ Associate \/ Cable \/ Restart

Spec == Init /\ [][Next]_vars

(* Tasks go on; people, radio and faults come when they like.              *)
Fairness ==
  /\ WF_vars(SetupTask)
  /\ \A t \in Tasks : WF_vars(StopAp(t))
  /\ \A r \in Requests : WF_vars(Step(r))

FairSpec == Spec /\ Fairness
-----------------------------------------------------------------------------
Calm == faults = 0
Unplugged == cables > 0 /\ ~cable
Shared == hostapd /\ supplicant # "off"
Stranded == hostapd /\ applied # "ap"

(* network.rs:391: of every name that was heard a scan shows the strongest *)
(* beacon, once, the strongest first.                                      *)
StrongestShown ==
  shown # None =>
    LET list == shown.listed heard == ToSet(shown.heard)
    IN /\ {n.ssid : n \in ToSet(list)} = {b.ssid : b \in heard} \ {""}
       /\ \A i, j \in DOMAIN list : i < j =>
            list[i].ssid # list[j].ssid /\ list[i].signal >= list[j].signal
       /\ \A n \in ToSet(list) :
            /\ \A b \in heard : b.ssid = n.ssid => b.signal <= n.signal
            /\ \E b \in heard : /\ b.ssid = n.ssid /\ b.signal = n.signal
                                /\ Security(b.flags) = n.security

(* network.rs:252, 289-293: a Wi-Fi connection that was asked for ends     *)
(* for good with the access point gone and the client running; also when   *)
(* the access point was just being started, by a task that may take the    *)
(* radio back after the client was started (the close loop then stops it). *)
(* Exceptions: histories in which a command fails or the controller starts *)
(* again; and a cable by which a page asked and that was pulled since,     *)
(* which can leave hostapd running for good without its profile.  That the *)
(* client runs with the new network is said where nothing disconnects or   *)
(* scans: a disconnection undoes it, a scan that had found no              *)
(* configuration writes one over it (network.rs:203-214), and the teardown *)
(* only starts a supplicant, which either may have started with the old    *)
(* configuration.                                                          *)
Alone == \A r \in Requests : op[r] \notin {"disconnect", "scan"}
ClientMode == ~ApActive /\ supplicant # "off" /\ (Alone => supplicant = "net")
Connects ==
  (\E r \in Requests : op[r] = "connect" /\ pc[r] = "apply")
    ~> [](ClientMode \/ ~Calm \/ (Stranded /\ wired /\ ~cable))

(* main.rs:183: a device that nobody can reach opens the access point:     *)
(* unless a link comes, a command fails or the controller starts again,    *)
(* hostapd is started (not that it stays: the close loop takes the access  *)
(* point's own address for connectivity and stops it).                     *)
ApOpens == setup = "wait" ~> hostapd \/ RealLink \/ ~Calm

(* network.rs:89: that hostapd and the supplicant share the radio, after a *)
(* start and a teardown, a scan or a connection crossed, does not last and *)
(* in the end does not come back.  The close loop ends it, which takes the *)
(* access point's own address, or the cable, for connectivity;             *)
(* without it, and after a failing command, a restart or a pulled cable,   *)
(* the two may stay as they are.                                           *)
RadioSettles ==
  Shared ~> [](~Shared \/ ~Calm \/ Unplugged)
=============================================================================
