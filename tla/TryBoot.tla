------------------------------ MODULE TryBoot ------------------------------
(***************************************************************************)
(* Fail-safe A/B updates on the Raspberry Pi: the RAUC bootloader backend  *)
(* boot-handler.sh, the boot-time health gate rauc-commit.sh, the          *)
(* OnFailure= unit rauc-trial-failed.service, the reboot handlers of       *)
(* snapdog-ctrl, and, as their environment, RAUC, the firmware and power.  *)
(*                                                                         *)
(* One step of a shell script is one action, so a power loss, a reboot or  *)
(* a step of another process can come between any two of them.  Simpli-    *)
(* fications:                                                              *)
(*   - a boot file is a slot name, not text: cmdline.txt and               *)
(*     tryboot-cmdline.txt are the slot their root= selects, tryboot.txt   *)
(*     is present or not (its only content that matters is the pointer to  *)
(*     tryboot-cmdline.txt);                                               *)
(*   - programs see a write when its step is over, the medium only after   *)
(*     the sync at the end of with_boot_rw: a power loss before it leaves  *)
(*     each file as it is, as it was at the last sync, or without its      *)
(*     content (a tryboot.txt without content is taken for one whose       *)
(*     command line has none).  A shutdown by systemd and the tryboot      *)
(*     helper sync first.  What RAUC writes into a slot it syncs itself;   *)
(*   - config.txt and the remounting of /boot are left out;                *)
(*   - a slot's state is what get_state answers, "good" when no line is    *)
(*     there, so deleting the line (the first half of set_state) reads as  *)
(*     "good".                                                             *)
(***************************************************************************)
EXTENDS Naturals

CONSTANTS
  Images,        \* the bundles that can be installed
  Boots,         \* those whose kernel and userspace come up
  Serves,        \* those whose snapdog-ctrl comes to serve requests
  Sound,         \* those whose snapdog-ctrl stays up
  Partial,       \* a slot RAUC is writing, or stopped writing half-way
  NeedOk,        \* consecutive healthy probes required (NEED_OK)
  MaxProbes,     \* probe budget of one boot (MAX_PROBES)
  RestartProbes, \* probes that fit into one restart of snapdog-ctrl
  StartLimit,    \* StartLimitBurst of snapdog-ctrl.service
  MaxInstalls,   \* bounds of the environment: installs requested,
  MaxLosses,     \* power losses,
  MaxFailures,   \* transient failures (a sound controller, a slot write),
  MaxReboots,    \* reboots and factory resets requested
  WebPassword,   \* a web UI password is set
  MaxEarly,      \* installs begun before this boot's trial is settled
  TornCopy       \* a stop may leave cp's target truncated and not written

ASSUME ImagesAssumption == /\ Sound \subseteq Serves
                           /\ Serves \subseteq Boots
                           /\ Boots \subseteq Images
                           /\ Partial \notin Images
ASSUME ProbesAssumption == /\ NeedOk \in Nat \ {0}
                           /\ MaxProbes \in Nat
                           /\ NeedOk <= MaxProbes
                           /\ RestartProbes \in Nat
                           /\ StartLimit \in Nat \ {0}
ASSUME BoundsAssumption == /\ MaxInstalls \in Nat
                           /\ MaxLosses \in Nat
                           /\ MaxFailures \in Nat
                           /\ MaxReboots \in Nat
                           /\ MaxEarly \in Nat
ASSUME SwitchesAssumption == /\ WebPassword \in BOOLEAN
                             /\ TornCopy \in BOOLEAN

Slots == {"A", "B"}
None == "none"       \* no slot: a missing file, a machine that is off
Hung == "hung"       \* a boot that reached no userspace
Torn == "torn"       \* a command line that is there without its content

Other(s) == IF s = "A" THEN "B" ELSE "A"

VARIABLES
  \* on the boot partition
  cmdline, tryCmdline, tryTxt,
  \* on /data and in the slots
  slotState, image,
  \* the same files on their medium, as of the last sync
  cmdlineSynced, tryCmdlineSynced, tryTxtSynced, slotStateSynced,
  \* what came up, the firmware's one-shot flag, snapdog-ctrl
  booted, flag, ctrl, starts, downtime, onFailure,
  \* rauc-commit (and the boot-handler commit it runs)
  commitPc, okProbes, probes, trial,
  \* RAUC's installation, snapdog-ctrl's reboot handler
  installPc, bundle, rebootPc,
  \* what the environment has done so far
  installs, losses, failures, reboots, early,
  \* auxiliary: the image of a slot has passed the health gate
  proven

files == <<cmdline, tryCmdline, tryTxt>>
synced == <<cmdlineSynced, tryCmdlineSynced, tryTxtSynced, slotStateSynced>>
disk == <<slotState, image, synced>>
ctrlVars == <<ctrl, starts, downtime, onFailure>>
commitVars == <<commitPc, okProbes, probes, trial>>
installVars == <<installPc, bundle>>
bounds == <<installs, losses, failures, reboots, early>>
vars == <<files, disk, booted, flag, ctrlVars, commitVars, installVars,
          rebootPc, bounds, proven>>

Up == booted \in Slots
Target == Other(booted)    \* RAUC writes the slot that is not booted
TrialFiles == tryTxt \/ tryCmdline # None

TypeOK ==
  /\ cmdline \in Slots \cup {Torn}
  /\ cmdlineSynced \in Slots \cup {Torn}
  /\ tryCmdline \in Slots \cup {None, Torn}
  /\ tryCmdlineSynced \in Slots \cup {None, Torn}
  /\ tryTxt \in BOOLEAN /\ tryTxtSynced \in BOOLEAN
  /\ slotState \in [Slots -> {"good", "bad"}]
  /\ slotStateSynced \in [Slots -> {"good", "bad"}]
  /\ image \in [Slots -> Images \cup {Partial}]
  /\ booted \in Slots \cup {None, Hung}
  /\ flag \in BOOLEAN
  /\ ctrl \in {"down", "up", "failed"}
  /\ starts \in 0 .. StartLimit
  /\ downtime \in 0 .. RestartProbes
  /\ onFailure \in BOOLEAN
  /\ commitPc \in {"start", "probe", "good", "read", "truncate", "write",
                   "clearState", "setBad", "rmTxt", "rmCmdline", "sync", "done"}
  /\ okProbes \in 0 .. NeedOk
  /\ probes \in 0 .. MaxProbes
  /\ trial \in Slots \cup {None, Torn}
  /\ installPc \in {"idle", "setBad", "write", "writing", "armCmdline",
                    "armTxt", "armSync"}
  /\ bundle \in Images \cup {Partial}
  /\ rebootPc \in {"idle", "tryboot", "plain"}
  /\ installs \in 0 .. MaxInstalls
  /\ losses \in 0 .. MaxLosses
  /\ failures \in 0 .. MaxFailures
  /\ reboots \in 0 .. MaxReboots
  /\ early \in 0 .. MaxEarly
  /\ proven \in [Slots -> BOOLEAN]

(* A freshly flashed device: a sound image in slot A, which is committed. *)
Init ==
  /\ cmdline = "A"
  /\ \E i \in Sound : image = [s \in Slots |-> IF s = "A" THEN i ELSE Partial]
  /\ proven = [s \in Slots |-> s = "A"]
  /\ tryCmdline = None
  /\ tryTxt = FALSE
  /\ slotState = [s \in Slots |-> "good"]
  /\ cmdlineSynced = cmdline /\ tryCmdlineSynced = tryCmdline
  /\ tryTxtSynced = tryTxt /\ slotStateSynced = slotState
  /\ booted = None
  /\ flag = FALSE
  /\ ctrl = "down" /\ starts = 0 /\ downtime = 0 /\ onFailure = FALSE
  /\ commitPc = "start" /\ okProbes = 0 /\ probes = 0 /\ trial = None
  /\ installPc = "idle" /\ bundle = Partial
  /\ rebootPc = "idle"
  /\ installs = 0 /\ losses = 0 /\ failures = 0 /\ reboots = 0 /\ early = 0
-----------------------------------------------------------------------------
(* Firmware, power and the operating system around the programs.           *)

(* The firmware reads tryboot.txt instead of config.txt when the one-shot  *)
(* flag is set, and consumes the flag.  With the flag set and no           *)
(* tryboot.txt it falls back to its default command line, cmdline.txt.     *)
BootSlot == IF flag /\ tryTxt THEN tryCmdline ELSE cmdline

FirmwareBoot ==
  /\ booted = None
  /\ booted' = IF BootSlot \in Slots /\ image[BootSlot] \in Boots
               THEN BootSlot ELSE Hung
  /\ flag' = FALSE
  /\ UNCHANGED <<files, disk, ctrlVars, commitVars, installVars, rebootPc,
                 bounds, proven>>

(* sync: what programs see is on the medium. *)
Sync ==
  /\ cmdlineSynced' = cmdline'
  /\ tryCmdlineSynced' = tryCmdline'
  /\ tryTxtSynced' = tryTxt'
  /\ slotStateSynced' = slotState'

ProcessesDie ==
  /\ booted' = None
  /\ ctrl' = "down" /\ starts' = 0 /\ downtime' = 0 /\ onFailure' = FALSE
  /\ commitPc' = "start" /\ okProbes' = 0 /\ probes' = 0 /\ trial' = None
  /\ installPc' = "idle" /\ bundle' = Partial
  /\ rebootPc' = "idle"
  /\ UNCHANGED <<image, proven>>

(* A shutdown syncs.  A copy half done is left half done only where        *)
(* TornCopy allows the stop to fall there.                                 *)
GoDown(f) ==
  /\ TornCopy \/ commitPc # "write"
  /\ ProcessesDie
  /\ flag' = f
  /\ UNCHANGED <<files, slotState>>
  /\ Sync

(* What a power loss may leave of a file: each file is on its own, in      *)
(* whatever order the kernel wrote back.                                   *)
Left(now, then, broken) ==
  {now, then} \cup IF now = then THEN {} ELSE {broken}

PowerLoss ==
  /\ booted # None
  /\ losses < MaxLosses
  /\ losses' = losses + 1
  /\ ProcessesDie
  /\ flag' = FALSE
  /\ cmdline' \in Left(cmdline, cmdlineSynced, Torn) \
                  IF TornCopy THEN {} ELSE {Torn}
  /\ tryCmdline' \in Left(tryCmdline, tryCmdlineSynced, Torn)
  /\ tryTxt' \in {tryTxt, tryTxtSynced}
  /\ slotState' \in [Slots -> {"good", "bad"}]
  /\ \A s \in Slots :
       slotState'[s] \in Left(slotState[s], slotStateSynced[s], "good")
  /\ Sync
  /\ UNCHANGED <<installs, failures, reboots, early>>

(* The watchdog (or the owner) resets a hung boot. *)
WatchdogReset ==
  /\ booted = Hung
  /\ GoDown(FALSE)
  /\ UNCHANGED bounds
-----------------------------------------------------------------------------
(* snapdog-ctrl as systemd runs it: Restart=on-failure, OnFailure=.        *)

CountStart == starts' = IF starts < StartLimit THEN starts + 1 ELSE starts

CtrlStart ==
  /\ Up
  /\ ctrl = "down"
  /\ image[booted] \in Serves
  /\ ctrl' = "up"
  /\ CountStart
  /\ downtime' = 0
  /\ UNCHANGED <<files, disk, booted, flag, onFailure, commitVars, installVars,
                 rebootPc, bounds, proven>>

(* Past the start limit systemd may leave the unit failed; before, it is    *)
(* restarted.  Each failure starts the OnFailure= unit.                     *)
Fails ==
  /\ ctrl' \in IF starts = StartLimit THEN {"down", "failed"} ELSE {"down"}
  /\ onFailure' = TRUE
  /\ UNCHANGED <<files, disk, booted, flag, commitVars, installVars, installs,
                 losses, reboots, early, proven>>

(* The controller of an unsound image dies before it serves anything ...    *)
CtrlStartFails ==
  /\ Up
  /\ ctrl = "down"
  /\ image[booted] \notin Sound
  /\ Fails
  /\ CountStart
  /\ downtime' = 0
  /\ UNCHANGED <<rebootPc, failures>>

(* ... or later, and that of a sound one MaxFailures times.  A request to   *)
(* reboot dies with the process.                                            *)
CtrlFail ==
  /\ Up
  /\ ctrl = "up"
  /\ \/ image[booted] \notin Sound /\ UNCHANGED failures
     \/ /\ image[booted] \in Sound
        /\ failures < MaxFailures
        /\ failures' = failures + 1
  /\ Fails
  /\ rebootPc' = "idle"
  /\ UNCHANGED <<starts, downtime>>

(* Mutant: the unit only reports the failure and does not reboot. *)
TrialFailed_NoReboot ==
  /\ Up
  /\ onFailure
  /\ onFailure' = FALSE
  /\ UNCHANGED <<files, disk, booted, flag, ctrl, starts, downtime,
                 commitVars, installVars, rebootPc, proven, bounds>>

(* rauc-trial-failed.service: a plain reboot if a trial is armed. *)
TrialFailed ==
  /\ Up
  /\ onFailure
  /\ \/ tryTxt /\ GoDown(FALSE)
     \/ /\ ~tryTxt
        /\ onFailure' = FALSE
        /\ UNCHANGED <<files, disk, booted, flag, ctrl, starts, downtime,
                       commitVars, installVars, rebootPc, proven>>
  /\ UNCHANGED bounds

(* Mutant: the reboot handler does not look for an armed trial. *)
CheckTrial_Plain ==
  /\ Up
  /\ ctrl = "up"
  /\ rebootPc = "idle"
  /\ installPc = "idle"
  /\ rebootPc' = "plain"
  /\ UNCHANGED <<files, disk, booted, flag, ctrlVars, commitVars, installVars,
                 proven>>

(* system::reboot(), first half: is a trial armed?  The callers hold the   *)
(* firmware guard and have found RAUC idle.                                *)
CheckTrial ==
  /\ Up
  /\ ctrl = "up"
  /\ rebootPc = "idle"
  /\ installPc = "idle"
  /\ rebootPc' = IF tryTxt THEN "tryboot" ELSE "plain"
  /\ UNCHANGED <<files, disk, booted, flag, ctrlVars, commitVars, installVars,
                 proven>>

(* POST /reboot. *)
RebootCheck ==
  /\ CheckTrial
  /\ reboots < MaxReboots
  /\ reboots' = reboots + 1
  /\ UNCHANGED <<installs, losses, failures, early>>

(* Second half: the RESTART2 "0 tryboot" helper, or systemctl reboot ...    *)
RebootIssue ==
  /\ rebootPc # "idle"
  /\ GoDown(rebootPc = "tryboot")
  /\ UNCHANGED bounds

(* ... which may fail; a plain reboot is not tried instead of a trial boot. *)
RebootFails ==
  /\ rebootPc # "idle"
  /\ failures < MaxFailures
  /\ failures' = failures + 1
  /\ rebootPc' = "idle"
  /\ UNCHANGED <<files, disk, booted, flag, ctrlVars, commitVars, installVars,
                 installs, losses, reboots, early, proven>>

(* factory_reset(): systemctl reboot, whether or not a trial is armed. *)
FactoryReset ==
  /\ Up
  /\ ctrl = "up"
  /\ rebootPc = "idle"
  /\ installPc = "idle"
  /\ rebootPc' = "plain"
  /\ reboots < MaxReboots
  /\ reboots' = reboots + 1
  /\ UNCHANGED <<files, disk, booted, flag, ctrlVars, commitVars, installVars,
                 installs, losses, failures, early, proven>>
-----------------------------------------------------------------------------
(* rauc-commit.sh and boot-handler.sh commit.                              *)

CommitRest == <<synced, booted, flag, ctrlVars, installVars, rebootPc, bounds>>

(* Mutant: a pending trial skips the probe loop. *)
CommitStart_NoGate ==
  /\ Up
  /\ commitPc = "start"
  /\ starts > 0
  /\ commitPc' = IF TrialFiles THEN "read" ELSE "done"
  /\ UNCHANGED <<files, disk, okProbes, probes, trial, CommitRest, proven>>

(* The unit is ordered after snapdog-ctrl's start.  With no trial files it *)
(* marks the booted slot good and is done.                                 *)
CommitStart ==
  /\ Up
  /\ commitPc = "start"
  /\ starts > 0
  /\ \/ /\ TrialFiles
        /\ commitPc' = "probe"
        /\ UNCHANGED slotState
     \/ /\ ~TrialFiles
        /\ commitPc' = "done"
        /\ slotState' = [slotState EXCEPT ![booted] = "good"]
  /\ UNCHANGED <<files, image, okProbes, probes, trial, CommitRest, proven>>

(* What the probe sees: with a password set the endpoint answers 401. *)
Healthy == ctrl = "up" /\ ~WebPassword

(* One turn of the probe loop.  A restart of snapdog-ctrl takes at most    *)
(* RestartProbes turns (RestartSec against INTERVAL).                      *)
Probe ==
  /\ commitPc = "probe"
  /\ ctrl = "down" => downtime < RestartProbes
  /\ probes' = probes + 1
  /\ okProbes' = IF Healthy THEN okProbes + 1 ELSE 0
  /\ downtime' = IF ctrl = "down" THEN downtime + 1 ELSE downtime
  /\ commitPc' = IF okProbes' >= NeedOk THEN "good"
                 ELSE IF probes' = MaxProbes THEN "done" ELSE "probe"
  /\ proven' = IF okProbes' >= NeedOk THEN [proven EXCEPT ![booted] = TRUE]
                                      ELSE proven
  /\ UNCHANGED <<files, disk, booted, flag, ctrl, starts, onFailure, trial,
                 installVars, rebootPc, bounds>>

(* rauc status mark-good, which comes back as boot-handler set-state. *)
CommitMarkGood ==
  /\ commitPc = "good"
  /\ commitPc' = "read"
  /\ slotState' = [slotState EXCEPT ![booted] = "good"]
  /\ UNCHANGED <<files, image, okProbes, probes, trial, CommitRest, proven>>

(* Mutant: the slot that booted is not compared with the one on trial. *)
CommitRead_NoCompare ==
  /\ commitPc = "read"
  /\ trial' = tryCmdline
  /\ commitPc' = IF tryCmdline \in Slots THEN "truncate" ELSE "rmTxt"
  /\ UNCHANGED <<files, disk, okProbes, probes, CommitRest, proven>>

(* commit(): compare the slot that booted with the one on trial.  Equal:    *)
(* promote it; another slot: it failed, mark it bad; no slot in the file:   *)
(* drop the files only.                                                     *)
CommitRead ==
  /\ commitPc = "read"
  /\ trial' = tryCmdline
  /\ \/ ~TrialFiles /\ commitPc' = "done"
     \/ TrialFiles /\ tryCmdline = booted /\ commitPc' = "truncate"
     \/ TrialFiles /\ tryCmdline = Other(booted) /\ commitPc' = "clearState"
     \/ TrialFiles /\ tryCmdline \notin Slots /\ commitPc' = "rmTxt"
  /\ UNCHANGED <<files, disk, okProbes, probes, CommitRest, proven>>

(* cp opens its source and truncates cmdline.txt ...                       *)
CommitTruncate ==
  /\ commitPc = "truncate"
  /\ commitPc' = "write"
  /\ cmdline' = Torn
  /\ trial' = tryCmdline
  /\ UNCHANGED <<tryCmdline, tryTxt, disk, okProbes, probes, CommitRest,
                 proven>>

(* ... and writes it. *)
CommitWrite ==
  /\ commitPc = "write"
  /\ commitPc' = "rmTxt"
  /\ cmdline' = trial
  /\ UNCHANGED <<tryCmdline, tryTxt, disk, okProbes, probes, trial, CommitRest,
                 proven>>

(* Mutant: the line is deleted and the new one not appended. *)
CommitClearState_NoAppend ==
  /\ commitPc = "clearState"
  /\ commitPc' = "rmTxt"
  /\ slotState' = [slotState EXCEPT ![trial] = "good"]
  /\ UNCHANGED <<files, image, okProbes, probes, trial, CommitRest, proven>>

(* set_state TRIAL bad deletes the slot's line ...                         *)
CommitClearState ==
  /\ commitPc = "clearState"
  /\ commitPc' = "setBad"
  /\ slotState' = [slotState EXCEPT ![trial] = "good"]
  /\ UNCHANGED <<files, image, okProbes, probes, trial, CommitRest, proven>>

(* ... and appends the new one. *)
CommitSetBad ==
  /\ commitPc = "setBad"
  /\ commitPc' = "rmTxt"
  /\ slotState' = [slotState EXCEPT ![trial] = "bad"]
  /\ UNCHANGED <<files, image, okProbes, probes, trial, CommitRest, proven>>

(* Mutant: the command line goes before the file that points to it. *)
CommitRmTxt_Swapped ==
  /\ commitPc = "rmTxt"
  /\ commitPc' = "rmCmdline"
  /\ tryCmdline' = None
  /\ UNCHANGED <<cmdline, tryTxt, disk, okProbes, probes, trial,
                 CommitRest, proven>>

(* rm -f removes its operands in order. *)
CommitRmTxt ==
  /\ commitPc = "rmTxt"
  /\ commitPc' = "rmCmdline"
  /\ tryTxt' = FALSE
  /\ UNCHANGED <<cmdline, tryCmdline, disk, okProbes, probes, trial,
                 CommitRest, proven>>

CommitRmCmdline ==
  /\ commitPc = "rmCmdline"
  /\ commitPc' = "sync"
  /\ tryCmdline' = None
  /\ UNCHANGED <<cmdline, tryTxt, disk, okProbes, probes, trial, CommitRest,
                 proven>>

(* Mutant: with_boot_rw does not sync. *)
CommitSync_Not ==
  /\ commitPc = "sync"
  /\ commitPc' = "done"
  /\ UNCHANGED <<files, disk, okProbes, probes, trial, CommitRest, proven>>

(* with_boot_rw syncs before it remounts /boot read-only. *)
CommitSync ==
  /\ commitPc = "sync"
  /\ commitPc' = "done"
  /\ UNCHANGED <<files, slotState, image, okProbes, probes, trial, booted, flag,
                 ctrlVars, installVars, rebootPc, bounds, proven>>
  /\ Sync
-----------------------------------------------------------------------------
(* RAUC installing a bundle; it calls boot-handler set-state and           *)
(* set-primary.  RAUC is a service of its own and outlives snapdog-ctrl.   *)

InstallRest == <<synced, booted, flag, ctrlVars, commitVars, rebootPc>>

(* This boot's trial is settled: what runs is what a normal boot selects,  *)
(* and rauc-commit is done with the trial files.  No code asks for it; the *)
(* model counts the installs that begin earlier.                           *)
Settled == commitPc = "done" /\ cmdline = booted

(* snapdog-ctrl hands bundle b to RAUC, which first marks the target slot   *)
(* bad: the line goes ...                                                  *)
Begin(b) ==
  /\ Up
  /\ ctrl = "up"
  /\ rebootPc = "idle"
  /\ installPc = "idle"
  /\ early' = IF Settled THEN early ELSE early + 1
  /\ early' <= MaxEarly
  /\ installPc' = "setBad"
  /\ bundle' = b
  /\ slotState' = [slotState EXCEPT ![Target] = "good"]
  /\ UNCHANGED <<files, image, InstallRest, proven>>

(* POST /update/install, or an uploaded bundle. *)
InstallStart(b) ==
  /\ Begin(b)
  /\ installs < MaxInstalls
  /\ installs' = installs + 1
  /\ UNCHANGED <<losses, failures, reboots>>

(* ... and comes back. *)
InstallSetBad ==
  /\ installPc = "setBad"
  /\ installPc' = "write"
  /\ slotState' = [slotState EXCEPT ![Target] = "bad"]
  /\ UNCHANGED <<files, image, bundle, InstallRest, bounds, proven>>

InstallWrite ==
  /\ installPc = "write"
  /\ installPc' = "writing"
  /\ image' = [image EXCEPT ![Target] = Partial]
  /\ proven' = [proven EXCEPT ![Target] = FALSE]
  /\ UNCHANGED <<files, slotState, bundle, InstallRest, bounds>>

InstallWritten ==
  /\ installPc = "writing"
  /\ installPc' = "armCmdline"
  /\ image' = [image EXCEPT ![Target] = bundle]
  /\ UNCHANGED <<files, slotState, bundle, InstallRest, bounds, proven>>

(* Verification or writing fails; the slot stays as it is. *)
InstallFail ==
  /\ installPc = "writing"
  /\ failures < MaxFailures
  /\ failures' = failures + 1
  /\ installPc' = "idle"
  /\ UNCHANGED <<files, disk, bundle, InstallRest, installs, losses, reboots,
                 early, proven>>

(* set-primary, first half: write_cmdline tryboot-cmdline.txt from the     *)
(* committed one.  A template without exactly one root= is refused, and    *)
(* the install fails.                                                      *)
ArmCmdline ==
  /\ installPc = "armCmdline"
  /\ \/ /\ cmdline \in Slots
        /\ tryCmdline' = Target
        /\ installPc' = "armTxt"
     \/ /\ cmdline \notin Slots
        /\ installPc' = "idle"
        /\ UNCHANGED tryCmdline
  /\ UNCHANGED <<cmdline, tryTxt, disk, bundle, InstallRest, bounds, proven>>

(* Mutant: set-primary also switches the normal boot over. *)
ArmTxt_Switch ==
  /\ installPc = "armTxt"
  /\ installPc' = "armSync"
  /\ tryTxt' = TRUE
  /\ cmdline' = tryCmdline
  /\ UNCHANGED <<tryCmdline, disk, bundle, InstallRest, bounds, proven>>

(* Second half: gen_tryboot_txt ... *)
ArmTxt ==
  /\ installPc = "armTxt"
  /\ installPc' = "armSync"
  /\ tryTxt' = TRUE
  /\ UNCHANGED <<cmdline, tryCmdline, disk, bundle, InstallRest, bounds,
                 proven>>

(* ... and with_boot_rw's sync: the installation is complete. *)
ArmSync ==
  /\ installPc = "armSync"
  /\ installPc' = "idle"
  /\ UNCHANGED <<files, slotState, image, bundle, booted, flag, ctrlVars,
                 commitVars, rebootPc, bounds, proven>>
  /\ Sync
-----------------------------------------------------------------------------
Commit ==
  \/ CommitStart \/ Probe \/ CommitMarkGood \/ CommitRead
  \/ CommitTruncate \/ CommitWrite
  \/ CommitClearState \/ CommitSetBad
  \/ CommitRmTxt \/ CommitRmCmdline \/ CommitSync

Install ==
  \/ \E b \in Images : InstallStart(b)
  \/ InstallSetBad \/ InstallWrite \/ InstallWritten \/ InstallFail
  \/ ArmCmdline \/ ArmTxt \/ ArmSync

Next ==
  \/ FirmwareBoot \/ PowerLoss \/ WatchdogReset
  \/ CtrlStart \/ CtrlStartFails \/ CtrlFail \/ TrialFailed
  \/ RebootCheck \/ RebootIssue \/ RebootFails \/ FactoryReset
  \/ Commit \/ Install

Spec == Init /\ [][Next]_vars

(* The machine boots, systemd starts, restarts and runs its units, the     *)
(* scripts go on, an accepted reboot happens, and the controller of an     *)
(* unsound image does fail.  Nothing is assumed of the owner, of installs  *)
(* or of power.                                                            *)
Fairness ==
  /\ WF_vars(FirmwareBoot)
  /\ WF_vars(WatchdogReset)
  /\ WF_vars(CtrlStart \/ CtrlStartFails)
  /\ WF_vars(CtrlFail /\ image[booted] \notin Sound)
  /\ WF_vars(TrialFailed)
  /\ WF_vars(RebootIssue)
  /\ WF_vars(Commit)

FairSpec == Spec /\ Fairness
-----------------------------------------------------------------------------
(* The header of boot-handler.sh: cmdline.txt always selects the last-     *)
(* known-good slot.  Whatever is installed and whatever a stop leaves of   *)
(* the files, the slot cmdline.txt names holds an image that came up and   *)
(* passed the health gate - as long as no installation began before the    *)
(* trial it ran beside was settled, which no code prevents (CommittedGood  *)
(* says it without the condition, and TryBoot_early refutes that).         *)
CommittedGood ==
  cmdline \in Slots => proven[cmdline] /\ image[cmdline] \in Boots

LastKnownGood == early = 0 => CommittedGood

(* tryboot.txt points the firmware at tryboot-cmdline.txt.  set-primary    *)
(* writes the target of the pointer first and commit removes it last, and  *)
(* both sync before they are over: nothing makes the pointer dangle but a  *)
(* power loss that falls inside one of the two, before its sync; for       *)
(* installs as in LastKnownGood.                                           *)
PointerUsable == tryTxt => tryCmdline \in Slots
InBootRw == \/ commitPc \in {"write", "rmTxt", "rmCmdline", "sync"}
            \/ installPc \in {"armTxt", "armSync"}
TrialConfigUsable ==
  [][early = 0 /\ PointerUsable /\ ~PointerUsable'
     => booted' = None /\ InBootRw]_vars

(* boot-handler.sh:16-21: a boot that comes to nothing is followed by one  *)
(* of the committed slot, also when the trial that was asked for had been  *)
(* left in pieces by a power loss, for installs as in LastKnownGood and a  *)
(* cmdline.txt that is whole.                                              *)
FallsBack ==
  booted = Hung ~> \/ Up /\ booted = cmdline
                   \/ early > 0 \/ cmdline = Torn

(* While the machine runs, the last trace of a trial, tryboot-cmdline.txt, *)
(* is dropped only when the slot it names has been committed or stands in  *)
(* the state file as bad, in whatever state an earlier stop left the       *)
(* files; for installs as in LastKnownGood.  (A power loss may undo the    *)
(* verdict and keep the removal: nothing syncs between them.)              *)
NoTrialForgotten ==
  [][early = 0 /\ booted' # None /\ tryCmdline \in Slots /\ tryCmdline' = None
     => tryCmdline = cmdline \/ slotState[tryCmdline] = "bad"]_vars

(* While the machine runs, the command line of a normal boot is rewritten  *)
(* only to the slot that runs, in a boot whose controller answered NeedOk  *)
(* probes in a row, and a power loss leaves only what was there or this;   *)
(* for installs as in LastKnownGood.                                       *)
PromoteOnlyHealthy ==
  [][early = 0 /\ cmdline' # cmdline /\ cmdline' \in Slots
     => \/ booted = cmdline' /\ okProbes >= NeedOk
        \/ booted' = None /\ cmdline' = cmdlineSynced]_vars

(* Every trial boot is decided: the running trial is promoted, or another  *)
(* slot comes up.                                                          *)
TrialDecided == (Up /\ booted # cmdline) ~> (Up /\ booted = cmdline)

(* The backend implements the abstract A/B trial, which sees what is on    *)
(* the medium: a trial is armed when its files are synced and over when    *)
(* their removal is, and a hung boot is no boot.                           *)
Abstract == INSTANCE SlotTrial WITH
  committed <- cmdlineSynced,
  onTrial <- IF tryTxtSynced /\ tryCmdlineSynced \in Slots
             THEN tryCmdlineSynced ELSE None,
  running <- IF Up THEN booted ELSE None,
  oneShot <- flag
ImplementsSlotTrial == Abstract!Spec
-----------------------------------------------------------------------------
(* The inductive invariant behind the theorems of TryBootProofs: it holds  *)
(* until an installation begins before its boot's trial is settled.  It is *)
(* not a set of requirements: it says which process may be where.          *)
Deciding == {"good", "read", "truncate", "write", "clearState", "setBad",
             "rmTxt", "rmCmdline", "sync"}

(* A machine that is not up runs nothing; RAUC works only when rauc-commit *)
(* is done and the booted slot is the committed one.                       *)
Phases ==
  /\ ~Up => commitPc = "start" /\ installPc = "idle" /\ rebootPc = "idle"
  /\ installPc # "idle" => commitPc = "done" /\ cmdline = booted
  /\ installPc = "writing" => ~proven[Target]
  /\ installPc \in {"armTxt", "armSync"} => tryCmdline = Target
  /\ installPc = "armSync" => tryTxt

(* What the medium holds where nothing is being written, and what it may   *)
(* still hold where something is.                                          *)
Medium_OK ==
  /\ ~InBootRw => /\ cmdlineSynced = cmdline
                  /\ tryCmdlineSynced = tryCmdline
                  /\ tryTxtSynced = tryTxt
  /\ installPc # "idle" => cmdlineSynced = cmdline
  /\ commitPc = "write" => tryCmdlineSynced = tryCmdline /\ tryTxtSynced = tryTxt

(* What the slots hold, and that the running one did come up.              *)
Images_OK ==
  /\ \A s \in Slots : proven[s] => image[s] \in Boots
  /\ Up => image[booted] \in Boots
  /\ commitPc = "write" => cmdline = Torn
  /\ cmdline = Torn \/ cmdlineSynced = Torn => commitPc = "write" \/ TornCopy
  /\ cmdlineSynced = Torn /\ commitPc # "start" => TornCopy
  /\ cmdline \in Slots => proven[cmdline]
  /\ cmdlineSynced \in Slots => proven[cmdlineSynced]

(* The probe counters, and that commit copies a file that is there.  This  *)
(* part holds whenever installs begin.                                     *)
Gate_OK ==
  /\ commitPc = "start" => okProbes = 0 /\ probes = 0
  /\ commitPc = "probe" => okProbes < NeedOk /\ probes < MaxProbes
  /\ commitPc # "start" => Up
  /\ commitPc = "truncate" => tryCmdline \in Slots
  /\ commitPc \in {"write", "clearState", "setBad"} => trial \in Slots

(* Where commit stands, and what it knows there. *)
Commit_OK ==
  /\ commitPc \in Deciding => proven[booted] /\ okProbes >= NeedOk
  /\ commitPc \in {"truncate", "write"} => tryCmdline = booted
  /\ commitPc = "write" => trial = booted
  /\ commitPc \in {"clearState", "setBad"} =>
       trial = Other(booted) /\ tryCmdline = trial
  /\ commitPc \in {"rmTxt", "rmCmdline"} /\ tryCmdline \in Slots =>
       tryCmdline = cmdline \/ slotState[tryCmdline] = "bad"
  /\ commitPc \in {"rmTxt", "rmCmdline", "sync"} => cmdline = booted
  /\ commitPc \in {"rmCmdline", "sync"} => ~tryTxt
  /\ commitPc = "sync" => tryCmdline = None

(* A slot other than the committed one runs only as the armed trial, until *)
(* commit is about to write it.                                            *)
Trial_OK ==
  Up /\ cmdline # booted /\ commitPc # "write" =>
    tryTxt /\ tryCmdline = booted

IInv == TypeOK /\ Gate_OK /\ Phases /\ Medium_OK /\ Images_OK /\ Commit_OK
        /\ Trial_OK
=============================================================================
