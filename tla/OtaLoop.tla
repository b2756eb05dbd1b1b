------------------------------ MODULE OtaLoop ------------------------------
(***************************************************************************)
(* The update loop of snapdog-ctrl on top of the A/B trial of TryBoot: the *)
(* daily auto-update tick (auto_update.rs), the marker of the version that *)
(* is about to be tried and the marker of the version that was rolled back *)
(* (system.rs: reboot, reconcile_pending_update, decide_update,            *)
(* factory_reset).  Simplifications:                                       *)
(*   - an image stands for its version; Rank orders versions as            *)
(*     version_is_newer does;                                              *)
(*   - the time-of-day and the interval gate are one Boolean: a run is     *)
(*     due.  NextDay makes it so again;                                    *)
(*   - a tick decides and begins the installation in one step, and a       *)
(*     coordinator taken by somebody else in between is a failure of that  *)
(*     step; the firmware guard it holds is autoPc # "idle";               *)
(*   - the manifest of the channel moves to newer versions only.           *)
(***************************************************************************)
EXTENDS TryBoot

CONSTANT Rank        \* the precedence of an image's version

ASSUME RankAssumption == Rank \in [Images -> Nat] /\ None \notin Images

VARIABLES
  pending,   \* snapdog-os.pending-update: the version being tried, or None
  failed,    \* snapdog-os.failed-update: the last version rolled back, or None
  recPc,     \* where reconcile_pending_update, or a factory reset, is in this process
  autoPc,    \* where the auto-update tick is
  due,       \* the interval since the last recorded run has elapsed
  channel,   \* the version latest-<channel>.json names, None: unreachable
  ran,       \* history: the recorded trial that was started last, until its
             \* controller confirms it, or None
  lost       \* history: recorded trials another slot came up after before
             \* their controller confirmed them, since the owner last installed
             \* something or reset the device; less those whose controller
             \* started since, and those newer than a version the tick
             \* installed since

otaVars == <<pending, failed, recPc, autoPc, due, channel, ran, lost>>
allVars == <<vars, otaVars>>
markers == <<pending, failed>>
loop == <<autoPc, due, channel>>
trials == <<ran, lost>>

Version == image[booted]      \* current_os_version()

OtaInit ==
  /\ Init
  /\ pending = None /\ failed = None
  /\ recPc = "start" /\ autoPc = "idle"
  /\ due = TRUE
  /\ channel = None
  /\ ran = None /\ lost = {}
-----------------------------------------------------------------------------
(* The environment of the loop.                                            *)

(* The date changes and the configured time is reached. *)
NextDay ==
  /\ ~due
  /\ due' = TRUE
  /\ UNCHANGED <<vars, markers, recPc, autoPc, channel, trials>>

(* A release is published. *)
Publish ==
  /\ channel' \in {v \in Images : channel # None => Rank[v] > Rank[channel]}
  /\ UNCHANGED <<vars, markers, recPc, autoPc, due, trials>>

(* Bookkeeping of the firmware's choice: a recorded trial is started, or    *)
(* lost because something else comes up after it.                          *)
BootAny ==
  /\ FirmwareBoot
  /\ \/ /\ flag /\ tryTxt
        /\ ran' = IF tryCmdline \in Slots /\ pending = image[tryCmdline]
                  THEN pending ELSE None
        /\ UNCHANGED lost
     \/ /\ ~(flag /\ tryTxt)
        /\ ran' = None
        /\ lost' = IF ran # None /\ (cmdline \in Slots => image[cmdline] # ran)
                   THEN lost \cup {ran} ELSE lost
  /\ UNCHANGED <<markers, recPc, loop>>

Resetting == {"resetPending", "resetFailed"}

(* The process is gone with the machine; the markers are files on /data. *)
Die == recPc' = "start" /\ autoPc' = "idle" /\ UNCHANGED <<markers, due, channel>>

GoDownAny ==
  /\ PowerLoss \/ WatchdogReset \/ (RebootIssue /\ recPc \notin Resetting)
  /\ Die
  /\ UNCHANGED trials

TrialFailedAny ==
  /\ TrialFailed
  /\ \/ tryTxt /\ Die
     \/ ~tryTxt /\ UNCHANGED <<markers, recPc, loop>>
  /\ UNCHANGED trials
-----------------------------------------------------------------------------
(* The start of snapdog-ctrl: reconcile_pending_update, then serve.        *)

ReconcileRest == <<vars, loop>>

(* Whatever ran before: the version that is running is not a failed one. *)
ReconcileClear ==
  /\ Up /\ ctrl = "down" /\ recPc = "start"
  /\ recPc' = "pending"
  /\ failed' = IF failed = Version THEN None ELSE failed
  /\ lost' = lost \ {Version}
  /\ UNCHANGED <<pending, ran, ReconcileRest>>

(* Mutant: a version that did not come up is not remembered. *)
ReconcileVerdict_Forgets ==
  /\ Up /\ ctrl = "down" /\ recPc = "pending"
  /\ recPc' = IF pending = None THEN "done" ELSE "drop"
  /\ failed' = IF pending = Version THEN None ELSE failed
  /\ ran' = IF pending = Version THEN None ELSE ran
  /\ UNCHANGED <<pending, lost, ReconcileRest>>

(* The pending version is running: that alone confirms it, before it has   *)
(* served anything.  Another one is: the pending one was rolled back.      *)
ReconcileVerdict ==
  /\ Up /\ ctrl = "down" /\ recPc = "pending"
  /\ \/ /\ pending = None
        /\ recPc' = "done"
        /\ UNCHANGED <<failed, ran>>
     \/ /\ pending # None
        /\ recPc' = "drop"
        /\ failed' = IF pending = Version THEN None ELSE pending
        /\ ran' = IF pending = Version THEN None ELSE ran
  /\ UNCHANGED <<pending, lost, ReconcileRest>>

ReconcileDrop ==
  /\ Up /\ ctrl = "down" /\ recPc = "drop"
  /\ recPc' = "done"
  /\ pending' = None
  /\ UNCHANGED <<failed, trials, ReconcileRest>>

Reconcile == ReconcileClear \/ ReconcileVerdict \/ ReconcileDrop

Serve ==
  /\ CtrlStart
  /\ recPc = "done"
  /\ UNCHANGED otaVars

(* RAUC goes on when the process that asked for the installation is gone. *)
Fail ==
  /\ CtrlStartFails \/ CtrlFail
  /\ recPc' = "start" /\ autoPc' = "idle"
  /\ UNCHANGED <<markers, due, channel, trials>>
-----------------------------------------------------------------------------
(* Requests of the owner.  Each takes the firmware guard.                  *)

(* reboot() records the version in the slot that is not booted, when a     *)
(* trial is armed and RAUC knows the version.                              *)
RecordTrial ==
  pending' = IF tryTxt /\ image[Target] # Partial THEN image[Target]
                                                  ELSE pending

UserReboot ==
  /\ autoPc = "idle"
  /\ RebootCheck
  /\ RecordTrial
  /\ UNCHANGED <<failed, recPc, loop, trials>>

(* factory_reset() removes the date of the last run, then one marker after *)
(* the other, and reboots.                                                 *)
UserReset ==
  /\ autoPc = "idle"
  /\ FactoryReset
  /\ recPc' = "resetPending"
  /\ due' = TRUE
  /\ lost' = {} /\ ran' = None
  /\ UNCHANGED <<markers, autoPc, channel>>

ResetMarkers ==
  /\ \/ recPc = "resetPending" /\ recPc' = "resetFailed"
        /\ pending' = None /\ UNCHANGED failed
     \/ recPc = "resetFailed" /\ recPc' = "done"
        /\ failed' = None /\ UNCHANGED pending
  /\ UNCHANGED <<vars, loop, trials>>

UserInstall ==
  /\ autoPc = "idle"
  /\ \E b \in Images : InstallStart(b)
  /\ lost' = {}
  /\ UNCHANGED <<markers, recPc, loop, ran>>

(* The reboot the tick or the owner asked for fails; the tick gives up. *)
RebootError ==
  /\ RebootFails
  /\ recPc \notin Resetting
  /\ autoPc' = "idle"
  /\ UNCHANGED <<markers, recPc, due, channel, trials>>
-----------------------------------------------------------------------------
(* auto_update::tick and install_and_reboot.                               *)

(* decide_update: newer than what runs, and not the one rolled back last. *)
Wanted(v) == Rank[v] > Rank[Version] /\ failed # v

(* A tick that passes its gates and reaches the manifest. *)
TickRuns ==
  /\ Up
  /\ ctrl = "up"
  /\ autoPc = "idle" /\ rebootPc = "idle" /\ installPc = "idle"
  /\ due
  /\ channel # None

AutoInstall ==
  /\ TickRuns
  /\ Wanted(channel)
  /\ Begin(channel)
  /\ due' = FALSE
  /\ autoPc' = "install"
  /\ lost' = {v \in lost : Rank[v] <= Rank[channel]}
  /\ UNCHANGED <<installs, losses, failures, reboots>>
  /\ UNCHANGED <<markers, recPc, channel, ran>>

(* Nothing to do.  The run is recorded all the same. *)
AutoSkip ==
  /\ TickRuns
  /\ ~Wanted(channel)
  /\ due' = FALSE
  /\ UNCHANGED <<vars, markers, recPc, autoPc, channel, trials>>

(* The installation is refused: the run is recorded before it begins. *)
AutoRefused ==
  /\ TickRuns
  /\ Wanted(channel)
  /\ failures < MaxFailures
  /\ failures' = failures + 1
  /\ due' = FALSE
  /\ UNCHANGED <<files, disk, booted, flag, ctrlVars, commitVars, installVars,
                 rebootPc, installs, losses, reboots, early, proven>>
  /\ UNCHANGED <<markers, recPc, autoPc, channel, trials>>

(* RAUC goes on; the tick learns how the installation ended. *)
RaucStep ==
  /\ \/ /\ InstallSetBad \/ InstallWrite \/ InstallWritten \/ ArmTxt
        /\ UNCHANGED autoPc
     \/ ArmCmdline /\ installPc' = "armTxt" /\ UNCHANGED autoPc
     \/ /\ InstallFail \/ (ArmCmdline /\ installPc' = "idle")
        /\ autoPc' = "idle"
     \/ /\ ArmSync
        /\ autoPc' = IF autoPc = "install" THEN "armed" ELSE autoPc
  /\ UNCHANGED <<markers, recPc, due, channel, trials>>

(* The controller is still the one that asked, so bundle is its version. *)
AutoRecord ==
  /\ autoPc = "armed"
  /\ autoPc' = "recorded"
  /\ pending' = bundle
  /\ UNCHANGED <<vars, failed, recPc, due, channel, trials>>

AutoReboot ==
  /\ autoPc = "recorded"
  /\ CheckTrial
  /\ RecordTrial
  /\ autoPc' = "rebooting"
  /\ UNCHANGED <<bounds, failed, recPc, due, channel, trials>>
-----------------------------------------------------------------------------
CommitAny == Commit /\ UNCHANGED otaVars

OtaNext ==
  \/ NextDay \/ Publish
  \/ BootAny \/ GoDownAny \/ TrialFailedAny
  \/ Reconcile \/ Serve \/ Fail
  \/ UserReboot \/ UserReset \/ ResetMarkers \/ UserInstall \/ RebootError
  \/ AutoInstall \/ AutoSkip \/ AutoRefused \/ RaucStep
  \/ AutoRecord \/ AutoReboot
  \/ CommitAny

OtaSpec == OtaInit /\ [][OtaNext]_allVars

(* The fairness of TryBoot, and: days pass, ticks come, RAUC goes on, the  *)
(* tick goes on to its reboot.  Nothing is assumed of the owner, of        *)
(* releases or of failures.                                                *)
OtaFairness ==
  /\ WF_allVars(NextDay)
  /\ WF_allVars(BootAny)
  /\ WF_allVars(GoDownAny /\ (WatchdogReset \/ RebootIssue))
  /\ WF_allVars(ResetMarkers)
  /\ WF_allVars(TrialFailedAny)
  /\ WF_allVars(Reconcile)
  /\ WF_allVars(Serve \/ (Fail /\ CtrlStartFails))
  /\ WF_allVars(Fail /\ CtrlFail /\ image[booted] \notin Sound)
  /\ WF_allVars(CommitAny)
  /\ WF_allVars(AutoInstall \/ AutoSkip)
  /\ WF_allVars(RaucStep)
  /\ WF_allVars(AutoRecord)
  /\ WF_allVars(AutoReboot)

OtaFairSpec == OtaSpec /\ OtaFairness
-----------------------------------------------------------------------------
(* system.rs:908-911, as far as the code keeps it: auto-update does not    *)
(* install again a version whose recorded trial was rolled back before its *)
(* controller started, so such a version drives no endless install, roll   *)
(* back, reinstall loop, for installs that begin when the trial is         *)
(* settled.  The code keeps less than the comment there says:              *)
(* reconcile_pending_update takes the start of the controller for the      *)
(* confirmation, so a version that starts and fails the gate afterwards    *)
(* leaves no record, is rolled back and is installed again on the next     *)
(* day, and the next.  The record also holds one version only: an          *)
(* installation by the owner in between may replace it, and so may the     *)
(* trial of an older version, if the one on record was tried before the    *)
(* channel named it.                                                       *)
NoReinstallLoop ==
  [][early' = 0 /\ autoPc = "idle" /\ autoPc' = "install"
     => bundle' \notin lost]_allVars

(* A power loss or a failure is charged to the version on trial, and a     *)
(* command line torn by a reset in the middle of its copy ends everything. *)
Disturbed == losses > 0 \/ failures > 0 \/ cmdline \notin Slots

(* A sound release that the channel names is running and committed in the  *)
(* end, or overtaken, whatever was published, installed, rebooted or reset *)
(* before it, unless the machine is disturbed.                             *)
Behind ==
  channel \in Sound /\ cmdline \in Slots /\ Rank[image[cmdline]] < Rank[channel]
UpdateTaken == Behind ~> ~Behind \/ Disturbed
=============================================================================
