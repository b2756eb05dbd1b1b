--------------------------- MODULE OtaLoopProofs ---------------------------
(***************************************************************************)
(* The update loop keeps what TryBootProofs proves of the A/B trial: every *)
(* step of OtaLoop is a step of TryBoot, or one of three that TryBoot does *)
(* not bound (the tick's installation, its refusal and its reboot).  The   *)
(* statements carry the premise of TryBootProofs: no installation, of the  *)
(* owner or of a tick, began before the trial of its boot was settled,     *)
(* which no code enforces.  The last part proves how much of the promise   *)
(* that a rolled-back version is not installed again the code keeps.       *)
(***************************************************************************)
EXTENDS OtaLoop, TryBootProofs

(* The steps of the loop that are none of TryBoot's Next. *)
TickStep ==
  \/ \E b \in Images : Begin(b) /\ UNCHANGED <<installs, losses, failures, reboots>>
  \/ /\ failures < MaxFailures
     /\ failures' = failures + 1
     /\ UNCHANGED <<files, disk, booted, flag, ctrlVars, commitVars, installVars,
                    rebootPc, installs, losses, reboots, early, proven>>
  \/ CheckTrial /\ UNCHANGED bounds

(* What the loop does to the state of TryBoot.  The channel names an image. *)
LEMMA LoopStep ==
  ASSUME [OtaNext]_allVars, channel \in Images \cup {None}
  PROVE  [Next]_vars \/ TickStep
<1>1. CASE \/ NextDay \/ Publish \/ Reconcile \/ ResetMarkers \/ AutoSkip
           \/ AutoRecord \/ UNCHANGED allVars
  BY <1>1 DEF NextDay, Publish, Reconcile, ReconcileClear, ReconcileVerdict,
     ReconcileDrop, ReconcileRest, ResetMarkers, AutoSkip, AutoRecord, allVars
<1>2. CASE \/ BootAny \/ GoDownAny \/ TrialFailedAny \/ Serve \/ Fail
           \/ UserReboot \/ UserReset \/ UserInstall \/ RebootError
           \/ RaucStep \/ CommitAny
  BY <1>2 DEF BootAny, GoDownAny, TrialFailedAny, Serve, Fail, UserReboot,
     UserReset, UserInstall, RebootError, RaucStep, CommitAny, Next, Install
<1>3. CASE AutoInstall
  <2>1. /\ channel \in Images /\ Begin(channel)
        /\ UNCHANGED <<installs, losses, failures, reboots>>
    BY <1>3 DEF AutoInstall, TickRuns
  <2>. QED
    BY <2>1 DEF TickStep
<1>4. CASE AutoRefused \/ AutoReboot
  BY <1>4 DEF AutoRefused, AutoReboot, TickStep
<1>. QED
  BY <1>1, <1>2, <1>3, <1>4 DEF OtaNext

(* The tick's steps keep the types, the invariant and what the abstract    *)
(* trial sees.                                                             *)
LEMMA TickTypes ==
  ASSUME TypeOK, Gate_OK, TickStep
  PROVE  TypeOK' /\ Gate_OK' /\ (early' = 0 => early = 0)
<1>. USE ProbesAssumption, BoundsAssumption DEF TypeOK, Gate_OK, Up, Slots,
    None, Torn, Other, Target, files, disk, synced, ctrlVars, commitVars,
    installVars, bounds, InstallRest
<1>1. ASSUME NEW b \in Images, Begin(b),
             UNCHANGED <<installs, losses, failures, reboots>>
      PROVE  TypeOK' /\ Gate_OK' /\ (early' = 0 => early = 0)
  BY <1>1, SMTT(30) DEF Begin
<1>2. CASE /\ failures < MaxFailures
           /\ failures' = failures + 1
           /\ UNCHANGED <<files, disk, booted, flag, ctrlVars, commitVars,
                          installVars, rebootPc, installs, losses, reboots,
                          early, proven>>
  BY <1>2, SMTT(30)
<1>3. CASE CheckTrial /\ UNCHANGED bounds
  BY <1>3, SMTT(30) DEF CheckTrial
<1>. QED
  BY <1>1, <1>2, <1>3 DEF TickStep

LEMMA TickInv ==
  ASSUME IInv, TickStep, early = 0, early' = 0
  PROVE  IInv'
<1>0. TypeOK' /\ Gate_OK'
  BY TickTypes DEF IInv
<1>. USE <1>0, ImagesAssumption
       DEF IInv, TypeOK, Gate_OK, Phases, Medium_OK, Images_OK, Commit_OK,
           Trial_OK, InBootRw, Deciding, Up, Slots, None, Hung, Torn, Other,
           Target, files, disk, synced, ctrlVars, commitVars, installVars,
           bounds, InstallRest, Settled
<1>1. ASSUME NEW b \in Images, Begin(b)
      PROVE  IInv'
  BY <1>1, SMTT(30) DEF Begin
<1>2. CASE UNCHANGED <<files, disk, booted, flag, ctrlVars, commitVars,
                       installVars, rebootPc, early, proven>>
  BY <1>2, SMTT(30)
<1>3. CASE CheckTrial
  BY <1>3, SMTT(30) DEF CheckTrial
<1>. QED
  BY <1>1, <1>2, <1>3 DEF TickStep

LEMMA TickHidden ==
  ASSUME TickStep
  PROVE  UNCHANGED Abstract!vars /\ (Pending_OK => Pending_OK')
<1>1. UNCHANGED <<Visible, files, booted, synced, commitVars>>
  BY DEF TickStep, Begin, CheckTrial, InstallRest, files, disk, synced, Visible
<1>2. Pending_OK => Pending_OK'
  BY <1>1 DEF Pending_OK, files, synced, commitVars, Removing
<1>. QED
  BY <1>1, <1>2, HiddenStep

(* The types of the loop's state, and which process each counter is of. *)
Loop_OK ==
  /\ channel \in Images \cup {None}
  /\ pending \in Images \cup {None} /\ failed \in Images \cup {None}
  /\ ran \in Images \cup {None} /\ lost \subseteq Images
  /\ recPc \in {"start", "pending", "drop", "done"} \cup Resetting
  /\ autoPc \in {"idle", "install", "armed", "recorded", "rebooting"}
  /\ ctrl = "up" => recPc \in {"done"} \cup Resetting
  /\ recPc \in Resetting => rebootPc = "plain"
  /\ ~Up => recPc = "start"
  /\ autoPc # "idle" => ctrl = "up" /\ bundle \in Images

(* Each step keeps the types of the loop's state. *)
LEMMA LoopTypes ==
  ASSUME TypeOK, Gate_OK, Loop_OK, [OtaNext]_allVars
  PROVE  Loop_OK'
<1>. USE RankAssumption DEF Loop_OK, Resetting, TypeOK, Slots, None, Hung, Up,
    markers, trials, loop, vars, files, disk, ctrlVars, commitVars,
    installVars, bounds
<1>1. CASE NextDay \/ Publish \/ AutoSkip \/ AutoRefused \/ AutoRecord
           \/ UNCHANGED allVars
  BY <1>1 DEF NextDay, Publish, AutoSkip, AutoRefused, AutoRecord, allVars,
      otaVars
<1>2. CASE BootAny
  BY <1>2 DEF BootAny, FirmwareBoot, BootSlot
<1>3. CASE GoDownAny
  BY <1>3 DEF GoDownAny, PowerLoss, WatchdogReset, RebootIssue, GoDown,
     ProcessesDie, Die
<1>4. CASE TrialFailedAny
  BY <1>4 DEF TrialFailedAny, TrialFailed, GoDown, ProcessesDie, Die
<1>5. CASE Reconcile
  BY <1>5 DEF Reconcile, ReconcileClear, ReconcileVerdict, ReconcileDrop,
     ReconcileRest, Version
<1>6. CASE Serve \/ Fail \/ RebootError
  BY <1>6 DEF Serve, Fail, RebootError, CtrlStart, CtrlStartFails, CtrlFail,
     CountStart, Fails, RebootFails, otaVars
<1>7. CASE UserReboot \/ UserReset \/ UserInstall
  BY <1>7 DEF UserReboot, UserReset, UserInstall, RebootCheck, CheckTrial,
     RecordTrial, Target, Other, FactoryReset, InstallStart, Begin, InstallRest
<1>8. CASE AutoInstall \/ AutoReboot
  BY <1>8 DEF AutoInstall, TickRuns, Begin, AutoReboot, CheckTrial,
      RecordTrial, Target, Other, InstallRest
<1>9. CASE RaucStep
  BY <1>9 DEF RaucStep, InstallSetBad, InstallWrite, InstallWritten,
      ArmCmdline, InstallFail, ArmTxt, ArmSync, InstallRest
<1>10. CASE CommitAny
  BY <1>10 DEF CommitAny, Commit, CommitStart, Probe, CommitMarkGood,
      CommitRead, CommitTruncate, CommitWrite, CommitClearState, CommitSetBad,
      CommitRmTxt, CommitRmCmdline, CommitSync, CommitRest, InstallRest, otaVars
<1>11. CASE ResetMarkers
  BY <1>11 DEF ResetMarkers
<1>. QED
  BY <1>1, <1>2, <1>3, <1>4, <1>5, <1>6, <1>7, <1>8, <1>9, <1>10, <1>11
  DEF OtaNext

LoopSafe == Safe /\ Loop_OK

(* The invariant of the A/B trial holds throughout the update loop until   *)
(* an installation begins early, and the types of the loop's own state     *)
(* hold in any case.                                                       *)
THEOREM LoopInvariant == OtaSpec => []LoopSafe
<1>1. OtaInit => LoopSafe
  BY InvInit, TypeInit DEF OtaInit, Loop_OK, Init, Up, Slots, None, Safe,
     LoopSafe, Resetting
<1>2. LoopSafe /\ [OtaNext]_allVars => LoopSafe'
  <2>. SUFFICES ASSUME LoopSafe, [OtaNext]_allVars PROVE LoopSafe'
    OBVIOUS
  <2>1. TypeOK /\ Gate_OK /\ (early = 0 => IInv) /\ Loop_OK
    BY DEF LoopSafe, Safe
  <2>2. Loop_OK'
    BY <2>1, LoopTypes
  <2>3. [Next]_vars \/ TickStep
    BY <2>1, LoopStep DEF Loop_OK
  <2>4. CASE [Next]_vars
    <3>1. TypeOK' /\ Gate_OK'
      BY <2>1, <2>4, TypeStep
    <3>2. early' = 0 => IInv'
      BY <2>1, <2>4, EarlyCounts, InvStep
    <3>. QED
      BY <2>2, <3>1, <3>2 DEF LoopSafe, Safe
  <2>5. CASE TickStep
    <3>1. TypeOK' /\ Gate_OK' /\ (early' = 0 => early = 0)
      BY <2>1, <2>5, TickTypes
    <3>2. early' = 0 => IInv'
      BY <2>1, <2>5, <3>1, TickInv
    <3>. QED
      BY <2>2, <3>1, <3>2 DEF LoopSafe, Safe
  <2>. QED
    BY <2>3, <2>4, <2>5
<1>. QED
  BY <1>1, <1>2, PTL DEF OtaSpec

(* boot-handler.sh:4-7 with auto_update.rs: whatever the channel publishes, *)
(* however ticks, requests of the owner, failures, crashes of the controller *)
(* and power losses interleave, a normal boot selects a proven slot, until  *)
(* an installation begins before its boot's trial is settled.              *)
THEOREM LoopKnownGood == OtaSpec => []LastKnownGood
<1>1. LoopSafe => LastKnownGood
  BY DEF LoopSafe, Safe, IInv, Images_OK, LastKnownGood, CommittedGood
<1>. QED
  BY <1>1, LoopInvariant, PTL

(* The tick writes no boot file. *)
LEMMA TickKeepsFiles ==
  ASSUME TickStep
  PROVE  UNCHANGED files
BY DEF TickStep, Begin, CheckTrial, InstallRest, files

(* Under the loop as well nothing but a power loss inside set-primary or   *)
(* commit, before its sync, leaves the firmware's pointer dangling; for    *)
(* installs as in LoopKnownGood.                                           *)
THEOREM LoopPointerSound == OtaSpec => TrialConfigUsable
<1>1. LoopSafe /\ [OtaNext]_allVars =>
        [early = 0 /\ PointerUsable /\ ~PointerUsable'
         => booted' = None /\ InBootRw]_vars
  BY LoopStep, PointerStep, TickKeepsFiles
  DEF LoopSafe, Safe, Loop_OK, files, PointerUsable
<1>. QED
  BY <1>1, LoopInvariant, PTL DEF TrialConfigUsable, OtaSpec

(* No update of the loop is committed but by commit's copy, in a boot of   *)
(* that slot whose controller answered NeedOk probes in a row, or by a     *)
(* power loss that leaves what the medium held; for installs as above.     *)
THEOREM LoopPromotions == OtaSpec => PromoteOnlyHealthy
<1>1. LoopSafe /\ [OtaNext]_allVars =>
        [early = 0 /\ cmdline' # cmdline /\ cmdline' \in Slots
         => \/ booted = cmdline' /\ okProbes >= NeedOk
            \/ booted' = None /\ cmdline' = cmdlineSynced]_vars
  BY LoopStep, PromotionStep, TickKeepsFiles DEF LoopSafe, Safe, Loop_OK, files
<1>. QED
  BY <1>1, LoopInvariant, PTL DEF PromoteOnlyHealthy, OtaSpec

(* While the machine runs, no update of the loop is forgotten before its   *)
(* slot is committed or on record as bad; for installs as above.           *)
THEOREM LoopForgetsNothing == OtaSpec => NoTrialForgotten
<1>1. LoopSafe /\ [OtaNext]_allVars =>
        [early = 0 /\ booted' # None /\ tryCmdline \in Slots /\ tryCmdline' = None
         => tryCmdline = cmdline \/ slotState[tryCmdline] = "bad"]_vars
  BY LoopStep, ForgettingStep, TickKeepsFiles
  DEF LoopSafe, Safe, Loop_OK, files, Slots, None
<1>. QED
  BY <1>1, LoopInvariant, PTL DEF NoTrialForgotten, OtaSpec

(* Where every installation, a tick's too, waits for the trial of its boot *)
(* and the copy onto cmdline.txt is atomic - neither of which the code     *)
(* guarantees - the update loop implements the abstract A/B trial:         *)
(* automatic updates add no way to arm, start, promote or forget a trial.  *)
THEOREM LoopRefines ==
  ASSUME MaxEarly = 0, ~TornCopy
  PROVE  OtaSpec => ImplementsSlotTrial
<1>1. OtaInit => Abstract!Init /\ Pending_OK
  BY DEF OtaInit, Init, Abstract!Init, Up, Slots, None, Pending_OK, Removing
<1>2. LoopSafe => IInv
  BY DEF LoopSafe, Safe, TypeOK
<1>3. LoopSafe /\ Pending_OK /\ [OtaNext]_allVars =>
        Pending_OK' /\ [Abstract!Next]_(Abstract!vars)
  BY <1>2, LoopStep, PendingStep, RefineStep, TickHidden
  DEF LoopSafe, Loop_OK
<1>. QED
  BY <1>1, <1>3, LoopInvariant, PTL DEF OtaSpec, ImplementsSlotTrial,
      Abstract!Spec

(***************************************************************************)
(* NoReinstallLoop.  The record of failures holds one version and is       *)
(* written at the next start of the controller, so the argument follows    *)
(* each lost version from the trial to the record and from the record to   *)
(* the release that supersedes it.                                         *)
(***************************************************************************)

(* The channel has gone past v: decide_update cannot meet v again. *)
Passed(v) == channel \notin {None, v} /\ Rank[v] <= Rank[channel]

InSlot(v) == \E s \in Slots : image[s] = v

(* v is recorded as failed, and no other version is about to be. *)
Recorded(v) == failed = v /\ pending \in {None, v}

(* v is still pending, and reconcile has not passed its verdict. *)
Unjudged(v) == pending = v /\ recPc \in {"start", "pending"}

(* Once something is installed, every lost version is history: a slot may  *)
(* be overwritten and the record replaced.                                 *)
Superseded ==
  installPc # "idle" \/ autoPc # "idle" => \A v \in lost : Passed(v)

(* Until then a lost version stays in its slot and its failure is on file. *)
Remembered ==
  \A v \in lost : Passed(v) \/ (InSlot(v) /\ (Recorded(v) \/ Unjudged(v)))

(* A trial its controller has not confirmed leaves its marker for the boot *)
(* after it.                                                               *)
Attempted ==
  ran # None => /\ pending = ran /\ InSlot(ran)
                /\ installPc = "idle"
                /\ Up => image[booted] = ran /\ recPc \in {"start", "pending"}

(* What runs is not lost once its controller started, and a reset has      *)
(* nothing to remember.                                                    *)
Cleared == /\ Up /\ recPc # "start" => Version \notin lost
           /\ recPc \in Resetting => lost = {}

Verdicts == Superseded /\ Remembered /\ Attempted /\ Cleared

(* A step that no verdict depends on. *)
Quiet ==
  /\ UNCHANGED <<image, failed, pending, channel, ran, lost>>
  /\ recPc' \in {recPc, "start"}
  /\ Up' => Up /\ booted' = booted
  /\ installPc' # "idle" => installPc # "idle"
  /\ autoPc' # "idle" => autoPc # "idle"

LEMMA QuietKeeps ==
  ASSUME Verdicts, Quiet
  PROVE  Verdicts'
<1>. USE DEF Verdicts, Quiet
<1>1. Superseded'
  BY DEF Superseded, Passed
<1>2. Remembered'
  BY DEF Remembered, Passed, InSlot, Recorded, Unjudged
<1>3. Attempted'
  BY DEF Attempted, InSlot
<1>4. Cleared'
  BY DEF Cleared, Version, Resetting
<1>. QED
  BY <1>1, <1>2, <1>3, <1>4

(* The steps of the loop that are quiet. *)
LEMMA QuietSteps ==
  ASSUME IInv, Loop_OK,
         \/ NextDay \/ GoDownAny \/ TrialFailedAny \/ Serve \/ Fail \/ RebootError
         \/ AutoSkip \/ AutoRefused \/ CommitAny
         \/ (RaucStep /\ UNCHANGED image) \/ UNCHANGED allVars
  PROVE  Quiet
<1>. USE DEF Quiet, Up, markers, trials, loop, otaVars, vars, files, disk,
             ctrlVars, commitVars, installVars, bounds
<1>1. CASE NextDay \/ AutoSkip \/ AutoRefused \/ UNCHANGED allVars
  BY <1>1 DEF NextDay, AutoSkip, AutoRefused, allVars
<1>2. CASE GoDownAny
  BY <1>2 DEF GoDownAny, PowerLoss, WatchdogReset, RebootIssue, GoDown,
      ProcessesDie, Die, Slots, None
<1>3. CASE TrialFailedAny
  BY <1>3 DEF TrialFailedAny, TrialFailed, GoDown, ProcessesDie, Die, Slots, None
<1>4. CASE Serve \/ Fail \/ RebootError
  BY <1>4 DEF Serve, Fail, RebootError, CtrlStart, CtrlStartFails, CtrlFail,
     CountStart, Fails, RebootFails
<1>5. CASE CommitAny
  BY <1>5 DEF CommitAny, Commit, CommitStart, Probe, CommitMarkGood,
      CommitRead, CommitTruncate, CommitWrite, CommitClearState, CommitSetBad,
      CommitRmTxt, CommitRmCmdline, CommitSync, CommitRest
<1>6. CASE RaucStep /\ UNCHANGED image
  BY <1>6 DEF RaucStep, InstallSetBad, InstallWrite, InstallWritten,
      ArmCmdline, InstallFail, ArmTxt, ArmSync, InstallRest
<1>. QED
  BY <1>1, <1>2, <1>3, <1>4, <1>5, <1>6

(* The tick does not meet a lost version again: it is on file as failed,   *)
(* or the channel is past it.                                              *)
LEMMA NotAgain ==
  ASSUME Loop_OK, Remembered, Cleared, TickRuns, Wanted(channel)
  PROVE  channel \notin lost
<1>1. recPc = "done"
  BY DEF Loop_OK, TickRuns, Resetting
<1>. QED
  BY <1>1 DEF Remembered, Passed, Recorded, Unjudged, Wanted

(* The verdicts survive every step. *)
LEMMA VerdictsStep ==
  ASSUME IInv, Loop_OK, Verdicts, [OtaNext]_allVars
  PROVE  Verdicts'
<1>. USE RankAssumption, ImagesAssumption DEF Verdicts, Loop_OK, IInv, TypeOK,
    Phases, Resetting, Slots, None, Hung, Up, Version, markers,
    trials, vars, files, disk, ctrlVars, commitVars, installVars, bounds
<1>1. CASE Publish
  <2>. USE <1>1 DEF Publish
  <2>1. Superseded'
    BY DEF Superseded, Passed
  <2>2. Remembered'
    BY DEF Superseded, Remembered, Attempted, Cleared, Passed, InSlot,
        Recorded, Unjudged
  <2>3. Attempted'
    BY DEF Attempted, InSlot
  <2>4. Cleared'
    BY DEF Attempted, Cleared, Target, Other
  <2>. QED
    BY <2>1, <2>2, <2>3, <2>4
<1>2. CASE BootAny
  <2>. USE <1>2 DEF BootAny, FirmwareBoot, BootSlot, loop
  <2>1. Superseded'
    BY DEF Superseded, Passed
  <2>2. Remembered'
    BY DEF Superseded, Remembered, Attempted, Cleared, Passed, InSlot,
        Recorded, Unjudged
  <2>3. Attempted'
    BY DEF Attempted, InSlot
  <2>4. Cleared'
    BY DEF Attempted, Cleared, Target, Other
  <2>. QED
    BY <2>1, <2>2, <2>3, <2>4
<1>3. CASE Reconcile
  <2>. USE <1>3 DEF Reconcile, ReconcileClear, ReconcileVerdict,
      ReconcileDrop, ReconcileRest, loop
  <2>1. Superseded'
    BY DEF Superseded, Passed
  <2>2. Remembered'
    BY DEF Superseded, Remembered, Attempted, Cleared, Passed, InSlot,
        Recorded, Unjudged
  <2>3. Attempted'
    BY DEF Attempted, InSlot
  <2>4. Cleared'
    BY DEF Attempted, Cleared, Target, Other
  <2>. QED
    BY <2>1, <2>2, <2>3, <2>4
<1>4. CASE UserReset
  <2>. USE <1>4 DEF UserReset, FactoryReset
  <2>1. Superseded'
    BY DEF Superseded, Passed
  <2>2. Remembered'
    BY DEF Superseded, Remembered, Attempted, Cleared, Passed, InSlot,
        Recorded, Unjudged
  <2>3. Attempted'
    BY DEF Attempted, InSlot
  <2>4. Cleared'
    BY DEF Attempted, Cleared, Target, Other
  <2>. QED
    BY <2>1, <2>2, <2>3, <2>4
<1>5. CASE ResetMarkers
  <2>. USE <1>5 DEF ResetMarkers, loop
  <2>1. Superseded'
    BY DEF Superseded, Passed
  <2>2. Remembered'
    BY DEF Superseded, Remembered, Attempted, Cleared, Passed, InSlot,
        Recorded, Unjudged
  <2>3. Attempted'
    BY DEF Attempted, InSlot
  <2>4. Cleared'
    BY DEF Attempted, Cleared, Target, Other
  <2>. QED
    BY <2>1, <2>2, <2>3, <2>4
<1>6. CASE UserInstall
  <2>. USE <1>6 DEF UserInstall, InstallStart, Begin, InstallRest, loop
  <2>1. Superseded'
    BY DEF Superseded, Passed
  <2>2. Remembered'
    BY DEF Superseded, Remembered, Attempted, Cleared, Passed, InSlot,
        Recorded, Unjudged
  <2>3. Attempted'
    BY DEF Attempted, InSlot
  <2>4. Cleared'
    BY DEF Attempted, Cleared, Target, Other
  <2>. QED
    BY <2>1, <2>2, <2>3, <2>4
<1>7. CASE AutoInstall
  <2>. USE <1>7 DEF AutoInstall, TickRuns, Wanted, Begin, InstallRest
  <2>0. channel \notin lost
    BY NotAgain
  <2>1. Superseded'
    BY <2>0 DEF Superseded, Passed
  <2>2. Remembered'
    BY <2>0 DEF Superseded, Remembered, Attempted, Cleared, Passed, InSlot,
        Recorded, Unjudged
  <2>3. Attempted'
    BY DEF Attempted, InSlot
  <2>4. Cleared'
    BY DEF Attempted, Cleared, Target, Other
  <2>. QED
    BY <2>1, <2>2, <2>3, <2>4
<1>8. CASE AutoRecord
  <2>. USE <1>8 DEF AutoRecord
  <2>1. Superseded'
    BY DEF Superseded, Passed
  <2>2. Remembered'
    BY DEF Superseded, Remembered, Attempted, Cleared, Passed, InSlot,
        Recorded, Unjudged
  <2>3. Attempted'
    BY DEF Attempted, InSlot
  <2>4. Cleared'
    BY DEF Attempted, Cleared, Target, Other
  <2>. QED
    BY <2>1, <2>2, <2>3, <2>4
<1>9. CASE UserReboot \/ AutoReboot
  <2>. USE <1>9 DEF UserReboot, AutoReboot, RebootCheck, CheckTrial,
      RecordTrial, Target, Other, InstallRest, loop
  <2>1. Superseded'
    BY DEF Superseded, Passed
  <2>2. Remembered'
    BY DEF Superseded, Remembered, Attempted, Cleared, Passed, InSlot,
        Recorded, Unjudged
  <2>3. Attempted'
    BY DEF Attempted, InSlot
  <2>4. Cleared'
    BY DEF Attempted, Cleared, Target, Other
  <2>. QED
    BY <2>1, <2>2, <2>3, <2>4
<1>10. CASE RaucStep /\ ~UNCHANGED image
  <2>. USE <1>10 DEF RaucStep, InstallWrite, InstallSetBad, InstallWritten,
      InstallFail, ArmCmdline, ArmTxt, ArmSync, InstallRest
  <2>1. Superseded'
    BY DEF Superseded, Passed
  <2>2. Remembered'
    BY DEF Superseded, Remembered, Attempted, Cleared, Passed, InSlot,
        Recorded, Unjudged
  <2>3. Attempted'
    BY DEF Attempted, InSlot
  <2>4. Cleared'
    BY DEF Attempted, Cleared, Target, Other
  <2>. QED
    BY <2>1, <2>2, <2>3, <2>4
<1>11. ASSUME Quiet PROVE Verdicts'
  BY <1>11, QuietKeeps
<1>. QED
  BY <1>1, <1>2, <1>3, <1>4, <1>5, <1>6, <1>7, <1>8, <1>9, <1>10, <1>11,
      QuietSteps DEF OtaNext

(* Every verdict stands: a version lost to a rollback before its controller *)
(* started is in its slot and on file until the channel is past it.        *)
LEMMA VerdictsHold == OtaSpec => [](early = 0 => Verdicts)
<1>1. OtaInit => Verdicts
  BY DEF OtaInit, Init, Verdicts, Superseded, Remembered, Attempted, Cleared,
     Up, Slots, None
<1>2. LoopSafe /\ (early = 0 => Verdicts) /\ [OtaNext]_allVars
        => (early = 0 => Verdicts)'
  BY LoopStep, EarlyCounts, TickTypes, VerdictsStep DEF LoopSafe, Safe, Loop_OK
<1>. QED
  BY <1>1, <1>2, LoopInvariant, PTL DEF OtaSpec

(* What the code keeps of system.rs:908-911: no version that a rollback    *)
(* took back before its controller started, the ones the record forgot     *)
(* left out, is installed by the tick again, whatever is published,        *)
(* installed, rebooted or reset in between and wherever power is lost; for *)
(* installs that begin when the trial is settled.  Of a version whose      *)
(* controller started before it failed it says nothing: the code installs  *)
(* that one again.                                                         *)
THEOREM UnstartedStayRefused == OtaSpec => NoReinstallLoop
<1>1. ASSUME Loop_OK, Verdicts, [OtaNext]_allVars, autoPc = "idle", autoPc' = "install"
      PROVE  bundle' \notin lost
  <2>1. AutoInstall
    BY <1>1 DEF OtaNext, allVars, otaVars, loop, ReconcileRest, NextDay,
        Publish, BootAny, GoDownAny, TrialFailedAny, Die, Reconcile,
        ReconcileClear, ReconcileVerdict, ReconcileDrop, Serve, Fail,
        UserReboot, UserReset, ResetMarkers, UserInstall, RebootError,
        AutoSkip, AutoRefused, RaucStep, AutoRecord, AutoReboot, CommitAny
  <2>2. channel \notin lost
    BY <1>1, <2>1, NotAgain DEF AutoInstall, Verdicts
  <2>. QED
    BY <2>1, <2>2 DEF AutoInstall, Begin
<1>2. LoopSafe /\ (early = 0 => Verdicts) /\ [OtaNext]_allVars =>
        [early' = 0 /\ autoPc = "idle" /\ autoPc' = "install"
         => bundle' \notin lost]_allVars
  BY <1>1, LoopStep, EarlyCounts, TickTypes DEF LoopSafe, Safe, Loop_OK
<1>. QED
  BY <1>2, LoopInvariant, VerdictsHold, PTL DEF OtaSpec, NoReinstallLoop
=============================================================================
