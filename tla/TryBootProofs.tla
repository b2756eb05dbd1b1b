--------------------------- MODULE TryBootProofs ---------------------------
(***************************************************************************)
(* Theorems about TryBoot, for every set of images and every probe,        *)
(* restart and environment bound.  Type correctness holds in every         *)
(* setting.  What the health gate and the order of the file operations     *)
(* guarantee holds until an installation begins before the trial it runs   *)
(* beside is settled; the statements name that premise, early = 0, since   *)
(* no code enforces it (TryBoot_early shows what happens without it).  A   *)
(* stop may fall anywhere, inside the copy onto cmdline.txt too, and a     *)
(* power loss leaves any mixture of old, new and broken files that were    *)
(* not synced.  Only the refinement also needs every installation to wait  *)
(* (MaxEarly = 0) and the copy onto cmdline.txt to be atomic (~TornCopy).  *)
(***************************************************************************)
EXTENDS TryBoot, TLAPS

-----------------------------------------------------------------------------
(* Types.                                                                  *)

LEMMA GoDownTypes ==
  ASSUME TypeOK, NEW f \in BOOLEAN, GoDown(f), UNCHANGED bounds
  PROVE  TypeOK' /\ Gate_OK'
<1>. USE DEF GoDown, ProcessesDie, Sync, files, bounds
<1>1. onFailure' \in BOOLEAN /\ flag' \in BOOLEAN
  OBVIOUS
<1>2. TypeOK'
  BY <1>1, ProbesAssumption DEF TypeOK
<1>3. Gate_OK'
  BY ProbesAssumption DEF Gate_OK
<1>. QED
  BY <1>2, <1>3

(* What a power loss leaves is a value of the file's type. *)
LEMMA LossTypes ==
  ASSUME TypeOK, PowerLoss
  PROVE  TypeOK' /\ Gate_OK'
<1>. USE DEF PowerLoss, ProcessesDie, Sync
<1>0. losses' \in 0 .. MaxLosses
  BY BoundsAssumption DEF TypeOK
<1>1. onFailure' \in BOOLEAN /\ flag' \in BOOLEAN
  OBVIOUS
<1>2. /\ cmdline' \in Slots \cup {Torn}
      /\ tryCmdline' \in Slots \cup {None, Torn}
      /\ tryTxt' \in BOOLEAN
  BY DEF TypeOK, Left
<1>3. TypeOK'
  BY <1>0, <1>1, <1>2, ProbesAssumption DEF TypeOK
<1>4. Gate_OK'
  BY ProbesAssumption DEF Gate_OK
<1>. QED
  BY <1>3, <1>4

(* An update of a slot's state is typed, also for a slot that is none.      *)
LEMMA StateTyped ==
  ASSUME TypeOK, NEW s, NEW v \in {"good", "bad"}
  PROVE  [slotState EXCEPT ![s] = v] \in [Slots -> {"good", "bad"}]
<1>1. slotState \in [Slots -> {"good", "bad"}]
  BY DEF TypeOK
<1>. QED
  BY <1>1

(* The types hold together with the ranges of the probe counters and the   *)
(* two facts that make commit's copy write a slot name.                    *)
LEMMA TypeStep ==
  ASSUME TypeOK, Gate_OK, [Next]_vars
  PROVE  TypeOK' /\ Gate_OK'
<1>1. CASE FirmwareBoot
  <2>1. flag' \in BOOLEAN /\ booted' \in Slots \cup {Hung}
    BY <1>1 DEF FirmwareBoot
  <2>. QED
    BY <1>1, <2>1 DEF FirmwareBoot, TypeOK, Gate_OK, Up, Slots, None,
       files, disk, synced, ctrlVars, commitVars, installVars, bounds
<1>2. CASE PowerLoss
  BY <1>2, LossTypes
<1>3. CASE WatchdogReset
  BY <1>3, GoDownTypes DEF WatchdogReset
<1>4. CASE TrialFailed
  <2>1. CASE GoDown(FALSE)
    BY <1>4, <2>1, GoDownTypes DEF TrialFailed
  <2>2. CASE ~GoDown(FALSE)
    <3>1. onFailure' \in BOOLEAN
      BY <1>4, <2>2 DEF TrialFailed
    <3>2. UNCHANGED <<files, disk, booted, flag, ctrl, starts, downtime,
                      commitVars, installVars, rebootPc, proven, bounds>>
      BY <1>4, <2>2 DEF TrialFailed
    <3>. QED
      BY <3>1, <3>2 DEF TypeOK, Gate_OK, Up, files, disk, synced, commitVars,
         installVars, bounds
  <2>. QED
    BY <2>1, <2>2
<1>5. CASE RebootIssue
  <2>1. (rebootPc = "tryboot") \in BOOLEAN
    OBVIOUS
  <2>. QED
    BY <1>5, <2>1, GoDownTypes DEF RebootIssue
<1>7. CASE CommitRmTxt
  <2>1. tryTxt' \in BOOLEAN
    BY <1>7 DEF CommitRmTxt
  <2>. QED
    BY <1>7, <2>1 DEF CommitRmTxt, TypeOK, Gate_OK, Up, disk, synced,
       ctrlVars, installVars, bounds, CommitRest
<1>. USE ProbesAssumption, BoundsAssumption
       DEF TypeOK, Gate_OK, Up, Slots, None, Torn, Other, Target, files, disk, synced,
           ctrlVars, commitVars, installVars, bounds, CommitRest, InstallRest, Sync
<1>6. CASE FactoryReset
  BY <1>6, SMTT(30) DEF FactoryReset
<1>8. CASE CtrlStart
  BY <1>8, SMTT(30) DEF CtrlStart, CountStart
<1>9. CASE CtrlStartFails
  BY <1>9, SMTT(30) DEF CtrlStartFails, CountStart, Fails
<1>10. CASE CtrlFail
  BY <1>10, SMTT(30) DEF CtrlFail, Fails
<1>11. CASE RebootCheck
  BY <1>11, SMTT(30) DEF RebootCheck, CheckTrial
<1>12. CASE CommitStart
  BY <1>12, SMTT(30) DEF CommitStart
<1>13. CASE Probe
  BY <1>13, SMTT(30) DEF Probe
<1>14. CASE CommitMarkGood
  BY <1>14, SMTT(30) DEF CommitMarkGood
<1>15. CASE CommitRead
  BY <1>15, SMTT(30) DEF CommitRead
<1>16. CASE CommitTruncate
  BY <1>16, SMTT(30) DEF CommitTruncate
<1>17. CASE CommitWrite
  BY <1>17, SMTT(30) DEF CommitWrite
<1>18. CASE CommitClearState
  <2>1. slotState' \in [Slots -> {"good", "bad"}]
    BY <1>18, StateTyped DEF CommitClearState
  <2>. QED
    BY <1>18, <2>1 DEF CommitClearState
<1>19. CASE CommitSetBad
  <2>1. slotState' \in [Slots -> {"good", "bad"}]
    BY <1>19, StateTyped DEF CommitSetBad
  <2>. QED
    BY <1>19, <2>1 DEF CommitSetBad
<1>20. CASE CommitRmCmdline
  BY <1>20, SMTT(30) DEF CommitRmCmdline
<1>21. ASSUME NEW b \in Images, InstallStart(b)
       PROVE  TypeOK' /\ Gate_OK'
  BY <1>21, SMTT(30) DEF InstallStart, Begin
<1>22. CASE InstallSetBad
  BY <1>22, SMTT(30) DEF InstallSetBad
<1>23. CASE InstallWrite
  BY <1>23, SMTT(30) DEF InstallWrite
<1>24. CASE InstallWritten
  BY <1>24, SMTT(30) DEF InstallWritten
<1>25. CASE InstallFail
  BY <1>25, SMTT(30) DEF InstallFail
<1>26. CASE ArmCmdline
  BY <1>26, SMTT(30) DEF ArmCmdline
<1>27. CASE ArmTxt
  BY <1>27, SMTT(30) DEF ArmTxt
<1>28. CASE UNCHANGED vars
  BY <1>28 DEF vars
<1>29. CASE RebootFails
  BY <1>29, SMTT(30) DEF RebootFails
<1>30. CASE CommitSync
  BY <1>30, SMTT(30) DEF CommitSync
<1>31. CASE ArmSync
  BY <1>31, SMTT(30) DEF ArmSync
<1>. QED
  BY <1>1, <1>2, <1>3, <1>4, <1>5, <1>6, <1>7, <1>8, <1>9, <1>10, <1>11,
     <1>12, <1>13, <1>14, <1>15, <1>16, <1>17, <1>18, <1>19, <1>20, <1>21,
     <1>22, <1>23, <1>24, <1>25, <1>26, <1>27, <1>28, <1>29, <1>30, <1>31
  DEF Next, Commit, Install

LEMMA TypeInit == Init => TypeOK /\ Gate_OK
<1>. SUFFICES ASSUME Init PROVE TypeOK /\ Gate_OK
  OBVIOUS
<1>1. /\ tryTxt \in BOOLEAN /\ flag \in BOOLEAN /\ onFailure \in BOOLEAN
      /\ tryTxtSynced \in BOOLEAN
  BY DEF Init
<1>2. TypeOK
  <2>1. image \in [Slots -> Images \cup {Partial}]
    BY ImagesAssumption DEF Init
  <2>2. proven \in [Slots -> BOOLEAN]
    BY Zenon DEF Init
  <2>3. /\ cmdline \in Slots \cup {Torn} /\ tryCmdline \in Slots \cup {None, Torn}
        /\ slotState \in [Slots -> {"good", "bad"}]
    BY DEF Init, Slots
  <2>. QED
    BY <1>1, <2>1, <2>2, <2>3, ProbesAssumption, BoundsAssumption DEF Init, TypeOK
<1>3. Gate_OK
  BY DEF Init, Gate_OK
<1>. QED
  BY <1>2, <1>3

(* Type correctness, in every setting: a commit never writes anything but  *)
(* a slot over cmdline.txt, and never probes past its budget, even when an *)
(* install interleaves with it or the machine stops inside the copy.       *)
THEOREM TypeCorrect == Spec => []TypeOK
<1>1. (TypeOK /\ Gate_OK) /\ [Next]_vars => (TypeOK /\ Gate_OK)'
  BY TypeStep
<1>. QED
  BY <1>1, TypeInit, PTL DEF Spec

-----------------------------------------------------------------------------
(* The inductive invariant.                                                *)

(* A shutdown keeps the invariant: the files stay, and every process is    *)
(* back at its start.                                                      *)
LEMMA GoDownStep ==
  ASSUME IInv, TypeOK', Gate_OK', NEW f \in BOOLEAN, GoDown(f)
  PROVE  IInv'
<1>. USE DEF IInv, GoDown, ProcessesDie, Sync, files
<1>1. ~Up'
  BY DEF Up, Slots, None
<1>2. Phases'
  BY <1>1 DEF Phases
<1>3. Medium_OK'
  BY DEF Medium_OK, InBootRw
<1>4. Images_OK'
  BY <1>1 DEF Images_OK
<1>5. Commit_OK'
  BY DEF Commit_OK, Deciding
<1>6. Trial_OK'
  BY <1>1 DEF Trial_OK
<1>. QED
  BY <1>1, <1>2, <1>3, <1>4, <1>5, <1>6

(* So does a power loss, whatever it leaves: the slot cmdline.txt names is *)
(* the one it named, or the one it named at the last sync.                 *)
LEMMA PowerLossStep ==
  ASSUME IInv, TypeOK', Gate_OK', PowerLoss
  PROVE  IInv'
<1>. USE DEF IInv, PowerLoss, ProcessesDie, Sync
<1>1. ~Up'
  BY DEF Up, Slots, None
<1>2. Phases'
  BY <1>1 DEF Phases
<1>3. Medium_OK'
  BY DEF Medium_OK, InBootRw
<1>4. Images_OK'
  <2>1. cmdline' \in {cmdline, cmdlineSynced, Torn}
    BY DEF Left
  <2>2. cmdline' = Torn => TornCopy
    BY DEF Left
  <2>3. cmdline' \in Slots => proven[cmdline']
    BY <2>1 DEF Images_OK, Slots, Torn
  <2>. QED
    BY <1>1, <2>2, <2>3 DEF Images_OK
<1>5. Commit_OK'
  BY DEF Commit_OK, Deciding
<1>6. Trial_OK'
  BY <1>1 DEF Trial_OK
<1>. QED
  BY <1>1, <1>2, <1>3, <1>4, <1>5, <1>6

(* The firmware brings up the slot cmdline.txt names, or the other one     *)
(* through the armed trial, or hangs.                                      *)
LEMMA FirmwareBootStep ==
  ASSUME IInv, TypeOK', Gate_OK', FirmwareBoot
  PROVE  IInv'
<1>. USE DEF IInv, FirmwareBoot, files, disk, synced, ctrlVars, commitVars,
             installVars, bounds
<1>1. commitPc = "start" /\ commitPc' = "start" /\ installPc' = "idle"
  BY DEF Phases, Up, Slots, None
<1>2. Up' => booted' = BootSlot /\ image[booted'] \in Boots
  BY DEF Up, Slots, Hung
<1>3. Phases'
  BY DEF Phases, Up, Slots, None
<1>4. Medium_OK'
  BY <1>1 DEF Medium_OK, InBootRw, Phases, Up, Slots, None
<1>5. Images_OK'
  BY <1>1, <1>2 DEF Images_OK
<1>6. Commit_OK'
  BY <1>1 DEF Commit_OK, Deciding
<1>7. Trial_OK'
  BY <1>2 DEF Trial_OK, BootSlot
<1>. QED
  BY <1>3, <1>4, <1>5, <1>6, <1>7

(* Dropping tryboot.txt: the running slot is the committed one by then, or *)
(* the trial was another slot.                                             *)
LEMMA CommitRmTxtStep ==
  ASSUME IInv, TypeOK', Gate_OK', CommitRmTxt
  PROVE  IInv'
<1>. USE DEF IInv, CommitRmTxt, disk, synced, ctrlVars, installVars, bounds, CommitRest
<1>1. Phases'
  BY DEF Phases, Up, Target
<1>2. Images_OK'
  BY DEF Images_OK, Up
<1>3. Commit_OK'
  BY DEF Commit_OK, Deciding
<1>4. Trial_OK'
  BY DEF Trial_OK, Up, Commit_OK
<1>5. Medium_OK'
  BY DEF Medium_OK, InBootRw, Phases
<1>. QED
  BY <1>1, <1>2, <1>3, <1>4, <1>5

(* Every step keeps the invariant but an installation that begins early. *)
LEMMA InvStep ==
  ASSUME IInv, [Next]_vars, early = 0, early' = 0
  PROVE  IInv'
<1>0. TypeOK' /\ Gate_OK'
  BY TypeStep DEF IInv
<1>1. CASE FirmwareBoot
  BY <1>0, <1>1, FirmwareBootStep
<1>2. CASE WatchdogReset \/ RebootIssue
  <2>1. PICK f \in BOOLEAN : GoDown(f)
    BY <1>2 DEF WatchdogReset, RebootIssue
  <2>. QED
    BY <1>0, <2>1, GoDownStep
<1>3. CASE TrialFailed
  <2>1. CASE GoDown(FALSE)
    BY <1>0, <2>1, GoDownStep
  <2>2. CASE ~GoDown(FALSE)
    <3>1. UNCHANGED <<files, disk, booted, flag, ctrl, starts, downtime,
                      commitVars, installVars, rebootPc, proven, bounds>>
      BY <1>3, <2>2 DEF TrialFailed
    <3>. QED
      BY <1>0, <3>1 DEF IInv, Phases, Medium_OK, InBootRw, Images_OK, Commit_OK,
        Trial_OK, Up, Target, files, disk, synced, commitVars, installVars, bounds
  <2>. QED
    BY <2>1, <2>2
<1>4. CASE CommitRmTxt
  BY <1>0, <1>4, CommitRmTxtStep
<1>. USE <1>0, ImagesAssumption, ProbesAssumption
       DEF IInv, TypeOK, Gate_OK, Phases, Medium_OK, Images_OK, Commit_OK,
           Trial_OK, InBootRw, Deciding, Up, Slots, None, Hung, Torn, Other,
           Target, files, disk, synced, ctrlVars, commitVars, installVars,
           bounds, CommitRest, InstallRest, TrialFiles, Settled, Sync
<1>5. CASE CtrlStart
  BY <1>5, SMTT(30) DEF CtrlStart
<1>6. CASE CtrlStartFails
  BY <1>6, SMTT(30) DEF CtrlStartFails, Fails
<1>7. CASE CtrlFail
  BY <1>7, SMTT(30) DEF CtrlFail, Fails
<1>8. CASE RebootCheck
  BY <1>8, SMTT(30) DEF RebootCheck, CheckTrial
<1>9. CASE CommitStart
  BY <1>9, SMTT(30) DEF CommitStart
<1>10. CASE Probe
  BY <1>10, SMTT(30) DEF Probe
<1>11. CASE CommitMarkGood
  BY <1>11, SMTT(30) DEF CommitMarkGood
<1>12. CASE CommitRead
  BY <1>12, SMTT(30) DEF CommitRead
<1>13. CASE CommitTruncate
  BY <1>13, SMTT(30) DEF CommitTruncate
<1>14. CASE CommitWrite
  BY <1>14, SMTT(30) DEF CommitWrite
<1>15. CASE CommitClearState
  BY <1>15, SMTT(30) DEF CommitClearState
<1>16. CASE CommitSetBad
  BY <1>16, SMTT(30) DEF CommitSetBad
<1>17. CASE CommitRmCmdline
  BY <1>17, SMTT(30) DEF CommitRmCmdline
<1>18. ASSUME NEW b \in Images, InstallStart(b)
       PROVE  IInv'
  BY <1>18, SMTT(30) DEF InstallStart, Begin
<1>19. CASE InstallSetBad
  BY <1>19, SMTT(30) DEF InstallSetBad
<1>20. CASE InstallWrite
  BY <1>20, SMTT(30) DEF InstallWrite
<1>21. CASE InstallWritten
  BY <1>21, SMTT(30) DEF InstallWritten
<1>22. CASE InstallFail
  BY <1>22, SMTT(30) DEF InstallFail
<1>23. CASE ArmCmdline
  BY <1>23, SMTT(30) DEF ArmCmdline
<1>24. CASE ArmTxt
  BY <1>24, SMTT(30) DEF ArmTxt
<1>25. CASE UNCHANGED vars
  BY <1>25 DEF vars
<1>26. CASE RebootFails
  BY <1>26, SMTT(30) DEF RebootFails
<1>27. CASE PowerLoss
  BY <1>27, PowerLossStep
<1>28. CASE FactoryReset
  BY <1>28, SMTT(30) DEF FactoryReset
<1>29. CASE CommitSync
  BY <1>29, SMTT(30) DEF CommitSync
<1>30. CASE ArmSync
  BY <1>30, SMTT(30) DEF ArmSync
<1>. QED
  BY <1>1, <1>2, <1>3, <1>4, <1>5, <1>6, <1>7, <1>8, <1>9, <1>10, <1>11,
     <1>12, <1>13, <1>14, <1>15, <1>16, <1>17, <1>18, <1>19, <1>20, <1>21,
     <1>22, <1>23, <1>24, <1>25, <1>26, <1>27, <1>28, <1>29, <1>30
  DEF Next, Commit, Install

(* The initial states satisfy the invariant. *)
LEMMA InvInit == Init => IInv
<1>. SUFFICES ASSUME Init PROVE IInv
  OBVIOUS
<1>1. ~Up
  BY DEF Init, Up, Slots, None
<1>2. Phases /\ Medium_OK /\ Trial_OK
  BY <1>1 DEF Init, Phases, Medium_OK, Trial_OK
<1>3. Images_OK
  BY <1>1, ImagesAssumption DEF Init, Images_OK, Slots, Torn
<1>4. Commit_OK
  BY DEF Init, Commit_OK, Deciding
<1>. QED
  BY <1>2, <1>3, <1>4, TypeInit DEF IInv

(* An early installation is never forgotten. *)
LEMMA EarlyCounts ==
  ASSUME TypeOK, [Next]_vars, early' = 0
  PROVE  early = 0
BY BoundsAssumption
DEF TypeOK, Next, Commit, Install, vars, bounds, GoDown, FirmwareBoot,
    PowerLoss, WatchdogReset, CtrlStart, CtrlStartFails, CtrlFail, Fails,
    TrialFailed, RebootCheck, CheckTrial, RebootIssue, RebootFails,
    FactoryReset, CommitStart, Probe, CommitMarkGood, CommitRead,
    CommitTruncate, CommitWrite, CommitClearState, CommitSetBad, CommitRmTxt,
    CommitRmCmdline, CommitSync, CommitRest, InstallStart, Begin,
    InstallSetBad, InstallWrite, InstallWritten, InstallFail, ArmCmdline,
    ArmTxt, ArmSync

Safe == TypeOK /\ Gate_OK /\ (early = 0 => IInv)

(* The inductive invariant holds until an installation begins before the   *)
(* verdict on its boot, however often power is lost and wherever.          *)
THEOREM Invariant == Spec => [](early = 0 => IInv)
<1>1. Safe /\ [Next]_vars => Safe'
  BY InvStep, TypeStep, EarlyCounts DEF Safe
<1>2. Init => Safe
  BY InvInit, TypeInit DEF Safe
<1>3. Safe => (early = 0 => IInv)
  BY DEF Safe
<1>. QED
  BY <1>1, <1>2, <1>3, PTL DEF Spec

(* A normal boot selects a slot whose image came up and passed the health  *)
(* gate, whatever image was installed and whatever a stop left of the      *)
(* files, until an installation begins before its boot's trial is settled. *)
THEOREM CommittedIsKnownGood == Spec => []LastKnownGood
<1>1. (early = 0 => IInv) => LastKnownGood
  BY DEF IInv, Images_OK, LastKnownGood, CommittedGood
<1>. QED
  BY <1>1, Invariant, PTL

(* What changes the trial files: the two removals of commit, the two       *)
(* writes of set-primary, a power loss.                                    *)
LEMMA TrialFileSteps ==
  ASSUME [Next]_vars, ~UNCHANGED <<tryCmdline, tryTxt>>
  PROVE  \/ CommitRmTxt \/ CommitRmCmdline \/ ArmCmdline \/ ArmTxt \/ PowerLoss
BY DEF Next, Commit, Install, vars, files, GoDown, FirmwareBoot,
      WatchdogReset, CtrlStart, CtrlStartFails, CtrlFail, Fails,
      TrialFailed, RebootCheck, CheckTrial, RebootIssue, RebootFails,
      FactoryReset, CommitStart, Probe, CommitMarkGood, CommitRead,
      CommitTruncate, CommitWrite, CommitClearState, CommitSetBad, CommitSync,
      InstallStart, Begin, InstallSetBad, InstallWrite, InstallWritten,
      InstallFail, ArmSync

(* The same for cmdline.txt. *)
LEMMA CmdlineSteps ==
  ASSUME [Next]_vars, ~UNCHANGED cmdline
  PROVE  CommitTruncate \/ CommitWrite \/ PowerLoss
BY DEF Next, Commit, Install, vars, files, GoDown, FirmwareBoot,
      WatchdogReset, CtrlStart, CtrlStartFails, CtrlFail, Fails,
      TrialFailed, RebootCheck, CheckTrial, RebootIssue, RebootFails,
      FactoryReset, CommitStart, Probe, CommitMarkGood, CommitRead,
      CommitClearState, CommitSetBad, CommitRmTxt, CommitRmCmdline, CommitSync,
      InstallStart, Begin, InstallSetBad, InstallWrite, InstallWritten,
      InstallFail, ArmCmdline, ArmTxt, ArmSync

(* What a step does to the firmware's pointer. *)
LEMMA PointerStep ==
  ASSUME IInv, [Next]_vars, PointerUsable, ~PointerUsable'
  PROVE  booted' = None /\ InBootRw
<1>1. CASE CommitRmTxt \/ CommitRmCmdline
  BY <1>1 DEF CommitRmTxt, CommitRmCmdline, PointerUsable, IInv, Commit_OK
<1>2. CASE ArmCmdline \/ ArmTxt
  BY <1>2 DEF ArmCmdline, ArmTxt, PointerUsable, IInv, Phases, Target, Other, Slots
<1>3. CASE PowerLoss
  BY <1>3 DEF PowerLoss, ProcessesDie, PointerUsable, Left, IInv, Medium_OK
<1>. QED
  BY <1>1, <1>2, <1>3, TrialFileSteps DEF PointerUsable

(* Nothing but a power loss inside set-primary or commit, before its sync, *)
(* leaves the firmware a pointer to a command line that is not there, and  *)
(* no power loss does once the sync is over.                               *)
THEOREM TrialPointerSound == Spec => TrialConfigUsable
<1>1. (early = 0 => IInv) /\ [Next]_vars =>
        [early = 0 /\ PointerUsable /\ ~PointerUsable'
         => booted' = None /\ InBootRw]_vars
  BY PointerStep
<1>. QED
  BY <1>1, Invariant, PTL DEF TrialConfigUsable, Spec

(* Only the end of commit's copy makes cmdline.txt name another slot; a    *)
(* power loss may bring back the one it named at the last sync.            *)
LEMMA PromotionStep ==
  ASSUME IInv, [Next]_vars, cmdline' # cmdline, cmdline' \in Slots
  PROVE  \/ booted = cmdline' /\ okProbes >= NeedOk
         \/ booted' = None /\ cmdline' = cmdlineSynced
<1>1. CASE CommitTruncate
  BY <1>1 DEF CommitTruncate, Slots, Torn
<1>2. CASE CommitWrite
  BY <1>2 DEF CommitWrite, IInv, Commit_OK, Deciding
<1>3. CASE PowerLoss
  BY <1>3 DEF PowerLoss, ProcessesDie, Left, Slots, Torn
<1>. QED
  BY <1>1, <1>2, <1>3, CmdlineSteps

(* cmdline.txt comes to name a slot at the end of commit's copy, in a boot *)
(* of that slot whose controller answered NeedOk probes in a row, or by a  *)
(* power loss that leaves it as it was at the last sync.                   *)
THEOREM PromotionIsHealthy == Spec => PromoteOnlyHealthy
<1>1. (early = 0 => IInv) /\ [Next]_vars =>
        [early = 0 /\ cmdline' # cmdline /\ cmdline' \in Slots
         => \/ booted = cmdline' /\ okProbes >= NeedOk
            \/ booted' = None /\ cmdline' = cmdlineSynced]_vars
  BY PromotionStep
<1>. QED
  BY <1>1, Invariant, PTL DEF PromoteOnlyHealthy, Spec

(* While the machine runs, only the end of commit removes                  *)
(* tryboot-cmdline.txt.                                                    *)
LEMMA ForgettingStep ==
  ASSUME IInv, [Next]_vars, booted' # None,
         tryCmdline \in Slots, tryCmdline' = None
  PROVE  tryCmdline = cmdline \/ slotState[tryCmdline] = "bad"
<1>1. CASE CommitRmCmdline
  BY <1>1 DEF CommitRmCmdline, IInv, Commit_OK
<1>2. CASE CommitRmTxt \/ ArmCmdline \/ ArmTxt \/ PowerLoss
  BY <1>2 DEF CommitRmTxt, ArmCmdline, ArmTxt, PowerLoss, ProcessesDie,
     Target, Other, Slots, None
<1>. QED
  BY <1>1, <1>2, TrialFileSteps DEF Slots, None

(* While the machine runs, tryboot-cmdline.txt goes only when the slot it  *)
(* names is committed or on record as bad.                                 *)
THEOREM VerdictBeforeForgetting == Spec => NoTrialForgotten
<1>1. (early = 0 => IInv) /\ [Next]_vars =>
        [early = 0 /\ booted' # None /\ tryCmdline \in Slots /\ tryCmdline' = None
         => tryCmdline = cmdline \/ slotState[tryCmdline] = "bad"]_vars
  BY ForgettingStep
<1>. QED
  BY <1>1, Invariant, PTL DEF NoTrialForgotten, Spec

-----------------------------------------------------------------------------
(* The refinement.  The files and processes of TryBoot implement the       *)
(* abstract A/B trial, which sees what the medium holds: each step is one  *)
(* abstract step or none.                                                  *)

(* What the medium may still hold while commit has not synced: the trial   *)
(* that commit promotes, and no trial that the programs do not see there.  *)
Removing == {"rmTxt", "rmCmdline", "sync"}
Pending_OK ==
  /\ commitPc \in Removing \cup {"write"} =>
       \/ cmdlineSynced = booted
       \/ tryTxtSynced /\ tryCmdlineSynced = booted
  /\ commitPc \in Removing => /\ tryTxt => tryTxtSynced
                              /\ tryCmdline \in {tryCmdlineSynced, None}

LEMMA PendingStep ==
  ASSUME IInv, Pending_OK, [Next]_vars
  PROVE  Pending_OK'
<1>. USE DEF Pending_OK, Removing
<1>1. CASE PowerLoss \/ WatchdogReset \/ RebootIssue
  BY <1>1 DEF PowerLoss, WatchdogReset, RebootIssue, GoDown, ProcessesDie
<1>2. CASE TrialFailed
  BY <1>2 DEF TrialFailed, GoDown, ProcessesDie, files, disk, synced, commitVars
<1>3. CASE FirmwareBoot
  BY <1>3 DEF FirmwareBoot, files, commitVars, IInv, Phases, Up, Slots, None
<1>4. CASE CommitTruncate
  BY <1>4 DEF CommitTruncate, CommitRest, disk, synced, IInv, Commit_OK,
     Trial_OK, Medium_OK, InBootRw, Gate_OK, Phases
<1>5. CASE CommitWrite
  BY <1>5 DEF CommitWrite, CommitRest, disk, synced, IInv, Medium_OK
<1>6. CASE CommitRmTxt \/ CommitRmCmdline
  BY <1>6 DEF CommitRmTxt, CommitRmCmdline, CommitRest, disk, synced
<1>7. CASE CommitRead
  BY <1>7 DEF CommitRead, CommitRest, files, disk, synced, IInv, TypeOK,
     Medium_OK, InBootRw, Phases, Trial_OK
<1>8. CASE CommitSetBad
  BY <1>8 DEF CommitSetBad, CommitRest, files, synced, IInv, Medium_OK,
     InBootRw, Phases, Trial_OK, Commit_OK, Gate_OK
<1>9. CASE CommitSync
  BY <1>9 DEF CommitSync
<1>10. CASE CommitStart \/ Probe \/ CommitMarkGood \/ CommitClearState
  BY <1>10 DEF CommitStart, Probe, CommitMarkGood, CommitClearState
<1>11. CASE ArmCmdline \/ ArmTxt \/ ArmSync
  BY <1>11 DEF ArmCmdline, ArmTxt, ArmSync, InstallRest, commitVars, IInv, Phases
<1>12. CASE \/ CtrlStart \/ CtrlStartFails \/ CtrlFail \/ RebootCheck
            \/ RebootFails \/ FactoryReset
            \/ \E b \in Images : InstallStart(b)
            \/ InstallSetBad \/ InstallWrite \/ InstallWritten \/ InstallFail
            \/ UNCHANGED vars
  BY <1>12
  DEF CtrlStart, CtrlStartFails, CtrlFail, Fails, RebootCheck, CheckTrial,
      RebootFails, FactoryReset, InstallStart, Begin, InstallSetBad,
      InstallWrite, InstallWritten, InstallFail, vars, files, disk, synced,
      commitVars, InstallRest
<1>. QED
  BY <1>1, <1>2, <1>3, <1>4, <1>5, <1>6, <1>7, <1>8, <1>9, <1>10, <1>11,
     <1>12
  DEF Next, Commit, Install

(* The steps that change none of the state the abstract trial sees. *)
Visible == <<cmdlineSynced, tryCmdlineSynced, tryTxtSynced, booted, flag>>
OnTrial == IF tryTxtSynced /\ tryCmdlineSynced \in Slots
           THEN tryCmdlineSynced ELSE None

LEMMA HiddenStep ==
  ASSUME UNCHANGED Visible
  PROVE  UNCHANGED Abstract!vars
BY DEF Visible, Abstract!vars, Up

(* With an atomic copy the medium always names a slot. *)
LEMMA NotTorn ==
  ASSUME IInv, ~TornCopy
  PROVE  /\ cmdlineSynced \in Slots
         /\ commitPc # "write" => cmdline \in Slots
BY DEF IInv, TypeOK, Images_OK

(* Whatever takes the machine down is the abstract Stop: what it leaves of *)
(* cmdline.txt is what the medium held or the slot that was running on     *)
(* trial, and what it leaves of the trial's files is the trial the medium  *)
(* held, or none, or what set-primary was arming.                          *)
LEMMA StopStep ==
  ASSUME IInv, Pending_OK, ~TornCopy, NEW f \in BOOLEAN,
         GoDown(f) \/ PowerLoss
  PROVE  Abstract!Stop
<1>. DEFINE running == IF Up THEN booted ELSE None
<1>1. running' = None
  BY DEF GoDown, PowerLoss, ProcessesDie, Up, Slots, None
<1>2. flag' \in BOOLEAN
  BY DEF GoDown, PowerLoss
<1>3. /\ cmdlineSynced' \in {cmdline, cmdlineSynced} \ {Torn}
      /\ tryCmdlineSynced' \in {tryCmdline, tryCmdlineSynced, Torn}
      /\ tryTxtSynced' \in {tryTxt, tryTxtSynced}
  <2>1. CASE GoDown(f)
    BY <2>1, NotTorn DEF GoDown, ProcessesDie, Sync, files, Slots, Torn
  <2>2. CASE PowerLoss
    BY <2>2 DEF PowerLoss, ProcessesDie, Sync, Left
  <2>. QED
    BY <2>1, <2>2
<1>4. CASE ~InBootRw
  <2>1. /\ cmdlineSynced' = cmdlineSynced
        /\ tryTxtSynced' = tryTxtSynced
    BY <1>3, <1>4 DEF IInv, Medium_OK
  <2>2. tryCmdlineSynced' = tryCmdlineSynced
    <3>1. CASE GoDown(f)
      BY <3>1, <1>4 DEF GoDown, Sync, files, IInv, Medium_OK
    <3>2. CASE PowerLoss
      BY <3>2, <1>4 DEF PowerLoss, Sync, Left, IInv, Medium_OK
    <3>. QED
      BY <3>1, <3>2
  <2>3. OnTrial' = OnTrial
    BY <2>1, <2>2 DEF OnTrial
  <2>. QED
    BY <1>1, <1>2, <2>1, <2>3 DEF Abstract!Stop, OnTrial
<1>5. CASE installPc \in {"armTxt", "armSync"}
  <2>1. Up /\ cmdlineSynced = booted /\ cmdline = booted
    BY <1>5 DEF IInv, Phases, Medium_OK
  <2>2. cmdlineSynced' = cmdlineSynced /\ running = cmdlineSynced
    BY <1>3, <2>1
  <2>3. OnTrial' \in Slots \cup {None} /\ running # None
    BY <2>1 DEF OnTrial, Up, Slots, None
  <2>. QED
    BY <1>1, <1>2, <2>2, <2>3 DEF Abstract!Stop, OnTrial
<1>6. CASE commitPc \in Removing \cup {"write"}
  <2>1. Up /\ running = booted /\ running # None
    BY <1>6 DEF IInv, Gate_OK, Removing, Up, Slots, None
  <2>2. commitPc # "write" => cmdline = booted
    BY <1>6 DEF IInv, Commit_OK, Removing
  <2>3. commitPc = "write" => cmdline = Torn
    BY DEF IInv, Images_OK
  <2>4. \/ cmdlineSynced' = cmdlineSynced
        \/ cmdlineSynced' = booted /\ OnTrial = booted
    BY <1>3, <1>6, <2>1, <2>2, <2>3 DEF Pending_OK, OnTrial, Up
  <2>5. OnTrial' \in {OnTrial, None}
    <3>1. /\ tryTxt => tryTxtSynced
          /\ tryCmdline \in {tryCmdlineSynced, None}
      BY <1>6 DEF Pending_OK, IInv, Medium_OK, Removing
    <3>. QED
      BY <1>3, <3>1 DEF OnTrial, Slots, None, Torn
  <2>. QED
    BY <1>1, <1>2, <2>1, <2>4, <2>5 DEF Abstract!Stop, OnTrial
<1>. QED
  BY <1>4, <1>5, <1>6 DEF InBootRw, Removing

(* What the firmware starts is what the abstract boot starts. *)
LEMMA BootStep ==
  ASSUME IInv, ~TornCopy, FirmwareBoot
  PROVE  Abstract!BootCommitted \/ Abstract!BootTrial
<1>1. /\ ~Up
      /\ UNCHANGED <<cmdlineSynced, tryCmdlineSynced, tryTxtSynced>>
      /\ flag' = FALSE
  BY DEF FirmwareBoot, disk, synced, Up, Slots, None
<1>2. /\ cmdlineSynced = cmdline
      /\ tryCmdlineSynced = tryCmdline
      /\ tryTxtSynced = tryTxt
  BY <1>1 DEF IInv, Phases, Medium_OK, InBootRw
<1>3. cmdline \in Slots /\ image[cmdline] \in Boots
  BY <1>2, NotTorn DEF IInv, Images_OK
<1>4. OnTrial' = OnTrial
  BY <1>1 DEF OnTrial
<1>5. CASE flag /\ tryTxt
  <2>1. booted' = Hung \/ (tryCmdline \in Slots /\ booted' = tryCmdline)
    BY <1>5 DEF FirmwareBoot, BootSlot
  <2>2. (IF Up THEN booted ELSE None)' \in {None, OnTrial}
    BY <1>2, <1>5, <2>1 DEF Up, OnTrial, Slots, None, Hung
  <2>3. OnTrial = None => (IF Up THEN booted ELSE None)' = None
    BY <2>2
  <2>. QED
    BY <1>1, <1>4, <1>5, <2>2, <2>3 DEF Abstract!BootTrial, OnTrial
<1>6. CASE ~(flag /\ tryTxt)
  <2>1. booted' = cmdline
    BY <1>3, <1>6 DEF FirmwareBoot, BootSlot
  <2>2. (IF Up THEN booted ELSE None)' = cmdlineSynced
    BY <1>2, <1>3, <2>1 DEF Up
  <2>3. flag => OnTrial = None
    BY <1>2, <1>6 DEF OnTrial
  <2>4. flag \in BOOLEAN
    BY DEF IInv, TypeOK
  <2>. QED
    BY <1>1, <1>4, <2>2, <2>3, <2>4 DEF Abstract!BootTrial,
       Abstract!BootCommitted, OnTrial
<1>. QED
  BY <1>5, <1>6

LEMMA RefineStep ==
  ASSUME IInv, Pending_OK, [Next]_vars, ~TornCopy
  PROVE  [Abstract!Next]_(Abstract!vars)
<1>1. CASE FirmwareBoot
  BY <1>1, BootStep DEF Abstract!Next
<1>2. CASE PowerLoss \/ WatchdogReset \/ RebootIssue
  <2>1. PICK f \in BOOLEAN : GoDown(f) \/ PowerLoss
    BY <1>2 DEF WatchdogReset, RebootIssue
  <2>. QED
    BY <2>1, StopStep DEF Abstract!Next
<1>3. CASE TrialFailed
  <2>1. CASE GoDown(FALSE)
    BY <2>1, StopStep DEF Abstract!Next
  <2>2. CASE ~GoDown(FALSE)
    BY <1>3, <2>2, HiddenStep DEF TrialFailed, disk, synced, Visible
  <2>. QED
    BY <2>1, <2>2
<1>4. CASE CommitSync
  <2>1. Up /\ booted # None /\ UNCHANGED <<booted, flag>>
    BY <1>4 DEF CommitSync, IInv, Gate_OK, Up, Slots, None
  <2>2. cmdlineSynced' = booted /\ OnTrial' = None
    BY <1>4 DEF CommitSync, Sync, files, IInv, Commit_OK, OnTrial
  <2>3. CASE cmdlineSynced = booted
    BY <2>1, <2>2, <2>3 DEF Abstract!Next, Abstract!Forget, OnTrial, Up
  <2>4. CASE cmdlineSynced # booted
    <3>1. OnTrial = booted
      BY <1>4, <2>1, <2>4 DEF Pending_OK, Removing, CommitSync, OnTrial, Up
    <3>. QED
      BY <2>1, <2>2, <3>1 DEF Abstract!Next, Abstract!Promote, OnTrial, Up
  <2>. QED
    BY <2>3, <2>4
<1>5. CASE ArmSync
  <2>1. /\ Up /\ booted \in Slots /\ cmdlineSynced = booted
        /\ UNCHANGED <<booted, flag>>
    BY <1>5 DEF ArmSync, IInv, Phases, Medium_OK, Up
  <2>2. Target \in Slots /\ Target # booted
    BY <2>1 DEF Target, Other, Slots
  <2>3. cmdlineSynced' = cmdlineSynced /\ OnTrial' = Target
    BY <1>5, <2>1, <2>2 DEF ArmSync, Sync, files, IInv, Phases, OnTrial
  <2>4. Abstract!Arm(Target)
    BY <2>1, <2>2, <2>3 DEF Abstract!Arm, OnTrial, Up
  <2>. QED
    BY <2>2, <2>4 DEF Abstract!Next
<1>6. CASE \/ CtrlStart \/ CtrlStartFails \/ CtrlFail \/ RebootCheck
           \/ RebootFails \/ FactoryReset
           \/ CommitStart \/ Probe \/ CommitMarkGood \/ CommitRead
           \/ CommitTruncate \/ CommitWrite
           \/ CommitClearState \/ CommitSetBad
           \/ CommitRmTxt \/ CommitRmCmdline
           \/ \E b \in Images : InstallStart(b)
           \/ InstallSetBad \/ InstallWrite \/ InstallWritten \/ InstallFail
           \/ ArmCmdline \/ ArmTxt
           \/ UNCHANGED vars
  <2>1. UNCHANGED Visible
    BY <1>6
    DEF CtrlStart, CtrlStartFails, CtrlFail, Fails, RebootCheck, CheckTrial,
        RebootFails, FactoryReset, CommitStart, Probe, CommitMarkGood,
        CommitRead, CommitTruncate, CommitWrite, CommitClearState,
        CommitSetBad, CommitRmTxt, CommitRmCmdline, InstallStart, Begin,
        InstallSetBad, InstallWrite, InstallWritten, InstallFail,
        ArmCmdline, ArmTxt, vars, disk, synced, Visible, CommitRest,
        InstallRest
  <2>. QED
    BY <2>1, HiddenStep
<1>. QED
  BY <1>1, <1>2, <1>3, <1>4, <1>5, <1>6 DEF Next, Commit, Install

(* When every installation waits for the trial of its boot and the copy    *)
(* onto cmdline.txt is atomic - neither of which the code guarantees - the *)
(* backend is the abstract A/B trial, in every step, power losses          *)
(* included.                                                               *)
THEOREM Refinement ==
  ASSUME MaxEarly = 0, ~TornCopy
  PROVE  Spec => ImplementsSlotTrial
<1>1. Init => Abstract!Init
  BY DEF Init, Abstract!Init, Up, Slots, None
<1>2. TypeOK => early = 0
  BY DEF TypeOK
<1>3. Init => Pending_OK
  BY DEF Init, Pending_OK, Removing
<1>4. (early = 0 => IInv) /\ TypeOK /\ Pending_OK /\ [Next]_vars => Pending_OK'
  BY <1>2, PendingStep
<1>5. (early = 0 => IInv) /\ TypeOK /\ Pending_OK /\ [Next]_vars
        => [Abstract!Next]_(Abstract!vars)
  BY <1>2, RefineStep
<1>. QED
  BY <1>1, <1>3, <1>4, <1>5, Invariant, TypeCorrect, PTL
  DEF Spec, ImplementsSlotTrial, Abstract!Spec
=============================================================================
