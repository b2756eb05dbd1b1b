------------------------- MODULE UpdateClientProofs -------------------------
(***************************************************************************)
(* Theorems about UpdateClient, for every number of slots from two, every  *)
(* set of images, every version an image may report and every bound on     *)
(* mishaps.  What the updater reports is proved however often the device   *)
(* loses power, the controller crashes, an answer is lost or the deadline  *)
(* falls early, and whichever order that happens in; only another client   *)
(* that installs, uploads or reboots is excluded, as in the properties.    *)
(***************************************************************************)
EXTENDS UpdateClient, TLAPS

(* The requests the updater has made before it asks for an installation.   *)
Before == {"login", "info", "health", "slot", "upload", "uploading", "trigger"}
Steps == Before \cup {"poll", "reboot", "wait", "last", "slots", "done"}

(* What a device can say of itself, or nothing.                            *)
Versions == {Describe[i] : i \in Images \cup {Partial}} \cup {None}

(* Types.  A controller answers only while a slot is up, and RAUC writes    *)
(* only an image it was given.                                             *)
TypeOK ==
  /\ committed \in Slots
  /\ onTrial \in Slots \cup {None} /\ running \in Slots \cup {None}
  /\ oneShot \in BOOLEAN
  /\ content \in [Slots -> Images \cup {Partial}]
  /\ serving \in BOOLEAN /\ (serving => running \in Slots)
  /\ settled \in BOOLEAN
  /\ job \in {"none", "upload", "ask", "wait", "reboot"}
  /\ rauc \in {"idle", "installing", "done", "failed"}
  /\ rauc = "installing" => writing # None
  /\ writing \in Images \cup {None} /\ staged \in Images \cup {None}
  /\ marker \in {"none", "installing", "ready", "failed"}
  /\ secured \in BOOLEAN
  /\ pc \in Steps
  /\ bundle \in Mine
  /\ token \in {"none", "known", "stale"}
  /\ prev \in [version : Versions, slot : Slots \cup {None},
              image : Images \cup {Partial, None}]
  /\ version \in Versions
  /\ saw \in BOOLEAN /\ expired \in BOOLEAN
  /\ outcome \in {"none", "error", "refused", "failed", "timeout", "success"}
  /\ outcome = "none" <=> pc # "done"
  /\ ran \subseteq Images \cup {Partial}

(* Nobody else installs, uploads or reboots.                               *)
Undisturbed == "other" \notin mishaps

(* Nothing has happened to the device before the updater triggers it.      *)
Fresh ==
  pc \in Before =>
    /\ \A s \in Slots : content[s] = Old
    /\ onTrial \in {None, committed} /\ running \in {None, committed}
    /\ job \in {"none", "upload"} /\ rauc = "idle"
    /\ marker \in {"none", "failed"}
    /\ pc = "trigger" => staged = bundle

(* An installation writes the bundle, into the slot that is not running.    *)
Install ==
  /\ \A s \in Slots : content[s] \in {Old, Partial, bundle}
  /\ content[committed] # Partial
  /\ running # None => content[running] # Partial
  /\ onTrial \notin {None, committed} => content[onTrial] = bundle
  /\ job \in {"ask", "wait"} \/ rauc # "idle" => running = committed
  /\ job = "ask" => /\ onTrial \in {None, committed} /\ marker = "installing"
                    /\ rauc = "idle" /\ writing = bundle
  /\ job = "wait" => rauc # "idle" /\ marker = "installing"
  /\ rauc = "installing" => /\ onTrial \in {None, committed} /\ marker = "installing"
                            /\ writing = bundle

(* What the updater remembers is the image that ran before, and whatever    *)
(* differs from it has been sent and has come up.                           *)
Memory ==
  /\ prev.slot # None => prev.image = Old
  /\ pc \notin {"login", "info", "done"} => prev.version = Describe[Old]
  /\ \A s \in {committed, running} \ {None} :
       prev.slot \notin {None, s} => content[s] = bundle
  /\ serving => \/ content[running] \in ran
                \/ content[running] = Old /\ prev.slot \in {None, running}
  /\ pc = "slots" => version = Describe[Old] \/ bundle \in ran
  /\ outcome = "success" => bundle \in ran

(* A marker of failure means that no slot is armed.                         *)
Blame ==
  /\ Armed => marker # "failed" /\ rauc # "failed"
  /\ running = None => marker = "none" /\ rauc = "idle"

(* Without a power cut the device stays up until it is asked to reboot, and *)
(* "ready" means an armed slot.                                             *)
Steady ==
  pc \in Before \cup {"poll"} =>
    /\ settled /\ running = committed
    /\ job # "reboot"
    /\ pc = "poll" => marker # "none"
    /\ marker = "ready" \/ rauc = "done" => Armed

(* The inductive invariant.                                                *)
IInv ==
  /\ TypeOK
  /\ Undisturbed => Fresh /\ Install /\ Memory /\ Blame
  /\ {"cut", "other"} \cap mishaps = {} => Steady
-----------------------------------------------------------------------------
(* There is a slot to install into beside the one that runs.               *)
LEMMA SpareFact ==
  ASSUME running \in Slots PROVE Spare \in Slots /\ Spare # running
<1>1. \E s \in Slots : s # running
  BY SlotsAssumption
<1>. QED
  BY <1>1 DEF Spare

(* Mishaps only accumulate, so a step has to keep each part only as long as *)
(* the mishaps that excuse it have not happened.                           *)
LEMMA Later ==
  ASSUME IInv, TypeOK', mishaps \subseteq mishaps',
         Undisturbed => Fresh' /\ Install' /\ Memory' /\ Blame',
         Undisturbed /\ {"cut", "other"} \cap mishaps' = {} => Steady'
  PROVE  IInv'
BY DEF IInv, Undisturbed

(* Every step keeps the invariant: the device's steps, the updater's, and  *)
(* the mishaps.                                                            *)
LEMMA GoDownStep == ASSUME IInv, GoDown PROVE IInv'
<1>. USE ImagesAssumption DEF GoDown, Down, AB!Stop, Forgotten, work, Before
<1>0. oneShot' \in BOOLEAN /\ serving' \in BOOLEAN /\ settled' \in BOOLEAN
      /\ saw' \in BOOLEAN /\ expired' \in BOOLEAN /\ secured' \in BOOLEAN
  BY DEF IInv, TypeOK
<1>1. TypeOK'
  BY <1>0 DEF IInv, TypeOK
<1>2. mishaps \subseteq mishaps'
  OBVIOUS
<1>. SUFFICES ASSUME Undisturbed
            PROVE  /\ Fresh' /\ Install' /\ Memory' /\ Blame'
                   /\ {"cut", "other"} \cap mishaps' = {} => Steady'
  BY <1>1, <1>2, Later
<1>3. TypeOK /\ Fresh /\ Install /\ Memory /\ Blame
  BY DEF IInv
<1>4. Fresh'
  BY <1>3 DEF Fresh
<1>5. Install'
  BY <1>3 DEF Install
<1>6. Memory'
  BY <1>3 DEF Memory
<1>7. Blame'
  BY DEF Blame
<1>8. ASSUME {"cut", "other"} \cap mishaps' = {} PROVE Steady'
  BY <1>8 DEF IInv, Steady
<1>. QED
  BY <1>4, <1>5, <1>6, <1>7, <1>8

LEMMA BootStep == ASSUME IInv, Boot PROVE IInv'
<1>. USE ImagesAssumption DEF Boot, AB!BootCommitted, AB!BootTrial,
       firmware, client, work, Before
<1>0. oneShot' \in BOOLEAN /\ serving' \in BOOLEAN /\ settled' \in BOOLEAN
      /\ saw' \in BOOLEAN /\ expired' \in BOOLEAN /\ secured' \in BOOLEAN
  BY DEF IInv, TypeOK
<1>1. TypeOK'
  BY <1>0 DEF IInv, TypeOK
<1>2. mishaps \subseteq mishaps'
  OBVIOUS
<1>. SUFFICES ASSUME Undisturbed
            PROVE  /\ Fresh' /\ Install' /\ Memory' /\ Blame'
                   /\ {"cut", "other"} \cap mishaps' = {} => Steady'
  BY <1>1, <1>2, Later
<1>3. TypeOK /\ Fresh /\ Install /\ Memory /\ Blame
  BY DEF IInv
<1>4. Fresh'
  BY <1>3 DEF Fresh
<1>5. Install'
  BY <1>3 DEF TypeOK, Install
<1>6. Memory'
  BY <1>3 DEF TypeOK, Memory, Install
<1>7. Blame'
  BY <1>3 DEF Blame
<1>8. ASSUME {"cut", "other"} \cap mishaps' = {} PROVE Steady'
  BY <1>8 DEF IInv, TypeOK, Steady
<1>. QED
  BY <1>4, <1>5, <1>6, <1>7, <1>8

LEMMA ServeStep == ASSUME IInv, Serve PROVE IInv'
<1>. USE ImagesAssumption DEF Serve, boots, firmware, client, work, Before
<1>1. TypeOK'
  BY DEF IInv, TypeOK
<1>2. mishaps \subseteq mishaps'
  OBVIOUS
<1>. SUFFICES ASSUME Undisturbed
            PROVE  /\ Fresh' /\ Install' /\ Memory' /\ Blame'
                   /\ {"cut", "other"} \cap mishaps' = {} => Steady'
  BY <1>1, <1>2, Later
<1>3. TypeOK /\ Fresh /\ Install /\ Memory /\ Blame
  BY DEF IInv
<1>4. Fresh'
  BY <1>3 DEF Fresh
<1>5. Install'
  BY <1>3 DEF Install
<1>6. Memory'
  BY <1>3 DEF Memory
<1>7. Blame'
  BY <1>3 DEF Blame, Armed
<1>8. ASSUME {"cut", "other"} \cap mishaps' = {} PROVE Steady'
  BY <1>8 DEF IInv, Steady, Armed
<1>. QED
  BY <1>4, <1>5, <1>6, <1>7, <1>8

LEMMA SettleStep == ASSUME IInv, Settle PROVE IInv'
<1>. USE ImagesAssumption DEF Settle, AB!Promote, AB!Forget, firmware,
       client, work, Before
<1>0. oneShot' \in BOOLEAN /\ serving' \in BOOLEAN /\ settled' \in BOOLEAN
      /\ saw' \in BOOLEAN /\ expired' \in BOOLEAN /\ secured' \in BOOLEAN
  BY DEF IInv, TypeOK
<1>1. TypeOK'
  BY <1>0 DEF IInv, TypeOK
<1>2. mishaps \subseteq mishaps'
  OBVIOUS
<1>. SUFFICES ASSUME Undisturbed
            PROVE  /\ Fresh' /\ Install' /\ Memory' /\ Blame'
                   /\ {"cut", "other"} \cap mishaps' = {} => Steady'
  BY <1>1, <1>2, Later
<1>3. TypeOK /\ Fresh /\ Install /\ Memory /\ Blame
  BY DEF IInv
<1>4. Fresh'
  BY <1>3 DEF Fresh
<1>5. Install'
  BY <1>3 DEF Install
<1>6. Memory'
  BY <1>3 DEF Memory
<1>7. Blame'
  BY DEF Blame, Armed
<1>8. ASSUME {"cut", "other"} \cap mishaps' = {} PROVE Steady'
  BY <1>8 DEF IInv, Steady
<1>. QED
  BY <1>4, <1>5, <1>6, <1>7, <1>8

LEMMA AskStep == ASSUME IInv, Ask PROVE IInv'
<1>. USE ImagesAssumption DEF Ask, boots, client, work, Before
<1>1. TypeOK'
  BY DEF IInv, TypeOK
<1>2. mishaps \subseteq mishaps'
  OBVIOUS
<1>. SUFFICES ASSUME Undisturbed
            PROVE  /\ Fresh' /\ Install' /\ Memory' /\ Blame'
                   /\ {"cut", "other"} \cap mishaps' = {} => Steady'
  BY <1>1, <1>2, Later
<1>3. TypeOK /\ Fresh /\ Install /\ Memory /\ Blame
  BY DEF IInv
<1>4. Fresh'
  BY <1>3 DEF Fresh
<1>5. Install'
  BY <1>3, SpareFact DEF TypeOK, Install
<1>6. Memory'
  BY <1>3, SpareFact DEF TypeOK, Memory, Install
<1>7. Blame'
  BY <1>3 DEF TypeOK, Blame, Install
<1>8. ASSUME {"cut", "other"} \cap mishaps' = {} PROVE Steady'
  BY <1>8 DEF IInv, Steady, Armed
<1>. QED
  BY <1>4, <1>5, <1>6, <1>7, <1>8

LEMMA RaucSucceedsStep == ASSUME IInv, RaucSucceeds PROVE IInv'
<1>. USE ImagesAssumption DEF RaucSucceeds, AB!Arm, Unseen, Mishap, client,
       work, Before
<1>1. TypeOK'
  BY SpareFact DEF IInv, TypeOK
<1>2. mishaps \subseteq mishaps'
  OBVIOUS
<1>. SUFFICES ASSUME Undisturbed
            PROVE  /\ Fresh' /\ Install' /\ Memory' /\ Blame'
                   /\ {"cut", "other"} \cap mishaps' = {} => Steady'
  BY <1>1, <1>2, Later
<1>3. TypeOK /\ Fresh /\ Install /\ Memory /\ Blame
  BY DEF IInv
<1>4. Fresh'
  BY <1>3 DEF Fresh
<1>5. Install'
  BY <1>3, SpareFact DEF TypeOK, Install
<1>6. Memory'
  BY <1>3 DEF Memory
<1>7. Blame'
  BY <1>3 DEF Blame, Install
<1>8. ASSUME {"cut", "other"} \cap mishaps' = {} PROVE Steady'
  BY <1>1, <1>8 DEF IInv, TypeOK, Steady, Armed
<1>. QED
  BY <1>4, <1>5, <1>6, <1>7, <1>8

LEMMA FinishedStep == ASSUME IInv, Finished PROVE IInv'
<1>. USE ImagesAssumption DEF Finished, boots, client, work, Before
<1>1. TypeOK'
  BY DEF IInv, TypeOK
<1>2. mishaps \subseteq mishaps'
  OBVIOUS
<1>. SUFFICES ASSUME Undisturbed
            PROVE  /\ Fresh' /\ Install' /\ Memory' /\ Blame'
                   /\ {"cut", "other"} \cap mishaps' = {} => Steady'
  BY <1>1, <1>2, Later
<1>3. TypeOK /\ Fresh /\ Install /\ Memory /\ Blame
  BY DEF IInv
<1>4. Fresh'
  BY <1>3 DEF Fresh
<1>5. Install'
  BY <1>3 DEF Install
<1>6. Memory'
  BY <1>3 DEF Memory
<1>7. Blame'
  BY <1>3 DEF Blame, Armed
<1>8. ASSUME {"cut", "other"} \cap mishaps' = {} PROVE Steady'
  BY <1>8 DEF IInv, Steady, Armed
<1>. QED
  BY <1>4, <1>5, <1>6, <1>7, <1>8

LEMMA LoginStep == ASSUME IInv, Login PROVE IInv'
<1>. USE ImagesAssumption DEF Login, Leave, Goto, device, boots, firmware,
       Before
<1>1. TypeOK'
  BY DEF IInv, TypeOK, Steps
<1>2. mishaps \subseteq mishaps'
  OBVIOUS
<1>. SUFFICES ASSUME Undisturbed
            PROVE  /\ Fresh' /\ Install' /\ Memory' /\ Blame'
                   /\ {"cut", "other"} \cap mishaps' = {} => Steady'
  BY <1>1, <1>2, Later
<1>3. TypeOK /\ Fresh /\ Install /\ Memory /\ Blame
  BY DEF IInv
<1>4. Fresh'
  BY <1>3 DEF Fresh
<1>5. Install'
  BY <1>3 DEF Install
<1>6. Memory'
  BY <1>3 DEF Memory
<1>7. Blame'
  BY <1>3 DEF Blame, Armed
<1>8. ASSUME {"cut", "other"} \cap mishaps' = {} PROVE Steady'
  BY <1>8 DEF IInv, Steady, Fresh
<1>. QED
  BY <1>4, <1>5, <1>6, <1>7, <1>8

LEMMA InfoStep == ASSUME IInv, Info PROVE IInv'
<1>. USE ImagesAssumption DEF Info, Open, Leave, Compatibility, Goto,
       device, boots, firmware, Before
<1>1. TypeOK'
  BY DEF IInv, TypeOK, Steps, Versions
<1>2. mishaps \subseteq mishaps'
  OBVIOUS
<1>. SUFFICES ASSUME Undisturbed
            PROVE  /\ Fresh' /\ Install' /\ Memory' /\ Blame'
                   /\ {"cut", "other"} \cap mishaps' = {} => Steady'
  BY <1>1, <1>2, Later
<1>3. TypeOK /\ Fresh /\ Install /\ Memory /\ Blame
  BY DEF IInv
<1>4. Fresh'
  BY <1>3 DEF Fresh
<1>5. Install'
  BY <1>3 DEF Install
<1>6. Memory'
  BY <1>3 DEF TypeOK, Memory, Fresh
<1>7. Blame'
  BY <1>3 DEF Blame, Armed
<1>8. ASSUME {"cut", "other"} \cap mishaps' = {} PROVE Steady'
  BY <1>8 DEF IInv, Steady, Fresh
<1>. QED
  BY <1>4, <1>5, <1>6, <1>7, <1>8

LEMMA HealthStep == ASSUME IInv, Health PROVE IInv'
<1>. USE ImagesAssumption DEF Health, Open, Leave, Goto, device, boots,
       firmware, Before
<1>1. TypeOK'
  BY DEF IInv, TypeOK, Steps
<1>2. mishaps \subseteq mishaps'
  OBVIOUS
<1>. SUFFICES ASSUME Undisturbed
            PROVE  /\ Fresh' /\ Install' /\ Memory' /\ Blame'
                   /\ {"cut", "other"} \cap mishaps' = {} => Steady'
  BY <1>1, <1>2, Later
<1>3. TypeOK /\ Fresh /\ Install /\ Memory /\ Blame
  BY DEF IInv
<1>4. Fresh'
  BY <1>3 DEF Fresh
<1>5. Install'
  BY <1>3 DEF Install
<1>6. Memory'
  BY <1>3 DEF Memory
<1>7. Blame'
  BY <1>3 DEF Blame, Armed
<1>8. ASSUME {"cut", "other"} \cap mishaps' = {} PROVE Steady'
  BY <1>8 DEF IInv, Steady, Fresh
<1>. QED
  BY <1>4, <1>5, <1>6, <1>7, <1>8

LEMMA BootedSlotStep == ASSUME IInv, BootedSlot PROVE IInv'
<1>. USE ImagesAssumption DEF BootedSlot, Open, Leave, Booted, Queried,
       Goto, boots, Installing, Recovered, Before
<1>0. /\ prev'.version = prev.version
      /\ prev'.slot \in {prev.slot, None, running}
      /\ prev'.image \in {prev.image, None, content[running]}
      /\ pc' = "upload" => \/ prev'.slot = None
                          \/ /\ serving /\ prev'.slot = running
                             /\ prev'.image = content[running]
      /\ prev' \in [version : Versions, slot : Slots \cup {None},
                   image : Images \cup {Partial, None}]
  <2>1. prev \in [version : Versions, slot : Slots \cup {None},
                 image : Images \cup {Partial, None}]
    BY DEF IInv, TypeOK
  <2>2. CASE UNCHANGED prev /\ pc' # "upload"
    BY <2>1, <2>2
  <2>3. CASE Open /\ prev' = [prev EXCEPT !.slot = None, !.image = None]
    BY <2>1, <2>3
  <2>4. CASE /\ Open
             /\ prev' = [prev EXCEPT !.slot = running, !.image = content[running]]
    <3>1. running \in Slots /\ content[running] \in Images \cup {Partial}
      BY <2>4 DEF IInv, TypeOK
    <3>. QED
      BY <2>1, <2>4, <3>1
  <2>. QED
    BY <2>2, <2>3, <2>4
<1>1. TypeOK'
  BY <1>0 DEF IInv, TypeOK, Steps
<1>2. mishaps \subseteq mishaps'
  OBVIOUS
<1>. SUFFICES ASSUME Undisturbed
            PROVE  /\ Fresh' /\ Install' /\ Memory' /\ Blame'
                   /\ {"cut", "other"} \cap mishaps' = {} => Steady'
  BY <1>1, <1>2, Later
<1>3. TypeOK /\ Fresh /\ Install /\ Memory /\ Blame
  BY DEF IInv
<1>4. Fresh'
  BY <1>3 DEF Fresh
<1>5. Install'
  BY <1>3 DEF Install
<1>6. Memory'
  BY <1>3, <1>0 DEF Memory, Fresh
<1>7. Blame'
  BY <1>3 DEF Blame, Armed
<1>8. ASSUME {"cut", "other"} \cap mishaps' = {} PROVE Steady'
  BY <1>8 DEF IInv, Steady, Fresh
<1>. QED
  BY <1>4, <1>5, <1>6, <1>7, <1>8

LEMMA UploadStep == ASSUME IInv, Upload PROVE IInv'
<1>. USE ImagesAssumption DEF Upload, Open, Free, Goto, Leave, boots, Before
<1>1. TypeOK'
  BY DEF IInv, TypeOK, Steps
<1>2. mishaps \subseteq mishaps'
  OBVIOUS
<1>. SUFFICES ASSUME Undisturbed
            PROVE  /\ Fresh' /\ Install' /\ Memory' /\ Blame'
                   /\ {"cut", "other"} \cap mishaps' = {} => Steady'
  BY <1>1, <1>2, Later
<1>3. TypeOK /\ Fresh /\ Install /\ Memory /\ Blame
  BY DEF IInv
<1>4. Fresh'
  BY <1>3 DEF Fresh
<1>5. Install'
  BY <1>3 DEF Install
<1>6. Memory'
  BY <1>3 DEF Memory
<1>7. Blame'
  BY <1>3 DEF Blame, Armed
<1>8. ASSUME {"cut", "other"} \cap mishaps' = {} PROVE Steady'
  BY <1>8 DEF IInv, Steady, Fresh
<1>. QED
  BY <1>4, <1>5, <1>6, <1>7, <1>8

LEMMA UploadEndStep == ASSUME IInv, UploadEnd PROVE IInv'
<1>. USE ImagesAssumption DEF UploadEnd, Goto, Leave, Mishap, boots, Before
<1>1. TypeOK'
  BY DEF IInv, TypeOK, Steps
<1>2. mishaps \subseteq mishaps'
  OBVIOUS
<1>. SUFFICES ASSUME Undisturbed
            PROVE  /\ Fresh' /\ Install' /\ Memory' /\ Blame'
                   /\ {"cut", "other"} \cap mishaps' = {} => Steady'
  BY <1>1, <1>2, Later
<1>3. TypeOK /\ Fresh /\ Install /\ Memory /\ Blame
  BY DEF IInv
<1>4. Fresh'
  BY <1>3 DEF Fresh
<1>5. Install'
  BY <1>3 DEF Install
<1>6. Memory'
  BY <1>3 DEF Memory
<1>7. Blame'
  BY <1>3 DEF Blame, Armed
<1>8. ASSUME {"cut", "other"} \cap mishaps' = {} PROVE Steady'
  BY <1>8 DEF IInv, Steady, Fresh
<1>. QED
  BY <1>4, <1>5, <1>6, <1>7, <1>8

LEMMA TriggerStep == ASSUME IInv, Trigger PROVE IInv'
<1>. USE ImagesAssumption DEF Trigger, Open, Free, Begin, Goto, Leave,
       Mishap, boots, Before
<1>1. TypeOK'
  BY DEF IInv, TypeOK, Steps
<1>2. mishaps \subseteq mishaps'
  OBVIOUS
<1>. SUFFICES ASSUME Undisturbed
            PROVE  /\ Fresh' /\ Install' /\ Memory' /\ Blame'
                   /\ {"cut", "other"} \cap mishaps' = {} => Steady'
  BY <1>1, <1>2, Later
<1>3. TypeOK /\ Fresh /\ Install /\ Memory /\ Blame
  BY DEF IInv
<1>4. Fresh'
  BY DEF Fresh
<1>5. Install'
  BY <1>3 DEF TypeOK, Install, Fresh
<1>6. Memory'
  BY <1>3 DEF Memory
<1>7. Blame'
  BY <1>3 DEF TypeOK, Blame, Armed
<1>8. ASSUME {"cut", "other"} \cap mishaps' = {} PROVE Steady'
  BY <1>8 DEF IInv, Steady
<1>. QED
  BY <1>4, <1>5, <1>6, <1>7, <1>8

LEMMA PollStep == ASSUME IInv, Poll PROVE IInv'
<1>. USE ImagesAssumption DEF Poll, Open, Judge, Heard, Queried, boots,
       Installing, Leave, Goto, Classify, Recovered, Before
<1>1. TypeOK'
  BY DEF IInv, TypeOK, Steps
<1>2. mishaps \subseteq mishaps'
  OBVIOUS
<1>. SUFFICES ASSUME Undisturbed
            PROVE  /\ Fresh' /\ Install' /\ Memory' /\ Blame'
                   /\ {"cut", "other"} \cap mishaps' = {} => Steady'
  BY <1>1, <1>2, Later
<1>3. TypeOK /\ Fresh /\ Install /\ Memory /\ Blame
  BY DEF IInv
<1>4. Fresh'
  BY DEF Fresh
<1>5. Install'
  BY <1>3 DEF Install
<1>6. Memory'
  BY <1>3 DEF Memory
<1>7. Blame'
  BY <1>3 DEF Blame, Armed
<1>8. ASSUME {"cut", "other"} \cap mishaps' = {} PROVE Steady'
  BY <1>8 DEF IInv, Steady, Armed
<1>. QED
  BY <1>4, <1>5, <1>6, <1>7, <1>8

LEMMA RebootStep == ASSUME IInv, Reboot PROVE IInv'
<1>. USE ImagesAssumption DEF Reboot, Goto, Open, Free, Mishap, boots,
       Before
<1>1. TypeOK'
  BY DEF IInv, TypeOK, Steps
<1>2. mishaps \subseteq mishaps'
  OBVIOUS
<1>. SUFFICES ASSUME Undisturbed
            PROVE  /\ Fresh' /\ Install' /\ Memory' /\ Blame'
                   /\ {"cut", "other"} \cap mishaps' = {} => Steady'
  BY <1>1, <1>2, Later
<1>3. TypeOK /\ Fresh /\ Install /\ Memory /\ Blame
  BY DEF IInv
<1>4. Fresh'
  BY DEF Fresh
<1>5. Install'
  BY <1>3 DEF Install
<1>6. Memory'
  BY <1>3 DEF Memory
<1>7. Blame'
  BY <1>3 DEF Blame, Armed
<1>8. ASSUME {"cut", "other"} \cap mishaps' = {} PROVE Steady'
  BY <1>8 DEF Steady
<1>. QED
  BY <1>4, <1>5, <1>6, <1>7, <1>8

LEMMA WaitInfoStep == ASSUME IInv, WaitInfo PROVE IInv'
<1>. USE ImagesAssumption DEF WaitInfo, Open, Goto, device, boots, firmware,
       Before
<1>1. TypeOK'
  BY DEF IInv, TypeOK, Steps, Versions
<1>2. mishaps \subseteq mishaps'
  OBVIOUS
<1>. SUFFICES ASSUME Undisturbed
            PROVE  /\ Fresh' /\ Install' /\ Memory' /\ Blame'
                   /\ {"cut", "other"} \cap mishaps' = {} => Steady'
  BY <1>1, <1>2, Later
<1>3. TypeOK /\ Fresh /\ Install /\ Memory /\ Blame
  BY DEF IInv
<1>4. Fresh'
  BY DEF Fresh
<1>5. Install'
  BY <1>3 DEF Install
<1>6. Memory'
  BY <1>3 DEF TypeOK, Memory, Install
<1>7. Blame'
  BY <1>3 DEF Blame, Armed
<1>8. ASSUME {"cut", "other"} \cap mishaps' = {} PROVE Steady'
  BY <1>8 DEF Steady
<1>. QED
  BY <1>4, <1>5, <1>6, <1>7, <1>8

LEMMA WaitSlotsStep == ASSUME IInv, WaitSlots PROVE IInv'
<1>. USE ImagesAssumption DEF WaitSlots, Open, Booted, SuccessReason, Leave,
       Goto, Queried, boots, Installing, Recovered, Before
<1>1. TypeOK'
  BY DEF IInv, TypeOK, Steps
<1>2. mishaps \subseteq mishaps'
  OBVIOUS
<1>. SUFFICES ASSUME Undisturbed
            PROVE  /\ Fresh' /\ Install' /\ Memory' /\ Blame'
                   /\ {"cut", "other"} \cap mishaps' = {} => Steady'
  BY <1>1, <1>2, Later
<1>3. TypeOK /\ Fresh /\ Install /\ Memory /\ Blame
  BY DEF IInv
<1>4. Fresh'
  BY DEF Fresh
<1>5. Install'
  BY <1>3 DEF Install
<1>6. Memory'
  BY <1>3 DEF TypeOK, Memory, Install
<1>7. Blame'
  BY <1>3 DEF Blame, Armed
<1>8. ASSUME {"cut", "other"} \cap mishaps' = {} PROVE Steady'
  BY <1>8 DEF Steady
<1>. QED
  BY <1>4, <1>5, <1>6, <1>7, <1>8

LEMMA TimedOutStep == ASSUME IInv, TimedOut PROVE IInv'
<1>. USE ImagesAssumption DEF TimedOut, Leave, Cut, boots, Before
<1>1. TypeOK'
  BY DEF IInv, TypeOK, Steps
<1>2. mishaps \subseteq mishaps'
  OBVIOUS
<1>. SUFFICES ASSUME Undisturbed
            PROVE  /\ Fresh' /\ Install' /\ Memory' /\ Blame'
                   /\ {"cut", "other"} \cap mishaps' = {} => Steady'
  BY <1>1, <1>2, Later
<1>3. TypeOK /\ Fresh /\ Install /\ Memory /\ Blame
  BY DEF IInv
<1>4. Fresh'
  BY DEF Fresh
<1>5. Install'
  BY <1>3 DEF Install
<1>6. Memory'
  BY <1>3 DEF Memory
<1>7. Blame'
  BY <1>3 DEF Blame, Armed
<1>8. ASSUME {"cut", "other"} \cap mishaps' = {} PROVE Steady'
  BY <1>8 DEF Steady
<1>. QED
  BY <1>4, <1>5, <1>6, <1>7, <1>8

LEMMA ExpireStep == ASSUME IInv, Expire PROVE IInv'
<1>. USE ImagesAssumption DEF Expire, Mishap, device, boots, firmware,
       Before
<1>1. TypeOK'
  BY DEF IInv, TypeOK, Steps
<1>2. mishaps \subseteq mishaps'
  OBVIOUS
<1>. SUFFICES ASSUME Undisturbed
            PROVE  /\ Fresh' /\ Install' /\ Memory' /\ Blame'
                   /\ {"cut", "other"} \cap mishaps' = {} => Steady'
  BY <1>1, <1>2, Later
<1>3. TypeOK /\ Fresh /\ Install /\ Memory /\ Blame
  BY DEF IInv
<1>4. Fresh'
  BY <1>3 DEF Fresh
<1>5. Install'
  BY <1>3 DEF Install
<1>6. Memory'
  BY <1>3 DEF Memory
<1>7. Blame'
  BY <1>3 DEF Blame, Armed
<1>8. ASSUME {"cut", "other"} \cap mishaps' = {} PROVE Steady'
  BY <1>8 DEF IInv, Steady, Armed
<1>. QED
  BY <1>4, <1>5, <1>6, <1>7, <1>8

LEMMA PowerCutStep == ASSUME IInv, PowerCut PROVE IInv'
<1>. USE ImagesAssumption DEF PowerCut, Down, AB!Stop, Mishap, Forgotten,
       work, Before
<1>0. oneShot' \in BOOLEAN /\ serving' \in BOOLEAN /\ settled' \in BOOLEAN
      /\ saw' \in BOOLEAN /\ expired' \in BOOLEAN /\ secured' \in BOOLEAN
  BY DEF IInv, TypeOK
<1>1. TypeOK'
  BY <1>0 DEF IInv, TypeOK
<1>2. mishaps \subseteq mishaps'
  OBVIOUS
<1>. SUFFICES ASSUME Undisturbed
            PROVE  /\ Fresh' /\ Install' /\ Memory' /\ Blame'
                   /\ {"cut", "other"} \cap mishaps' = {} => Steady'
  BY <1>1, <1>2, Later
<1>3. TypeOK /\ Fresh /\ Install /\ Memory /\ Blame
  BY DEF IInv
<1>4. Fresh'
  BY <1>3 DEF Fresh
<1>5. Install'
  BY <1>3 DEF Install
<1>6. Memory'
  BY <1>3 DEF Memory
<1>7. Blame'
  BY DEF Blame
<1>8. ASSUME {"cut", "other"} \cap mishaps' = {} PROVE Steady'
  BY <1>8 DEF Steady
<1>. QED
  BY <1>4, <1>5, <1>6, <1>7, <1>8

LEMMA TrialFailsStep == ASSUME IInv, TrialFails PROVE IInv'
<1>. USE ImagesAssumption DEF TrialFails, Down, AB!Stop, Forgotten, work,
       Before
<1>0. oneShot' \in BOOLEAN /\ serving' \in BOOLEAN /\ settled' \in BOOLEAN
      /\ saw' \in BOOLEAN /\ expired' \in BOOLEAN /\ secured' \in BOOLEAN
  BY DEF IInv, TypeOK
<1>1. TypeOK'
  BY <1>0 DEF IInv, TypeOK
<1>2. mishaps \subseteq mishaps'
  OBVIOUS
<1>. SUFFICES ASSUME Undisturbed
            PROVE  /\ Fresh' /\ Install' /\ Memory' /\ Blame'
                   /\ {"cut", "other"} \cap mishaps' = {} => Steady'
  BY <1>1, <1>2, Later
<1>3. TypeOK /\ Fresh /\ Install /\ Memory /\ Blame
  BY DEF IInv
<1>4. Fresh'
  BY <1>3 DEF Fresh
<1>5. Install'
  BY <1>3 DEF Install
<1>6. Memory'
  BY <1>3 DEF Memory
<1>7. Blame'
  BY DEF Blame
<1>8. ASSUME {"cut", "other"} \cap mishaps' = {} PROVE Steady'
  BY <1>8 DEF IInv, Steady
<1>. QED
  BY <1>4, <1>5, <1>6, <1>7, <1>8

LEMMA CrashStep == ASSUME IInv, Crash PROVE IInv'
<1>. USE ImagesAssumption DEF Crash, Forgotten, Mishap, boots, work, Before
<1>0. oneShot' \in BOOLEAN /\ serving' \in BOOLEAN /\ settled' \in BOOLEAN
      /\ saw' \in BOOLEAN /\ expired' \in BOOLEAN /\ secured' \in BOOLEAN
  BY DEF IInv, TypeOK
<1>1. TypeOK'
  BY <1>0 DEF IInv, TypeOK
<1>2. mishaps \subseteq mishaps'
  OBVIOUS
<1>. SUFFICES ASSUME Undisturbed
            PROVE  /\ Fresh' /\ Install' /\ Memory' /\ Blame'
                   /\ {"cut", "other"} \cap mishaps' = {} => Steady'
  BY <1>1, <1>2, Later
<1>3. TypeOK /\ Fresh /\ Install /\ Memory /\ Blame
  BY DEF IInv
<1>4. Fresh'
  BY <1>3 DEF Fresh
<1>5. Install'
  BY <1>3 DEF Install
<1>6. Memory'
  BY <1>3 DEF Memory
<1>7. Blame'
  BY <1>3 DEF Blame, Armed
<1>8. ASSUME {"cut", "other"} \cap mishaps' = {} PROVE Steady'
  BY <1>8 DEF IInv, Steady, Armed
<1>. QED
  BY <1>4, <1>5, <1>6, <1>7, <1>8

LEMMA RaucFailsStep == ASSUME IInv, RaucFails PROVE IInv'
<1>. USE ImagesAssumption DEF RaucFails, Mishap, boots, client, work, Before
<1>1. TypeOK'
  BY DEF IInv, TypeOK
<1>2. mishaps \subseteq mishaps'
  OBVIOUS
<1>. SUFFICES ASSUME Undisturbed
            PROVE  /\ Fresh' /\ Install' /\ Memory' /\ Blame'
                   /\ {"cut", "other"} \cap mishaps' = {} => Steady'
  BY <1>1, <1>2, Later
<1>3. TypeOK /\ Fresh /\ Install /\ Memory /\ Blame
  BY DEF IInv
<1>4. Fresh'
  BY <1>3 DEF Fresh
<1>5. Install'
  BY <1>3 DEF Install
<1>6. Memory'
  BY <1>3 DEF Memory
<1>7. Blame'
  BY <1>3 DEF Blame, Install, Armed
<1>8. ASSUME {"cut", "other"} \cap mishaps' = {} PROVE Steady'
  BY <1>8 DEF IInv, Steady, Armed
<1>. QED
  BY <1>4, <1>5, <1>6, <1>7, <1>8

LEMMA MeddleStep == ASSUME IInv, Meddle PROVE IInv'
<1>. USE ImagesAssumption DEF Meddle, Free, Mishap, Begin, boots, client,
       work, Before
<1>1. TypeOK'
  BY DEF IInv, TypeOK
<1>2. mishaps \subseteq mishaps'
  OBVIOUS
<1>3. ~Undisturbed'
  BY DEF Undisturbed
<1>. QED
  BY <1>1, <1>2, <1>3 DEF IInv, Undisturbed

LEMMA PollBlindStep == ASSUME IInv, PollBlind PROVE IInv'
<1>. USE ImagesAssumption DEF PollBlind, Open, Installing, Mishap, Judge,
       Classify, boots, firmware, Leave, Goto, Before
<1>1. TypeOK'
  BY DEF IInv, TypeOK, Steps
<1>2. mishaps \subseteq mishaps'
  OBVIOUS
<1>. SUFFICES ASSUME Undisturbed
            PROVE  /\ Fresh' /\ Install' /\ Memory' /\ Blame'
                   /\ {"cut", "other"} \cap mishaps' = {} => Steady'
  BY <1>1, <1>2, Later
<1>3. TypeOK /\ Fresh /\ Install /\ Memory /\ Blame
  BY DEF IInv
<1>4. Fresh'
  BY DEF Fresh
<1>5. Install'
  BY <1>3 DEF Install
<1>6. Memory'
  BY <1>3 DEF Memory
<1>7. Blame'
  BY <1>3 DEF Blame
<1>8. ASSUME {"cut", "other"} \cap mishaps' = {} PROVE Steady'
  BY <1>8 DEF IInv, Steady, Armed
<1>. QED
  BY <1>4, <1>5, <1>6, <1>7, <1>8
-----------------------------------------------------------------------------
(* It holds at first and always.                                           *)
LEMMA IInvInit == Init => IInv
<1>. SUFFICES ASSUME Init PROVE IInv
  OBVIOUS
<1>. USE ImagesAssumption DEF Init, Unknown, Before
<1>1. TypeOK
  BY DEF TypeOK, Steps, Versions
<1>2. Fresh /\ Install /\ Memory /\ Blame /\ Steady
  BY DEF Fresh, Install, Memory, Blame, Steady, Armed
<1>. QED
  BY <1>1, <1>2 DEF IInv

LEMMA IInvNext == IInv /\ [Next]_vars => IInv'
<1>. SUFFICES ASSUME IInv, [Next]_vars PROVE IInv'
  OBVIOUS
<1>1. CASE Device
  BY <1>1, GoDownStep, BootStep, ServeStep, SettleStep, AskStep,
     RaucSucceedsStep, FinishedStep DEF Device
<1>2. CASE Updater
  BY <1>2, LoginStep, InfoStep, HealthStep, BootedSlotStep, UploadStep,
     UploadEndStep, TriggerStep, PollStep, RebootStep, WaitInfoStep,
     WaitSlotsStep, TimedOutStep DEF Updater
<1>3. CASE Expire \/ PowerCut \/ TrialFails \/ Crash \/ RaucFails \/ Meddle
           \/ PollBlind
  BY <1>3, ExpireStep, PowerCutStep, TrialFailsStep, CrashStep, RaucFailsStep,
     MeddleStep, PollBlindStep
<1>4. CASE UNCHANGED vars
  BY <1>4 DEF vars, device, client, work, boots, firmware, IInv, TypeOK,
     Undisturbed, Fresh, Install, Memory, Blame, Armed, Steady
<1>. QED
  BY <1>1, <1>2, <1>3, <1>4 DEF Next

LEMMA IInvAlways == Spec => []IInv
BY IInvInit, IInvNext, PTL DEF Spec

(* Every variable keeps its type.                                          *)
THEOREM TypesHold == Spec => []TypeOK
<1>1. IInv => TypeOK
  BY DEF IInv
<1>. QED
  BY <1>1, IInvAlways, PTL

(* update.rs:248-257: without another client, a reported success means the *)
(* image that was sent has come up, whatever power cuts, crashes and lost  *)
(* answers lay between.                                                    *)
THEOREM SuccessIsTheSentImage == Spec => []SuccessIsMine
<1>1. IInv => SuccessIsMine
  BY DEF IInv, Undisturbed, Memory, SuccessIsMine
<1>. QED
  BY <1>1, IInvAlways, PTL

(* Of all steps only a status query ends the polling with a reboot.        *)
LEMMA RebootStepWhole ==
  ASSUME IInv, [Next]_vars, pc = "poll", pc' = "reboot",
         {"cut", "other", "bus"} \cap mishaps' = {}
  PROVE  Armed /\ content[onTrial] = bundle
<1>1. Poll \/ PollBlind
  BY DEF Next, Device, Updater, vars, device, client, work, GoDown, Boot, Serve,
     Settle, Ask, RaucSucceeds, Finished, Login, Info, Health, BootedSlot, Upload,
     UploadEnd, Trigger, Reboot, WaitInfo, WaitSlots, TimedOut, Expire, PowerCut,
     TrialFails, Crash, RaucFails, Meddle, Down, Leave, Goto
<1>2. Poll /\ mishaps' = mishaps
  BY <1>1 DEF Poll, PollBlind, Mishap
<1>3. Undisturbed /\ {"cut", "other"} \cap mishaps = {}
  BY <1>2 DEF Undisturbed
<1>4. TypeOK /\ Install /\ Steady
  BY <1>3 DEF IInv
<1>5. Heard = "Completed"
  BY <1>2 DEF Poll, Judge, Leave, Goto, Heard, Classify
<1>6. ~Installing /\ Recovered # "failed"
  BY <1>5 DEF Heard, Classify
<1>7. Armed
  BY <1>4, <1>6 DEF Recovered, Steady, TypeOK
<1>. QED
  BY <1>4, <1>7 DEF Armed, Install, Steady

(* update.rs:153-157: the updater asks for the reboot only when a slot is  *)
(* armed and holds the whole bundle, unless power failed, another client   *)
(* interfered or a status could not read the slots; Init has none armed.   *)
THEOREM RebootsOnlyWhole == Spec => RebootsWhole
<1>1. IInv /\ [Next]_vars
        => [pc = "poll" /\ pc' = "reboot" /\ {"cut", "other", "bus"} \cap mishaps' = {}
            => Armed /\ content[onTrial] = bundle]_vars
  BY RebootStepWhole
<1>. QED
  BY <1>1, IInvAlways, PTL DEF Spec, RebootsWhole

(* Of all steps only a status query ends the polling with a failure.       *)
LEMMA FailureStepReal ==
  ASSUME IInv, [Next]_vars, outcome = "none", outcome' = "failed",
         "other" \notin mishaps
  PROVE  ~Armed
<1>1. Poll \/ PollBlind
  BY DEF Next, Device, Updater, vars, device, client, work, GoDown, Boot, Serve,
     Settle, Ask, RaucSucceeds, Finished, Login, Info, Health, BootedSlot, Upload,
     UploadEnd, Trigger, Reboot, WaitInfo, WaitSlots, TimedOut, Expire, PowerCut,
     TrialFails, Crash, RaucFails, Meddle, Down, Leave, Goto
<1>2. Poll /\ Heard = "Failed"
  BY <1>1 DEF Poll, PollBlind, Judge, Leave, Goto, Heard, Classify
<1>3. ~Installing /\ Recovered = "failed"
  BY <1>2 DEF Heard, Classify
<1>4. Blame
  BY DEF IInv, Undisturbed
<1>. QED
  BY <1>3, <1>4 DEF Recovered, Blame

(* A failure is reported only when no slot is armed: an old error of this  *)
(* boot, or a restart of the controller, is never taken for one, unless    *)
(* another client interfered.                                              *)
THEOREM FailuresAreReal == Spec => FailureIsReal
<1>1. IInv /\ [Next]_vars
        => [outcome = "none" /\ outcome' = "failed" /\ "other" \notin mishaps
            => ~Armed]_vars
  BY FailureStepReal
<1>. QED
  BY <1>1, IInvAlways, PTL DEF Spec, FailureIsReal
=============================================================================
