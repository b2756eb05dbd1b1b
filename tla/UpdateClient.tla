---------------------------- MODULE UpdateClient ----------------------------
(***************************************************************************)
(* The command-line updater (snapdog-update: update.rs, client.rs) against *)
(* a device: checks, upload, installation, reboot and the wait for the new *)
(* system, under one deadline, while the controller restarts, other        *)
(* clients act and power fails.                                            *)
(* The device boots as the abstract A/B trial promises (SlotTrial, which   *)
(* TryBoot implements), and its requests do what UpdateCoordinator details *)
(* handler by handler; here each is one step, a status query included.     *)
(* Simplifications:                                                        *)
(*   - texts, percentages and board names are left out; a board marker of  *)
(*     the file name fits, does not fit, or says nothing;                  *)
(*   - an error of RAUC is a new one, and other clients install, upload or *)
(*     restart once in all (TryBoot and UpdateCoordinator have the rest);  *)
(*   - the deadline falls when another look would change nothing, or, as a *)
(*     mishap, anywhere.                                                   *)
(***************************************************************************)
EXTENDS Naturals, FiniteSets

CONSTANTS
  Slots, None,
  Images,       \* what a bundle or a slot can hold
  Partial,      \* a slot that is being written
  Mine,         \* the images the user may send
  Old, Other,   \* the image that runs, and one of another client
  Sound,        \* the images that come up
  Describe,     \* the version the controller of an image reports
  MaxMishaps    \* bound: mishaps in one behaviour

ASSUME ImagesAssumption ==
  /\ Mine \cup {Old, Other} \cup Sound \subseteq Images
  /\ Partial \notin Images
  /\ None \notin Slots \cup Images
  /\ MaxMishaps \in Nat

(* snapdog-rauc/system.conf.in: a bundle has a slot beside the one that runs. *)
ASSUME SlotsAssumption == \A s \in Slots : \E t \in Slots : t # s

VARIABLES
  \* the device: slots, controller, RAUC
  committed, onTrial, running, oneShot,
  content, serving, settled, job, rauc, writing, staged, marker,
  secured,    \* it has a web password
  \* the updater
  pc, bundle, token, prev, version, saw, expired, outcome,
  \* observed: what has come up since, and what has gone wrong
  ran, mishaps

boots == <<committed, onTrial, running, oneShot>>
firmware == <<job, rauc, writing, staged, marker>>
device == <<boots, content, serving, settled, firmware, secured>>
work == <<pc, bundle, prev, version, saw, expired, outcome>>
client == <<work, token>>
vars == <<device, client, ran, mishaps>>

AB == INSTANCE SlotTrial

Unknown == [version |-> None, slot |-> None, image |-> None]

(* No slot is armed by an earlier run; its failure may be on record.       *)
Init ==
  /\ committed \in Slots /\ running = committed
  /\ onTrial = None /\ oneShot = FALSE
  /\ content = [s \in Slots |-> Old]
  /\ serving = TRUE /\ settled = TRUE
  /\ job = "none" /\ rauc = "idle" /\ writing = None /\ staged = None
  /\ marker \in {"none", "failed"}
  /\ secured \in BOOLEAN
  /\ pc = "login" /\ bundle \in Mine /\ token = "none"
  /\ prev = Unknown /\ version = None
  /\ saw = FALSE /\ expired = FALSE /\ outcome = "none"
  /\ ran = {} /\ mishaps = {}

Mishap(k) ==
  /\ k \notin mishaps
  /\ Cardinality(mishaps) < MaxMishaps
  /\ mishaps' = mishaps \cup {k}
-----------------------------------------------------------------------------
(* The device.                                                             *)
Spare == CHOOSE s \in Slots : s # running
Armed == onTrial \notin {None, running}
Installing == job \in {"ask", "wait"} \/ rauc = "installing"

(* recover_rauc_terminal: what a status query makes of a marker that was   *)
(* left behind.                                                            *)
Recovered ==
  IF marker # "installing" THEN marker
  ELSE IF rauc = "failed" \/ ~Armed THEN "failed" ELSE "ready"

(* Every status query of a device at rest settles the marker, and removes  *)
(* the staged bundle with it.                                              *)
Queried ==
  IF Installing THEN UNCHANGED <<marker, staged>>
  ELSE /\ marker' = Recovered
       /\ staged' = IF Recovered = "none" THEN staged ELSE None

(* A process that ends takes its guard, its sessions and its connections.  *)
Forgotten ==
  /\ serving' = FALSE
  /\ job' = "none"
  /\ token' = IF token = "known" THEN "stale" ELSE token

Down(trial) ==
  /\ running # None
  /\ AB!Stop /\ oneShot' = trial
  /\ Forgotten
  /\ settled' = FALSE
  /\ rauc' = "idle" /\ marker' = "none" /\ writing' = None
  /\ UNCHANGED <<content, staged, secured, work, ran>>

(* A reboot writes out what the medium has not taken yet.                  *)
GoDown ==
  /\ job = "reboot"
  /\ Down(onTrial # None)
  /\ UNCHANGED <<committed, onTrial, mishaps>>

(* A power cut may lose a trial, or bring back the file of an old one.     *)
PowerCut ==
  /\ Down(FALSE)
  /\ UNCHANGED committed /\ onTrial' \in {onTrial, None, committed}
  /\ Mishap("cut")

(* A trial that does not stay healthy is given up (rauc-trial-failed).     *)
TrialFails ==
  /\ running = onTrial /\ running \notin {None, committed}
  /\ content[running] \notin Sound
  /\ Down(FALSE)
  /\ UNCHANGED <<committed, onTrial, mishaps>>

Boot ==
  /\ \/ AB!BootCommitted
     \/ /\ AB!BootTrial
        /\ content[onTrial] \in Sound => running' = onTrial
        /\ content[onTrial] = Partial => running' = None
  /\ UNCHANGED <<content, serving, settled, firmware, secured, client, ran,
                 mishaps>>

Serve ==
  /\ running # None /\ ~serving
  /\ serving' = TRUE
  /\ ran' = ran \cup {content[running]}
  /\ UNCHANGED <<boots, content, settled, firmware, secured, client, mishaps>>

Crash ==
  /\ serving
  /\ Forgotten
  /\ Mishap("crash")
  /\ UNCHANGED <<boots, content, settled, rauc, writing, staged, marker,
                 secured, work, ran>>

(* rauc-commit, once in a boot; its probes get no answer past a password.  *)
Settle ==
  /\ serving /\ ~settled /\ ~secured
  /\ \/ AB!Promote /\ committed # running /\ UNCHANGED settled
     \/ AB!Forget /\ settled' = TRUE
  /\ UNCHANGED <<content, serving, firmware, secured, client, ran, mishaps>>

(* The coordinator asks RAUC, which writes the spare slot and arms it.     *)
Ask ==
  /\ serving /\ job = "ask" /\ (settled \/ secured)
  /\ job' = "wait"
  /\ IF writing = None
     THEN rauc' = "failed" /\ UNCHANGED content
     ELSE rauc' = "installing" /\ content' = [content EXCEPT ![Spare] = Partial]
  /\ UNCHANGED <<boots, serving, settled, writing, staged, marker, secured,
                 client, ran, mishaps>>

(* An installation is over before anybody has looked: a mishap.            *)
Unseen == pc = "poll" /\ ~saw /\ (secured => token = "known")

RaucSucceeds ==
  /\ rauc = "installing"
  /\ AB!Arm(Spare)
  /\ rauc' = "done"
  /\ content' = [content EXCEPT ![Spare] = writing]
  /\ IF Unseen THEN Mishap("quick") ELSE UNCHANGED mishaps
  /\ UNCHANGED <<serving, settled, job, writing, staged, marker, secured,
                 client, ran>>

RaucFails ==
  /\ rauc = "installing"
  /\ rauc' = "failed"
  /\ Mishap("reject")
  /\ UNCHANGED <<boots, content, serving, settled, job, writing, staged,
                 marker, secured, client, ran>>

Finished ==
  /\ serving /\ job = "wait" /\ rauc \in {"done", "failed"}
  /\ job' = "none"
  /\ marker' = IF rauc = "done" THEN "ready" ELSE "failed"
  /\ staged' = None
  /\ UNCHANGED <<boots, content, serving, settled, rauc, writing, secured,
                 client, ran, mishaps>>

(* The handlers' checks, and what they begin.                              *)
Open == serving /\ (secured => token = "known")
Free == job = "none" /\ rauc # "installing"

Begin(image) ==
  /\ job' = "ask" /\ marker' = "installing"
  /\ rauc' = "idle" /\ writing' = image

(* Other clients: the web UI, the automatic update.                        *)
Meddle ==
  /\ serving /\ Free
  /\ Mishap("other")
  /\ \/ staged' = Other /\ UNCHANGED <<job, rauc, writing, marker>>
     \/ /\ running = committed
        /\ Begin(Other)
        /\ UNCHANGED staged
     \/ job' = "reboot" /\ UNCHANGED <<rauc, writing, staged, marker>>
  /\ UNCHANGED <<boots, content, serving, settled, secured, client, ran>>

Device ==
  \/ GoDown \/ Boot \/ Serve \/ Settle \/ Ask
  \/ RaucSucceeds \/ Finished
-----------------------------------------------------------------------------
(* The updater.                                                            *)
Leave(o) == pc' = "done" /\ outcome' = o
Goto(l) == pc' = l /\ UNCHANGED outcome

(* preflight_auth: without a password, or with the right one.              *)
Login ==
  /\ pc = "login"
  /\ \/ ~serving /\ Leave("error") /\ UNCHANGED token
     \/ serving /\ ~secured /\ Goto("info") /\ UNCHANGED token
     \/ serving /\ secured /\ token' = "known" /\ Goto("info")
     \/ serving /\ secured /\ Leave("refused") /\ UNCHANGED token
  /\ UNCHANGED <<device, bundle, prev, version, saw, expired, ran, mishaps>>

(* validate_board_compatibility: what the names of bundle and board say.   *)
Compatibility == {"fits", "differs", "silent"}

Info ==
  /\ pc = "info" /\ ~expired
  /\ IF ~Open THEN Leave("error") /\ UNCHANGED prev
     ELSE /\ prev' = [prev EXCEPT !.version = Describe[content[running]]]
          /\ \E boards \in Compatibility :
               IF boards = "differs" THEN Leave("refused") ELSE Goto("health")
  /\ UNCHANGED <<device, bundle, token, version, saw, expired, ran, mishaps>>

(* check_health: warnings alone do not stop an update.                     *)
Health ==
  /\ pc = "health" /\ ~expired
  /\ IF ~Open THEN Leave("error")
     ELSE \E h \in {"ok", "warnings", "critical"} :
            IF h = "critical" THEN Leave("refused") ELSE Goto("slot")
  /\ UNCHANGED <<device, bundle, token, prev, version, saw, expired, ran,
                 mishaps>>

(* A status during an installation lists no slots.                         *)
Booted ==
  IF Installing THEN [slot |-> None, image |-> None]
  ELSE [slot |-> running, image |-> content[running]]

BootedSlot ==
  /\ pc = "slot" /\ ~expired
  /\ IF ~Open
     THEN Leave("error") /\ UNCHANGED <<prev, marker, staged>>
     ELSE /\ prev' = [prev EXCEPT !.slot = Booted.slot, !.image = Booted.image]
          /\ Queried
          /\ Goto("upload")
  /\ UNCHANGED <<boots, content, serving, settled, job, rauc, writing,
                 secured, bundle, token, version, saw, expired, ran, mishaps>>

Upload ==
  /\ pc = "upload" /\ ~expired
  /\ IF Open /\ Free
     THEN job' = "upload" /\ staged' = None /\ Goto("uploading")
     ELSE Leave("error") /\ UNCHANGED <<job, staged>>
  /\ UNCHANGED <<boots, content, serving, settled, rauc, writing, marker,
                 secured, bundle, token, prev, version, saw, expired, ran,
                 mishaps>>

(* The whole bundle has arrived, or the connection or the disk fails.      *)
UploadEnd ==
  /\ pc = "uploading" /\ ~expired
  /\ \/ /\ job = "upload"
        /\ staged' = bundle
        /\ Goto("trigger") /\ UNCHANGED mishaps
     \/ job # "upload" /\ Leave("error") /\ UNCHANGED <<staged, mishaps>>
     \/ job = "upload" /\ Leave("error") /\ Mishap("loss") /\ UNCHANGED staged
  /\ job' = IF job = "upload" THEN "none" ELSE job
  /\ UNCHANGED <<boots, content, serving, settled, rauc, writing, marker,
                 secured, bundle, token, prev, version, saw, expired, ran>>

(* trigger_install; its answer may be lost.                                *)
(* Mutant: the marker of an earlier failure stays.                         *)
Trigger_KeepsMarker ==
  /\ pc = "trigger" /\ ~expired
  /\ IF Open /\ Free
     THEN /\ job' = "ask" /\ rauc' = "idle" /\ writing' = staged
          /\ marker' = IF marker = "none" THEN "installing" ELSE marker
          /\ \/ Goto("poll") /\ UNCHANGED mishaps
             \/ Leave("error") /\ Mishap("loss")
     ELSE Leave("error") /\ UNCHANGED <<job, rauc, writing, marker, mishaps>>
  /\ UNCHANGED <<boots, content, serving, settled, staged, secured, bundle,
                 token, prev, version, saw, expired, ran>>

Trigger ==
  /\ pc = "trigger" /\ ~expired
  /\ IF Open /\ Free
     THEN /\ Begin(staged)
          /\ \/ Goto("poll") /\ UNCHANGED mishaps
             \/ Leave("error") /\ Mishap("loss")
     ELSE Leave("error") /\ UNCHANGED <<job, rauc, writing, marker, mishaps>>
  /\ UNCHANGED <<boots, content, serving, settled, staged, secured, bundle,
                 token, prev, version, saw, expired, ran>>

(* classify_install_status: an idle device has finished only if it was     *)
(* seen installing.                                                        *)
(* Mutant: an error does not matter once it was.                           *)
Classify_NoError(operation, error) ==
  CASE operation = "installing" -> "Installing"
    [] operation = "idle" /\ saw -> "Completed"
    [] OTHER -> "Waiting"

Classify(operation, error) ==
  CASE operation = "installing" -> "Installing"
    [] operation = "idle" /\ error -> "Failed"
    [] operation = "idle" /\ ~error /\ saw -> "Completed"
    [] OTHER -> "Waiting"

Heard == Classify(IF Installing THEN "installing" ELSE "idle",
                  ~Installing /\ Recovered = "failed")

Judge(poll) ==
  /\ saw' = (saw \/ poll = "Installing")
  /\ CASE poll = "Failed" -> Leave("failed")
       [] poll = "Completed" -> Goto("reboot")
       [] OTHER -> UNCHANGED <<pc, outcome>>

Poll ==
  /\ pc = "poll" /\ ~expired /\ Open
  /\ Judge(Heard)
  /\ Queried
  /\ UNCHANGED <<boots, content, serving, settled, job, rauc, writing,
                 secured, bundle, token, prev, version, expired, ran, mishaps>>

(* The bus fails within the status query: an idle RAUC without its slots.  *)
PollBlind ==
  /\ pc = "poll" /\ ~expired /\ Open /\ ~Installing
  /\ marker = "installing" /\ rauc # "failed"
  /\ Mishap("bus")
  /\ Judge(Classify("idle", FALSE))
  /\ UNCHANGED <<boots, content, serving, settled, firmware, secured, bundle,
                 token, prev, version, expired, ran>>

(* The request to reboot; whatever becomes of it is ignored.               *)
(* Mutant: the device is left to reboot on its own.                        *)
Reboot_Left ==
  /\ pc = "reboot"
  /\ Goto("wait")
  /\ UNCHANGED <<device, bundle, token, prev, version, saw, expired, ran,
                 mishaps>>

Reboot ==
  /\ pc = "reboot"
  /\ Goto("wait")
  /\ \/ /\ job' = IF Open /\ Free THEN "reboot" ELSE job
        /\ UNCHANGED mishaps
     \/ UNCHANGED job /\ Mishap("loss")
  /\ UNCHANGED <<boots, content, serving, settled, rauc, writing, staged,
                 marker, secured, bundle, token, prev, version, saw, expired,
                 ran>>

(* wait_for_reboot: two requests a look, and no difference between a       *)
(* device that is down and one that has forgotten the session.  The sleep  *)
(* before a look ends with the deadline, but the look is still made, and   *)
(* its first request is not under the deadline.                            *)
WaitInfo ==
  /\ pc = "last" \/ (pc = "wait" /\ ~expired)
  /\ Open
  /\ version' = Describe[content[running]]
  /\ Goto("slots")
  /\ UNCHANGED <<device, bundle, token, prev, saw, expired, ran, mishaps>>

(* Mutant: a device that is back online is a success.                      *)
SuccessReason_Back(v, current) == v # prev.version \/ ran # {}

SuccessReason(v, current) ==
  \/ v # prev.version
  \/ /\ None \notin {prev.slot, current.slot}
     /\ prev.image # current.image \/ prev.slot # current.slot

WaitSlots ==
  /\ pc = "slots"
  /\ LET current == IF Open /\ ~expired THEN Booted
                    ELSE [slot |-> None, image |-> None]
     IN IF SuccessReason(version, current) THEN Leave("success")
        ELSE Goto("wait")
  /\ IF Open /\ ~expired THEN Queried ELSE UNCHANGED <<marker, staged>>
  /\ UNCHANGED <<boots, content, serving, settled, job, rauc, writing,
                 secured, bundle, token, prev, version, saw, expired, ran,
                 mishaps>>

(* The deadline covers everything after the login.  It is long enough for  *)
(* a device and an updater that still have something to do.  Of the wait   *)
(* for the reboot a last look is left.                                     *)
Hopeless ==
  \/ pc = "poll" /\ (Open => Heard = "Waiting")
  \/ /\ pc \in {"wait", "slots"}
     /\ Open => ~SuccessReason(Describe[content[running]], Booted)
     /\ pc = "slots" => version = prev.version

AtRest ==
  /\ running # None /\ serving /\ Free /\ (settled \/ secured)
  /\ Hopeless

Expire ==
  /\ ~expired /\ pc \notin {"login", "done"}
  /\ IF AtRest THEN UNCHANGED mishaps ELSE Mishap("early")
  /\ expired' = TRUE
  /\ pc' = IF pc = "wait" THEN "last" ELSE pc
  /\ UNCHANGED <<device, bundle, token, prev, version, saw, outcome, ran>>

(* A request that is cut off ends its handler on the device.               *)
Cut == pc = "uploading" /\ job = "upload"

(* Mutant: the wait has no deadline. *)
TimedOut_Waits ==
  /\ expired /\ pc \notin {"login", "reboot", "slots", "wait", "last", "done"}
  /\ Leave("timeout")
  /\ job' = IF Cut THEN "none" ELSE job
  /\ UNCHANGED <<boots, content, serving, settled, rauc, writing, staged,
                 marker, secured, bundle, token, prev, version, saw, expired,
                 ran, mishaps>>

TimedOut ==
  /\ expired /\ pc \notin {"login", "reboot", "slots", "done"}
  /\ Leave("timeout")
  /\ job' = IF Cut THEN "none" ELSE job
  /\ UNCHANGED <<boots, content, serving, settled, rauc, writing, staged,
                 marker, secured, bundle, token, prev, version, saw, expired,
                 ran, mishaps>>

Updater ==
  \/ Login \/ Info \/ Health \/ BootedSlot \/ Upload \/ UploadEnd \/ Trigger
  \/ Poll \/ Reboot \/ WaitInfo \/ WaitSlots \/ TimedOut

Next ==
  \/ Device \/ Updater \/ Expire
  \/ PowerCut \/ TrialFails \/ Crash \/ RaucFails \/ Meddle \/ PollBlind

Spec == Init /\ [][Next]_vars

(* The device finishes what it has begun, the updater polls, time passes.  *)
Fairness ==
  /\ WF_vars(GoDown) /\ WF_vars(Boot) /\ WF_vars(Serve) /\ WF_vars(Settle)
  /\ WF_vars(Ask) /\ WF_vars(RaucSucceeds) /\ WF_vars(Finished)
  /\ WF_vars(Updater) /\ WF_vars(Expire)

FairSpec == Spec /\ Fairness
-----------------------------------------------------------------------------
(* update.rs:248-257: a success is never reported on the strength of a     *)
(* device that merely came back: unless another client installs, uploads   *)
(* or reboots meanwhile, and with no slot armed by an earlier run (Init),  *)
(* the image that was sent has come up, and was not reverted before that.  *)
SuccessIsMine ==
  outcome = "success" /\ "other" \notin mishaps => bundle \in ran

(* update.rs:153-157: the device is asked to reboot only into a slot that  *)
(* has been written and activated.  Exceptions: another client installs,   *)
(* uploads or reboots, power fails, or a status cannot read the slots; and *)
(* no slot was armed by an earlier run (Init).                             *)
RebootsWhole ==
  [][pc = "poll" /\ pc' = "reboot" /\ {"cut", "other", "bus"} \cap mishaps' = {}
     => Armed /\ content[onTrial] = bundle]_vars

(* A failure is reported only of an installation that did not activate a   *)
(* slot, whatever earlier one failed in this boot and whether or not the   *)
(* controller restarted since.  Exception: another client meddles.         *)
FailureIsReal ==
  [][outcome = "none" /\ outcome' = "failed" /\ "other" \notin mishaps
     => ~Armed]_vars

(* snapdog-update/README.md: the deadline covers upload, installation and  *)
(* reboot: every run of the updater comes to an end.  The request for the  *)
(* reboot and those of the wait for it are outside the deadline and end    *)
(* with the client's own timeout of 30 s (client.rs:117): a request is one *)
(* step here.                                                              *)
Decided == <>(pc = "done")

(* A sound bundle accepted by a device without a password ends as a        *)
(* success when nothing gets in the way: no power cut, crash, lost answer, *)
(* other client, failing bus or installation that nobody saw.              *)
Succeeds ==
  <>(\/ outcome \in {"success", "refused"}
     \/ bundle \notin Sound \/ secured \/ mishaps # {})
=============================================================================
