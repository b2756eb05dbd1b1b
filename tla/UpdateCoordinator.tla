-------------------------- MODULE UpdateCoordinator --------------------------
(***************************************************************************)
(* The firmware pipeline of snapdog-ctrl within one boot (update.rs, the   *)
(* /system/update handlers of routes.rs, the RAUC client rauc.rs): uploads *)
(* and installations serialised by one guard, RAUC working in a process of *)
(* its own, a recovery marker in /run that outlives a restart of the       *)
(* controller, and the status poll that reads all of it without the guard. *)
(* Simplifications:                                                        *)
(*   - a bundle is missing, cut short or whole; progress in bytes and per  *)
(*     cent is left out, and verifying, writing and finalizing are one     *)
(*     phase, "working";                                                   *)
(*   - an error is its text, a member of Errors;                           *)
(*   - the automatic update is one more online request;                    *)
(*   - the four staging files are removed in one step;                     *)
(*   - of a status poll only what it leaves behind matters, not the answer. *)
(***************************************************************************)
EXTENDS Naturals

CONSTANTS
  Errors,        \* texts of RAUC's LastError
  NoError,       \* the empty text
  MaxRestarts,   \* bounds: restarts of snapdog-ctrl,
  MaxDeaths,     \* deaths of the RAUC service,
  MaxBusErrors   \* calls that fail on the system bus

ASSUME ErrorsAssumption == NoError \notin Errors
ASSUME LimitsAssumption == /\ MaxRestarts \in Nat
                           /\ MaxDeaths \in Nat
                           /\ MaxBusErrors \in Nat

Paths == {"upload", "online"}   \* update.raucb, online-update.raucb
Active == {"downloading", "installing"}
Terminal == {"ready", "failed"}

VARIABLES
  \* in the memory of snapdog-ctrl
  busy,       \* BUSY and ACTIVE: nobody, an upload or reboot, an installation
  phase,      \* the phase of PROGRESS
  passed,     \* install requests past their checks, not yet at the guard
  op, src,    \* the operation that holds the guard, and its bundle
  poll,       \* a status poll: where it is and what it has read
  \* on disk
  marker, staged, part,
  \* RAUC
  rauc, source, signal, lastError,
  armed,      \* the primary slot is not the booted one
  \* history, read by no action
  fit,        \* the slot RAUC writes to was last written to its end
  blind,      \* nothing tells the end of the last installation from a success
  \* what has gone wrong so far
  restarts, deaths, busErrors

memory == <<busy, phase, passed, op, src, signal>>
disk == <<marker, staged, part>>
service == <<rauc, source, lastError, armed>>
mishaps == <<restarts, deaths, busErrors>>
history == <<fit, blind>>
vars == <<memory, poll, disk, service, mishaps, history>>

Texts == Errors \cup {NoError}
NoPoll == [pc |-> "idle", error |-> NoError, primary |-> "unknown",
           verdict |-> "none"]
Polls == [pc : {"idle", "op", "observe", "observed", "error", "primary",
                "marker", "persist", "delete"},
          error : Texts,
          primary : {"unknown", "booted", "other"},
          verdict : {"none", "ready", "failed"}]

TypeOK ==
  /\ busy \in {"no", "upload", "install"}
  /\ phase \in {"idle", "downloading", "working", "ready", "failed"}
  /\ passed \subseteq Paths
  /\ op \in {"none", "check", "clear", "uploading", "begin", "download",
             "downloading", "prepare", "ask", "wait", "markReady", "publish",
             "cleanReady", "cleanFailed", "markFailed", "publishFailed",
             "release"}
  /\ src \in Paths
  /\ poll \in Polls
  /\ marker \in [state : {"none"} \cup Active \cup Terminal, base : Texts]
  /\ staged \in [Paths -> {"none", "cut", "whole"}]
  /\ part \in [Paths -> BOOLEAN]
  /\ rauc \in {"idle", "opening", "writing"}
  /\ source \in Paths
  /\ signal \in {"none", "ok", "failed"}
  /\ lastError \in Texts
  /\ armed \in BOOLEAN
  /\ fit \in BOOLEAN /\ blind \in BOOLEAN
  /\ restarts \in 0 .. MaxRestarts
  /\ deaths \in 0 .. MaxDeaths
  /\ busErrors \in 0 .. MaxBusErrors

Init ==
  /\ busy = "no" /\ phase = "idle" /\ passed = {}
  /\ op = "none" /\ src = "upload" /\ signal = "none"
  /\ poll = NoPoll
  /\ marker = [state |-> "none", base |-> NoError]
  /\ staged = [p \in Paths |-> "none"]
  /\ part = [p \in Paths |-> FALSE]
  /\ rauc = "idle" /\ source = "upload"
  /\ lastError = NoError
  /\ armed = FALSE
  /\ fit = FALSE /\ blind = FALSE
  /\ restarts = 0 /\ deaths = 0 /\ busErrors = 0

(* A call on the system bus fails. *)
BusError ==
  /\ busErrors < MaxBusErrors
  /\ busErrors' = busErrors + 1
  /\ UNCHANGED <<restarts, deaths>>

(* RAUC does not say that it is installing: it is idle, or does not answer. *)
NotInstalling == \/ rauc = "idle" /\ UNCHANGED mishaps
                 \/ BusError

(* The recovery marker is rewritten only where there is one. *)
Mark(state) ==
  marker' = IF marker.state = "none" THEN marker
                                     ELSE [marker EXCEPT !.state = state]

Goto(pc) == op' = pc
Keep == UNCHANGED <<poll, service, history>>
-----------------------------------------------------------------------------
(* POST /system/update/upload.                                             *)

UploadReserve ==
  /\ busy = "no"
  /\ busy' = "upload"
  /\ Goto("check")
  /\ UNCHANGED <<phase, passed, src, signal, disk, mishaps>> /\ Keep

(* Refused when RAUC says it is installing; not when it does not answer. *)
UploadCheck ==
  /\ op = "check"
  /\ \/ /\ rauc # "idle"
        /\ busy' = "no" /\ Goto("none")
        /\ UNCHANGED mishaps
     \/ /\ NotInstalling
        /\ Goto("clear")
        /\ UNCHANGED busy
  /\ UNCHANGED <<phase, passed, src, signal, disk>> /\ Keep

(* Mutant: the stream goes to the published name. *)
UploadClear_InPlace ==
  /\ op = "clear"
  /\ Goto("uploading")
  /\ part' = [part EXCEPT !["upload"] = TRUE]
  /\ staged' = [staged EXCEPT !["upload"] = "cut"]
  /\ UNCHANGED <<busy, phase, passed, src, signal, marker, mishaps>> /\ Keep

(* The previous bundle goes, the part file is created. *)
UploadClear ==
  /\ op = "clear"
  /\ Goto("uploading")
  /\ part' = [part EXCEPT !["upload"] = TRUE]
  /\ staged' = [staged EXCEPT !["upload"] = "none"]
  /\ UNCHANGED <<busy, phase, passed, src, signal, marker, mishaps>> /\ Keep

(* The stream ends and the part is renamed, if it is still there; or the   *)
(* stream breaks off and the part is removed.                              *)
UploadEnd ==
  /\ op = "uploading"
  /\ Goto("none") /\ busy' = "no"
  /\ part' = [part EXCEPT !["upload"] = FALSE]
  /\ \/ part["upload"] /\ staged' = [staged EXCEPT !["upload"] = "whole"]
     \/ UNCHANGED staged
  /\ UNCHANGED <<phase, passed, src, signal, marker, mishaps>> /\ Keep
-----------------------------------------------------------------------------
(* POST /system/update and /system/update/install, auto_update::tick.      *)

(* Mutant: only the controller's own guard is looked at. *)
Request_NoRauc(p) ==
  /\ busy = "no"
  /\ passed' = passed \cup {p}
  /\ UNCHANGED <<busy, phase, op, src, signal, disk, mishaps>> /\ Keep

(* The guard is free and RAUC does not say it is installing.  The guard is *)
(* looked at, not taken.                                                   *)
Request(p) ==
  /\ busy = "no"
  /\ passed' = passed \cup {p}
  /\ NotInstalling
  /\ UNCHANGED <<busy, phase, op, src, signal, disk>> /\ Keep

Acquire(p) ==
  /\ p \in passed
  /\ passed' = passed \ {p}
  /\ \/ /\ busy = "no"
        /\ busy' = "install"
        /\ src' = p
        /\ phase' = IF p = "online" THEN "downloading" ELSE "working"
        /\ Goto(IF p = "online" THEN "begin" ELSE "prepare")
     \/ busy # "no" /\ UNCHANGED <<busy, src, phase, op>>
  /\ UNCHANGED <<signal, disk, mishaps>> /\ Keep

(* The marker of an online update is there before its first byte. *)
Begin ==
  /\ op = "begin"
  /\ Goto("download")
  /\ marker' = [state |-> "downloading", base |-> NoError]
  /\ UNCHANGED <<busy, phase, passed, src, signal, staged, part, mishaps>>
  /\ Keep

DownloadStart ==
  /\ op = "download"
  /\ Goto("downloading")
  /\ staged' = [staged EXCEPT !["online"] = "none"]
  /\ part' = [part EXCEPT !["online"] = TRUE]
  /\ UNCHANGED <<busy, phase, passed, src, signal, marker, mishaps>> /\ Keep

DownloadEnd ==
  /\ op = "downloading"
  /\ part' = [part EXCEPT !["online"] = FALSE]
  /\ \/ /\ part["online"]
        /\ staged' = [staged EXCEPT !["online"] = "whole"]
        /\ Goto("prepare")
     \/ Goto("markFailed") /\ UNCHANGED staged
  /\ UNCHANGED <<busy, phase, passed, src, signal, marker, mishaps>> /\ Keep

(* Mutant: the marker is written without a baseline. *)
Prepare_NoBaseline ==
  /\ op = "prepare"
  /\ marker' = [state |-> "installing"]
  /\ phase' = "working"
  /\ Goto("ask")
  /\ UNCHANGED <<busy, passed, src, signal, staged, part, mishaps>> /\ Keep

(* prepare_rauc_install: the marker holds the error RAUC shows now, so     *)
(* that a new one can be told from it.  When RAUC does not answer, a local *)
(* bundle stays staged and a downloaded one is removed.                    *)
Prepare ==
  /\ op = "prepare"
  /\ \/ /\ marker' = [state |-> "installing", base |-> lastError]
        /\ phase' = "working"
        /\ Goto("ask")
        /\ blind' = TRUE
        /\ UNCHANGED mishaps
     \/ /\ BusError
        /\ Goto(IF src = "online" THEN "cleanFailed" ELSE "markFailed")
        /\ UNCHANGED <<marker, phase, blind>>
  /\ UNCHANGED <<busy, passed, src, signal, staged, part, poll, service, fit>>

(* InstallBundle, subscribed to Completed first.  RAUC refuses a second    *)
(* installation; it may drop its last error when one begins.  A status     *)
(* poll from before judges the marker, or has judged it, by what it read.  *)
Ask ==
  /\ op = "ask"
  /\ signal' = "none"
  /\ \/ /\ rauc = "idle"
        /\ rauc' = "opening" /\ source' = src
        /\ lastError' \in {lastError, NoError}
        /\ blind' = (poll.pc # "idle" \/ marker.state # "installing")
        /\ Goto("wait")
        /\ UNCHANGED mishaps
     \/ /\ \/ rauc # "idle" /\ UNCHANGED mishaps
           \/ BusError
        /\ Goto("cleanFailed")
        /\ UNCHANGED <<rauc, source, lastError, blind>>
  /\ UNCHANGED <<busy, phase, passed, src, disk, poll, armed, fit>>

Completed ==
  /\ op = "wait"
  /\ signal # "none"
  /\ signal' = "none"
  /\ Goto(IF signal = "ok" THEN "markReady" ELSE "cleanFailed")
  /\ UNCHANGED <<busy, phase, passed, src, disk, mishaps>> /\ Keep

MarkReady ==
  /\ op = "markReady"
  /\ Goto("publish")
  /\ Mark("ready")
  /\ UNCHANGED <<busy, phase, passed, src, signal, staged, part, mishaps>>
  /\ Keep

PublishReady ==
  /\ op = "publish"
  /\ Goto("cleanReady")
  /\ phase' = "ready"
  /\ UNCHANGED <<busy, passed, src, signal, disk, mishaps>> /\ Keep

(* The staged bundle goes, whatever became of it. *)
Clean ==
  /\ op \in {"cleanReady", "cleanFailed"}
  /\ Goto(IF op = "cleanReady" THEN "release" ELSE "markFailed")
  /\ staged' = [staged EXCEPT ![src] = "none"]
  /\ UNCHANGED <<busy, phase, passed, src, signal, marker, part, mishaps>>
  /\ Keep

(* publish_failure *)
MarkFailed ==
  /\ op = "markFailed"
  /\ Goto("publishFailed")
  /\ Mark("failed")
  /\ UNCHANGED <<busy, phase, passed, src, signal, staged, part, mishaps>>
  /\ Keep

(* Mutant: the failure path does not come to the end of the guard's scope. *)
PublishFailed_Forgets ==
  /\ op = "publishFailed"
  /\ Goto("none")
  /\ phase' = "failed"
  /\ UNCHANGED <<busy, passed, src, signal, disk, mishaps>> /\ Keep

PublishFailed ==
  /\ op = "publishFailed"
  /\ Goto("release")
  /\ phase' = "failed"
  /\ UNCHANGED <<busy, passed, src, signal, disk, mishaps>> /\ Keep

(* The guard is dropped, and what the task knew of its bundle. *)
Release ==
  /\ op = "release"
  /\ Goto("none")
  /\ busy' = "no" /\ src' = "upload"
  /\ UNCHANGED <<phase, passed, signal, disk, mishaps>> /\ Keep

Operation ==
  \/ UploadCheck \/ UploadClear \/ UploadEnd
  \/ Begin \/ DownloadStart \/ DownloadEnd \/ Prepare \/ Ask \/ Completed
  \/ MarkReady \/ PublishReady \/ Clean \/ MarkFailed \/ PublishFailed
  \/ Release
-----------------------------------------------------------------------------
(* RAUC, and restarts.                                                     *)

(* The Completed signal reaches whoever has subscribed to it. *)
Complete(result) == signal' = IF op = "wait" THEN result ELSE signal

RaucRest == <<busy, phase, passed, op, src, poll, disk>>

(* The bundle is opened and its signature checked, and the slot is written. *)
RaucOpens ==
  /\ rauc = "opening"
  /\ staged[source] = "whole"
  /\ rauc' = "writing"
  /\ fit' = FALSE
  /\ UNCHANGED <<source, signal, lastError, armed, blind, mishaps, RaucRest>>

RaucSucceeds ==
  /\ rauc = "writing"
  /\ rauc' = "idle" /\ source' = "upload"
  /\ armed' = TRUE /\ fit' = TRUE
  /\ Complete("ok")
  /\ UNCHANGED <<lastError, blind, mishaps, RaucRest>>

(* The error of an installation that failed is no news when it reads like  *)
(* the one before; a poll under way may take it for the one before.        *)
RaucFails ==
  /\ rauc # "idle"
  /\ rauc' = "idle" /\ source' = "upload"
  /\ lastError' \in Errors
  /\ Complete("failed")
  /\ blind' = (blind \/ lastError' = marker.base \/ poll.pc # "idle")
  /\ UNCHANGED <<armed, fit, mishaps, RaucRest>>

(* The service dies: no signal, and no error that outlives it. *)
RaucDies ==
  /\ rauc # "idle"
  /\ deaths < MaxDeaths
  /\ deaths' = deaths + 1
  /\ rauc' = "idle" /\ source' = "upload"
  /\ lastError' = NoError
  /\ blind' = TRUE
  /\ UNCHANGED <<signal, armed, fit, restarts, busErrors, RaucRest>>

(* snapdog-ctrl dies and starts again: guard, progress, requests, polls and *)
(* the subscription are gone.                                              *)
Restart ==
  /\ restarts < MaxRestarts
  /\ restarts' = restarts + 1
  /\ busy' = "no" /\ phase' = "idle" /\ passed' = {}
  /\ op' = "none" /\ src' = "upload" /\ signal' = "none"
  /\ poll' = NoPoll
  /\ UNCHANGED <<disk, service, history, deaths, busErrors>>
-----------------------------------------------------------------------------
(* GET /system/update/status.                                              *)

PollRest == <<memory, service, fit>>

Answered == poll' = NoPoll

(* While an installation holds the guard its progress is the answer. *)
PollStart ==
  /\ poll.pc = "idle"
  /\ busy # "install"
  /\ poll' = [poll EXCEPT !.pc = "op"]
  /\ UNCHANGED <<PollRest, blind, disk, mishaps>>

(* Without an answer from RAUC the marker alone is looked at. *)
PollOp ==
  /\ poll.pc = "op"
  /\ \/ /\ poll' = [poll EXCEPT !.pc = IF rauc = "idle" THEN "error"
                                                        ELSE "observe"]
        /\ UNCHANGED mishaps
     \/ BusError /\ poll' = [poll EXCEPT !.pc = "marker"]
  /\ UNCHANGED <<PollRest, blind, disk>>

(* observe_rauc_install: an installation nobody has a marker for gets one, *)
(* with the error RAUC shows now as its baseline.                          *)
PollObserve ==
  /\ poll.pc = "observe"
  /\ \/ marker.state = "installing" /\ Answered /\ UNCHANGED mishaps
     \/ /\ marker.state # "installing"
        /\ \/ /\ poll' = [poll EXCEPT !.pc = "observed", !.error = lastError]
              /\ UNCHANGED mishaps
           \/ BusError /\ Answered
  /\ UNCHANGED <<PollRest, blind, disk>>

PollObserved ==
  /\ poll.pc = "observed"
  /\ marker' = [state |-> "installing", base |-> poll.error]
  /\ Answered
  /\ UNCHANGED <<PollRest, blind, staged, part, mishaps>>

(* RAUC is idle: its last error (nothing, when it does not answer) ...     *)
PollError ==
  /\ poll.pc = "error"
  /\ \/ /\ poll' = [poll EXCEPT !.pc = "primary", !.error = lastError]
        /\ UNCHANGED <<blind, mishaps>>
     \/ /\ BusError
        /\ poll' = [poll EXCEPT !.pc = "primary"]
        /\ blind' = TRUE
  /\ UNCHANGED <<PollRest, disk>>

(* ... and whether another slot than the booted one boots next. *)
PollPrimary ==
  /\ poll.pc = "primary"
  /\ \/ /\ poll' = [poll EXCEPT !.pc = "marker",
                                !.primary = IF armed THEN "other" ELSE "booted"]
        /\ UNCHANGED mishaps
     \/ BusError /\ poll' = [poll EXCEPT !.pc = "marker"]
  /\ UNCHANGED <<PollRest, blind, disk>>

(* A new error of RAUC, to one that reads this poll's answers. *)
NewError == poll.error \notin {NoError, marker.base}

(* Mutant: a slot to boot next is enough, whatever error RAUC shows. *)
Verdict_PrimaryOnly ==
  CASE marker.state \in Terminal -> marker.state
    [] marker.state = "downloading" -> "failed"
    [] marker.state = "installing" ->
         IF poll.primary = "other" THEN "ready"
         ELSE IF NewError \/ poll.primary = "booted" THEN "failed" ELSE "none"
    [] OTHER -> "none"

(* terminal_recovery_progress: what an idle RAUC means for the marker; and *)
(* without a marker, or an answer, nothing that could be persisted.        *)
Verdict ==
  CASE marker.state \in Terminal -> marker.state
    [] marker.state = "downloading" -> "failed"
    [] marker.state = "installing" ->
         IF NewError \/ poll.primary = "booted" THEN "failed"
         ELSE IF poll.primary = "other" THEN "ready" ELSE "none"
    [] OTHER -> "none"

PollMarker ==
  /\ poll.pc = "marker"
  /\ IF Verdict = "none" THEN Answered
     ELSE poll' = [NoPoll EXCEPT !.pc = "persist", !.verdict = Verdict]
  /\ UNCHANGED <<PollRest, blind, disk, mishaps>>

(* Mutant: the verdict is shown and not persisted. *)
PollPersist_ShowOnly ==
  /\ poll.pc = "persist"
  /\ poll' = [NoPoll EXCEPT !.pc = "delete"]
  /\ UNCHANGED <<PollRest, blind, disk, mishaps>>

(* The marker is read again under its lock, and gets the verdict. *)
PollPersist ==
  /\ poll.pc = "persist"
  /\ Mark(poll.verdict)
  /\ poll' = [NoPoll EXCEPT !.pc = "delete"]
  /\ UNCHANGED <<PollRest, blind, staged, part, mishaps>>

(* All staging files are removed. *)
PollDelete ==
  /\ poll.pc = "delete"
  /\ staged' = [p \in Paths |-> "none"]
  /\ part' = [p \in Paths |-> FALSE]
  /\ Answered
  /\ UNCHANGED <<PollRest, blind, marker, mishaps>>

PollStep ==
  \/ PollOp \/ PollObserve \/ PollObserved
  \/ PollError \/ PollPrimary \/ PollMarker \/ PollPersist \/ PollDelete
-----------------------------------------------------------------------------
Next ==
  \/ UploadReserve
  \/ \E p \in Paths : Request(p) \/ Acquire(p)
  \/ Operation
  \/ RaucOpens \/ RaucSucceeds \/ RaucFails \/ RaucDies
  \/ Restart
  \/ PollStart \/ PollStep

Spec == Init /\ [][Next]_vars

(* An upload or download ends one way or the other, RAUC comes to an end,  *)
(* handlers run on, and the web UI polls.  Nothing obliges anyone to upload *)
(* or install.                                                             *)
Fairness ==
  /\ WF_vars(Operation)
  /\ \A p \in Paths : WF_vars(Acquire(p))
  /\ WF_vars(RaucOpens \/ RaucSucceeds \/ RaucFails)
  /\ WF_vars(PollStart)
  /\ WF_vars(PollStep)

FairSpec == Spec /\ Fairness
-----------------------------------------------------------------------------
(* update.rs:737-739, 864-880: an installation that failed is not reported *)
(* as one to reboot into, not even after an earlier one that succeeded.    *)
(* What the coordinator itself calls ready is a slot that is armed and     *)
(* written to its end.  What a poll makes of the marker of a controller    *)
(* that is gone is armed, and written to its end unless that installation  *)
(* was "blind": RAUC was not asked for it any more or refused, it failed   *)
(* with the very text RAUC showed before, the RAUC service died in it, its *)
(* error could not be read (routes.rs:1003), or a poll was under way where *)
(* it began or failed.  Then the slot an earlier installation armed is     *)
(* reported ready, half written as it may be.                              *)
ReadyIsArmed ==
  /\ "ready" \in {phase, marker.state, poll.verdict} => armed
  /\ phase = "ready" => fit
  /\ "ready" \in {marker.state, poll.verdict} => fit \/ blind

(* What RAUC finds under a staging name is never a bundle that was cut     *)
(* short, not even by a restart of the controller in the middle of a       *)
(* stream.  It may find nothing, a poll having removed it: RAUC then fails. *)
OnlyWholeBundles == rauc = "opening" => staged[source] # "cut"

(* The guard is lost with the process while RAUC goes on; still no second  *)
(* installation is asked of it as long as the bus has always answered: a   *)
(* RAUC that does not answer is taken for idle (routes.rs:1080), and only  *)
(* RAUC's own refusal is then in the way.                                  *)
OneInstallation == op = "ask" /\ busErrors = 0 => rauc = "idle"

(* The guard is handed back on every path, with or without a restart,      *)
(* unless the RAUC service dies: nothing then ends the wait for its signal. *)
GuardReleased == busy # "no" ~> busy = "no" \/ deaths > 0

(* update.rs:737-739: an installation or download that was under way, the  *)
(* controller restarted or not, becomes a reboot target or a failure.      *)
MarkerSettles ==
  marker.state \in Active ~> marker.state \in Terminal \/ deaths > 0
=============================================================================
