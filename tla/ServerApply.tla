---------------------------- MODULE ServerApply ----------------------------
(***************************************************************************)
(* How a server configuration that a page saves becomes the active one     *)
(* (apply_and_restart, server_config.rs): staged, checked by the server    *)
(* binary, activated, tried out and taken back if the server does not stay *)
(* up; with the switch that enables and disables the server (routes.rs,    *)
(* set_service in system.rs).  What is in a configuration is               *)
(* ServerDocument; here the one a page saves is named after the page.      *)
(* Simplifications:                                                        *)
(*   - a configuration makes the server stay up, or end before it has been *)
(*     found active twice (Sound);                                         *)
(*   - of two writes of one file that meet, one is what the file holds.    *)
(***************************************************************************)
EXTENDS Integers

CONSTANTS
  Pages,      \* pages that save once; also the configurations they save
  Clicks,     \* clicks on the switch of the server
  Initial,    \* the configuration the system was delivered with
  Template,   \* default_config_toml
  Empty,      \* a file without text
  Missing,    \* no file
  None,
  Start,      \* what may be active at first, and whether the server is enabled
  Checked,    \* configurations that snapdog --check-config accepts
  Sound,      \* configurations with which the server stays up
  Writable,   \* whether files can be made in /etc/snapdog
  MaxFaults   \* bound: dropped handlers, restarts, failing operations

Versions == Pages \cup {Initial, Template}

ASSUME VersionsAssumption ==
  /\ {Initial, Template, Empty, Missing, None} \cap Pages = {}
  /\ None \notin {Initial, Template, Empty, Missing}
  /\ {Empty, Missing} \cap {Initial, Template} = {} /\ Empty # Missing
  /\ Sound \subseteq Checked /\ Checked \subseteq Versions
  /\ Start \subseteq {Initial, Missing} \X BOOLEAN /\ {Initial, Template} \subseteq Sound
ASSUME BoundsAssumption == Writable \in BOOLEAN /\ MaxFaults \in Nat
-----------------------------------------------------------------------------
VARIABLES
  path, bak, candidate,   \* snapdog.toml, its backup, the staged file
  base,                   \* by page: what was active when it was loaded
  pc,                     \* by page: where its PUT /server is
  lock,                   \* CONFIG_APPLY_LOCK
  previous,               \* its holder: what was active when it began
  undo,                   \* its holder is rolling back
  running,                \* what the server runs with
  enabled,                \* services.server in ctrl.toml
  click,                  \* by click: where its handler is
  late,                   \* by file: a write whose handler is gone
  faults,
  \* history, read by no action
  proven,                 \* configurations found healthy
  stray,                  \* such a write ended in the middle of another save
  covered                 \* the template was written over a file

files == <<path, bak, candidate>>
server == <<running, enabled, click>>
handler == <<base, pc, lock, previous, undo>>
history == <<proven, stray, covered>>
vars == <<files, handler, server, late, history, faults>>

Names == {"candidate", "bak", "path"}

Init ==
  /\ \E s \in Start : path = s[1] /\ enabled = s[2]
  /\ bak = Missing /\ candidate = Missing
  /\ base = [p \in Pages |-> None]
  /\ pc = [p \in Pages |-> "closed"]
  /\ lock = None /\ previous = None /\ undo = FALSE
  /\ running = IF enabled /\ path \in Sound THEN path ELSE None
  /\ click = [c \in Clicks |-> "idle"]
  /\ late = [f \in Names |-> None]
  /\ proven = {Initial, Template} /\ stray = FALSE /\ covered = FALSE
  /\ faults = 0

(* systemctl restart and start: the server reads the active file.          *)
Launched == IF path \in Sound THEN path ELSE None
Started == IF running = None THEN Launched ELSE running

(* The revision is a hash of the text: no file and an empty one are alike. *)
Text(v) == IF v = Missing THEN Empty ELSE v

Fault == faults < MaxFaults /\ faults' = faults + 1
-----------------------------------------------------------------------------
Locked == {"check", "stage", "guard", "backup", "activate", "restart", "poll",
           "confirm", "rollback"}
Handled == {"wait"} \cup Locked

Goto(p, there) ==
  pc' = [pc EXCEPT ![p] = there] /\ UNCHANGED <<base, lock, previous, undo>>

(* Mutant: a handler that is dropped or refuses keeps the lock. *)
Leave_KeepsLock(p) ==
  /\ pc' = [pc EXCEPT ![p] = "done"]
  /\ base' = [base EXCEPT ![p] = None]
  /\ UNCHANGED <<lock, previous, undo>>

(* The handler ends, with what it answers left out; its variables and the  *)
(* lock go with it.                                                        *)
Leave(p) ==
  /\ pc' = [pc EXCEPT ![p] = "done"]
  /\ base' = [base EXCEPT ![p] = None]
  /\ IF lock = p THEN lock' = None /\ previous' = None /\ undo' = FALSE
                 ELSE UNCHANGED <<lock, previous, undo>>

(* GET /server, and PUT /server, which waits for the lock.  A page that is *)
(* loaded again is one that was loaded later.                              *)
Load(p) ==
  /\ pc[p] = "closed"
  /\ base' = [base EXCEPT ![p] = path]
  /\ pc' = [pc EXCEPT ![p] = "open"]
  /\ UNCHANGED <<files, lock, previous, undo, server, late, history, faults>>

Submit(p) ==
  /\ pc[p] = "open"
  /\ Goto(p, "wait")
  /\ UNCHANGED <<files, server, late, history, faults>>

Lock(p) ==
  /\ pc[p] = "wait" /\ lock = None
  /\ lock' = p
  /\ pc' = [pc EXCEPT ![p] = "check"]
  /\ UNCHANGED <<files, base, previous, undo, server, late, history, faults>>

(* Mutant: the revision is not compared. *)
Current_Any(p) == TRUE
Current(p) == Text(base[p]) = Text(path)

CheckRevision(p) ==
  /\ pc[p] = "check"
  /\ \/ /\ Current(p)
        /\ previous' = path
        /\ pc' = [pc EXCEPT ![p] = "stage"]
        /\ UNCHANGED <<base, lock, undo>>
     \/ ~Current(p) /\ Leave(p)
  /\ UNCHANGED <<files, server, late, history, faults>>

(* A file that replaces another is written beside it, synced, renamed, and *)
(* its directory synced: when that fails the old or the new one is there.  *)
Stage(p) ==
  /\ pc[p] = "stage"
  /\ \/ Writable /\ candidate' = p /\ Goto(p, "guard") /\ UNCHANGED faults
     \/ /\ IF Writable THEN Fault ELSE UNCHANGED faults
        /\ candidate' \in IF Writable THEN {candidate, p} ELSE {candidate}
        /\ Leave(p)
  /\ UNCHANGED <<path, bak, server, late, history>>

(* Mutant: the verdict of the server binary is not looked at. *)
Guard_NoVerdict(p) ==
  /\ pc[p] = "guard"
  /\ Goto(p, "backup")
  /\ UNCHANGED <<files, server, late, history, faults>>

(* snapdog --check-config reads the staged file.                           *)
Guard(p) ==
  /\ pc[p] = "guard"
  /\ \/ candidate \in Checked /\ Goto(p, "backup") /\ UNCHANGED candidate
     \/ candidate \notin Checked /\ candidate' = Missing /\ Leave(p)
  /\ UNCHANGED <<path, bak, server, late, history, faults>>

(* Mutant: the backup holds the candidate. *)
Backup_Candidate(p) ==
  /\ pc[p] = "backup"
  /\ bak' = candidate
  /\ Goto(p, "activate")
  /\ UNCHANGED <<path, candidate, server, late, history, faults>>

Backup(p) ==
  /\ pc[p] = "backup"
  /\ \/ /\ bak' = IF previous = Missing THEN bak ELSE previous
        /\ Goto(p, "activate")
        /\ UNCHANGED faults
     \/ /\ Fault /\ previous # Missing
        /\ bak' \in {bak, previous}
        /\ Leave(p)
  /\ UNCHANGED <<path, candidate, server, late, history>>

(* What is activated is the text in memory, not the staged file.  After a  *)
(* failure there is no rollback, whichever file is there.                  *)
Activate(p) ==
  /\ pc[p] = "activate"
  /\ \/ /\ path' = p /\ candidate' = Missing
        /\ Goto(p, "restart")
        /\ UNCHANGED faults
     \/ Fault /\ path' \in {path, p} /\ Leave(p) /\ UNCHANGED candidate
  /\ UNCHANGED <<bak, server, late, history>>
-----------------------------------------------------------------------------
(* restart_and_wait_healthy, with the new and again with the old file.     *)
Unhealthy(p) == IF undo THEN Leave(p) ELSE Goto(p, "rollback")

(* Mutant: systemctl start. *)
Restart_Start(p) ==
  /\ pc[p] = "restart"
  /\ running' = Started
  /\ Goto(p, "poll")
  /\ UNCHANGED <<files, enabled, click, late, history, faults>>

Restart(p) ==
  /\ pc[p] = "restart"
  /\ \/ running' = Launched /\ Goto(p, "poll") /\ UNCHANGED faults
     \/ Fault /\ Unhealthy(p) /\ UNCHANGED running
  /\ UNCHANGED <<files, enabled, click, late, history>>

(* Mutant: no deadline. *)
Poll_NoDeadline(p) ==
  /\ pc[p] = "poll"
  /\ running # None
  /\ Goto(p, "confirm")
  /\ UNCHANGED <<files, server, late, history, faults>>

(* Found active, or not until the time is up.                              *)
Poll(p) ==
  /\ pc[p] = "poll"
  /\ \/ running # None /\ Goto(p, "confirm")
     \/ running = None /\ Unhealthy(p)
  /\ UNCHANGED <<files, server, late, history, faults>>

(* Still active two seconds later, or wait on.                             *)
Confirm(p) ==
  /\ pc[p] = "confirm"
  /\ \/ running # None /\ Leave(p) /\ proven' = proven \cup {running}
     \/ running = None /\ Goto(p, "poll") /\ UNCHANGED proven
  /\ UNCHANGED <<files, server, late, stray, covered, faults>>

(* Mutant: the old file is put back, and the server left as it is. *)
Rollback_NoRestart(p) ==
  /\ pc[p] = "rollback"
  /\ path' = previous
  /\ Leave(p)
  /\ UNCHANGED <<bak, candidate, server, late, history, faults>>

Rollback(p) ==
  /\ pc[p] = "rollback"
  /\ \/ /\ path' = previous /\ undo' = TRUE
        /\ pc' = [pc EXCEPT ![p] = "restart"]
        /\ UNCHANGED <<base, lock, previous, faults>>
     \/ Fault /\ path' \in {path, previous} /\ Leave(p)
  /\ UNCHANGED <<bak, candidate, server, late, history>>
-----------------------------------------------------------------------------
(* Handler p waits for text to be written to file f.                       *)
Writing(p, f, text) ==
  \/ pc[p] = "stage" /\ Writable /\ f = "candidate" /\ text = p
  \/ pc[p] = "backup" /\ previous # Missing /\ f = "bak" /\ text = previous
  \/ pc[p] = "activate" /\ f = "path" /\ text = p
  \/ pc[p] = "rollback" /\ f = "path" /\ text = previous

(* A client that hangs up: its handler is dropped where it waits, and the  *)
(* lock with it.  A write it waited for is over, has not begun, or goes on *)
(* without it in a thread of its own (tokio::fs).                          *)
Drop(p) ==
  /\ pc[p] \in Handled
  /\ Fault
  /\ Leave(p)
  /\ \/ UNCHANGED late
     \/ \E f \in Names, text \in Versions \cup {Empty, Missing} :
          Writing(p, f, text) /\ late' = [late EXCEPT ![f] = text]
  /\ UNCHANGED <<files, server, history>>

(* Such a write comes to its end, whoever holds the lock by then.          *)
Land(f) ==
  /\ late[f] # None
  /\ late' = [late EXCEPT ![f] = None]
  /\ candidate' = IF f = "candidate" THEN late[f] ELSE candidate
  /\ bak' = IF f = "bak" THEN late[f] ELSE bak
  /\ path' = IF f = "path" THEN late[f] ELSE path
  /\ stray' = (stray \/ lock # None)
  /\ UNCHANGED <<handler, server, proven, covered, faults>>

(* The controller ends, alone or with the machine, and starts again:       *)
(* apply_service_config.                                                   *)
ControllerRestart ==
  /\ Fault
  /\ pc' = [p \in Pages |-> IF pc[p] \in Handled THEN "done" ELSE pc[p]]
  /\ base' = [p \in Pages |-> IF pc[p] \in Handled THEN None ELSE base[p]]
  /\ click' = [c \in Clicks |-> IF click[c] = "idle" THEN "idle" ELSE "done"]
  /\ lock' = None /\ previous' = None /\ undo' = FALSE
  /\ late' = [f \in Names |-> None]
  /\ running' \in IF enabled THEN {Started, Launched} ELSE {None}
  /\ UNCHANGED <<files, enabled, history>>
-----------------------------------------------------------------------------
At(c, there) == click' = [click EXCEPT ![c] = there]

(* POST /server/enable writes the template where it found no file: opened  *)
(* empty, then filled, and without the lock, whatever is there by then.    *)
Enable(c) ==
  /\ click[c] = "idle"
  /\ At(c, IF path = Missing THEN "create" ELSE "on")
  /\ UNCHANGED <<files, handler, running, enabled, late, history, faults>>

Create(c) ==
  /\ click[c] = "create"
  /\ path' = Empty /\ At(c, "fill")
  /\ covered' = (covered \/ path # Missing)
  /\ UNCHANGED <<bak, candidate, handler, running, enabled, late, proven, stray, faults>>

Fill(c) ==
  /\ click[c] = "fill"
  /\ \/ /\ path' = Template /\ At(c, "on")
        /\ covered' = (covered \/ path # Empty)
        /\ UNCHANGED faults
     \/ Fault /\ UNCHANGED <<path, covered>> /\ At(c, "done")
  /\ UNCHANGED <<bak, candidate, handler, running, enabled, late, proven, stray>>

Disable(c) ==
  /\ click[c] = "idle"
  /\ At(c, "off")
  /\ UNCHANGED <<files, handler, running, enabled, late, history, faults>>

(* set_service: the flag, then the unit.                                   *)
SetFlag(c) ==
  /\ click[c] \in {"on", "off"}
  /\ enabled' = (click[c] = "on")
  /\ At(c, IF click[c] = "on" THEN "start" ELSE "stop")
  /\ UNCHANGED <<files, handler, running, late, history, faults>>

SetUnit(c) ==
  /\ click[c] \in {"start", "stop"}
  /\ running' = IF click[c] = "start" THEN Started ELSE None
  /\ At(c, "done")
  /\ UNCHANGED <<files, handler, enabled, late, history, faults>>
-----------------------------------------------------------------------------
Step(p) ==
  Lock(p) \/ CheckRevision(p) \/ Stage(p) \/ Guard(p) \/ Backup(p) \/ Activate(p)
    \/ Restart(p) \/ Poll(p) \/ Confirm(p) \/ Rollback(p)

Switch(c) ==
  Enable(c) \/ Create(c) \/ Fill(c) \/ Disable(c) \/ SetFlag(c) \/ SetUnit(c)

Next ==
  \/ \E p \in Pages : Load(p) \/ Submit(p) \/ Step(p) \/ Drop(p)
  \/ \E f \in Names : Land(f)
  \/ ControllerRestart
  \/ \E c \in Clicks : Switch(c)

Spec == Init /\ [][Next]_vars

(* Some handler that can go on does; which one, and whether tokio's Mutex   *)
(* is fair, does not matter.  A write that was left behind need not end.   *)
Fairness ==
  /\ WF_vars(\E p \in Pages : Step(p))
  /\ WF_vars(\E c \in Clicks : click[c] # "idle" /\ Switch(c))

FairSpec == Spec /\ Fairness
-----------------------------------------------------------------------------
OnTrial == lock # None /\ pc[lock] \in {"restart", "poll", "confirm", "rollback"}

(* The lock is held by the one handler that is between taking it and its   *)
(* answer, also after handlers were dropped (server_config.rs:403); only a *)
(* configuration that was loaded is saved.                                 *)
ApplyTypeOK ==
  /\ path \in Versions \cup {Empty, Missing}
  /\ bak \in Versions \cup {Empty, Missing}
  /\ candidate \in Pages \cup {Missing}
  /\ lock \in Pages \cup {None}
  /\ \A p \in Pages : /\ pc[p] \in {"closed", "open", "done"} \cup Handled
                      /\ pc[p] \in Locked <=> lock = p
                      /\ pc[p] \in {"closed", "done"} <=> base[p] = None
  /\ previous # None <=> lock # None /\ pc[lock] # "check"
  /\ running \in Versions \cup {None}
  /\ late \in [Names -> Versions \cup {Empty, Missing, None}]

(* README.md:180: what is active was accepted by the installed server, or  *)
(* written by it, whatever is dropped, fails or restarts (server_config.rs:*)
(* 418-432).  Not so once the write of a client that hung up ended under   *)
(* the lock of another save: the server then checks the one's file, and    *)
(* the other's text becomes active.                                        *)
OnlyChecked == ~stray => path \in Checked \cup {Empty, Missing}

(* server_config.rs:24: no save replaces one that its page has not seen,   *)
(* unless a write that was left behind ended in between.  The template may *)
(* replace a save (routes.rs:1647-1653), it has no page.                   *)
NoSaveLost ==
  [][\A p \in Pages :
       ~stray /\ path \in Pages /\ path' = p /\ path # p /\ pc[p] = "activate"
         => base[p] = path]_vars

(* server_config.rs:424: as long as a configuration is on trial, what it   *)
(* replaced is in the backup and in the hands of the rollback, unless a    *)
(* write that was left behind ended in between; and as long as nothing     *)
(* fails, one that has been found healthy is there.                        *)
WayBack ==
  /\ ~stray /\ OnTrial /\ ~undo /\ previous # Missing => bak = previous
  /\ faults = 0 /\ path \notin {Empty, Missing} =>
       path \in proven \/ (OnTrial /\ {bak, previous} \cap (proven \cup {Missing, Empty}) # {})

(* README.md:182: without a fault the server never keeps running, between  *)
(* trials, with anything but the active file, whoever is at the switch; it *)
(* may be off.  Not so once the switch has written the template over a     *)
(* file that was not there when it looked (routes.rs:1647-1653): the saved *)
(* one runs on, and is gone with the next restart.                         *)
RunsActive ==
  faults = 0 /\ ~covered /\ ~OnTrial => running \in {path, None}

(* A save that was sent is answered, or nobody is left to answer to.       *)
Answered == \A p \in Pages : pc[p] = "wait" ~> pc[p] = "done"

(* README.md:182: a configuration that does not stay up does not leave the *)
(* server down: it runs again, unless it was switched, something failed or *)
(* there was no configuration before.                                      *)
ComesBack ==
  OnTrial /\ running = None ~>
    \/ running # None
    \/ faults > 0 \/ path \in {Empty, Missing}
    \/ \E c \in Clicks : click[c] # "idle"

(* server_config.rs:400 and README.md:182: the end of a trial leaves a      *)
(* configuration that proved healthy active, the new one or the old one.   *)
TrialEndsProven ==
  [][OnTrial /\ ~OnTrial' => path' \in proven' \cup {Empty, Missing}]_vars
=============================================================================
