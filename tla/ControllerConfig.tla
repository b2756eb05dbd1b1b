-------------------------- MODULE ControllerConfig --------------------------
(***************************************************************************)
(* The controller's own settings: ctrl.toml, which six handlers and two    *)
(* tasks of the startup read, change and write back (system.rs, auth.rs),  *)
(* the password of the web UI with its tokens and the login lockout        *)
(* (auth.rs, routes.rs), the switch of the SSH server and the import of an *)
(* archive (settings.rs).                                                  *)
(*                                                                         *)
(* A file of settings is a record with one value per section, None for a   *)
(* section that is not there.  A file that was cut off does not parse and  *)
(* is taken for an empty one (unwrap_or_default), so both are Blank; so is *)
(* one that cannot be read.                                                *)
(* Simplifications:                                                        *)
(*   - requests that are refused for their input change nothing and are    *)
(*     left out;                                                           *)
(*   - a rename, once done, stays (the code does not sync the directory);  *)
(*   - snapdog-os.channel can be read if it is there;                      *)
(*   - two writes into the same file leave the second text or one that     *)
(*     does not parse.                                                     *)
(***************************************************************************)
EXTENDS Integers

CONSTANTS
  Requests,      \* requests of pages, each made once
  Boot, Ap, Units, \* start_device_services, manage_setup_ap, and the task
                 \* that runs apply_service_config
  Kinds,         \* by request: what it may ask for
  None,
  Initial,       \* the password, if any, at first
  Wrong,         \* a password nobody has set
  Legacy,        \* the channel in /data/snapdog-os.channel
  ImageDefault,  \* the channel of the image
  Imported,      \* what an archive has in every section
  Session,       \* a token from before
  Attempts,      \* failed logins there may be at first
  Disabled,      \* whether the web UI may be without a password at first
  MaxFaults      \* bound: dropped handlers, restarts, failing reads, writes
                 \* and commands

Startup == {Boot, Ap, Units}
Tasks == Requests \cup Startup
Asks == {"channel", "apput", "get", "on", "off", "password", "unset",
         "import", "login"}

ASSUME TasksAssumption ==
  /\ Startup \cap Requests = {}
  /\ Boot # Ap /\ Boot # Units /\ Ap # Units
  /\ {None, Initial, Wrong, Legacy, ImageDefault, Imported, Session}
       \cap Tasks = {}
  /\ None \notin {Initial, Wrong, Legacy, ImageDefault, Imported, Session}
  /\ Wrong \notin {Initial, Imported}
ASSUME KindsAssumption == Kinds \in [Requests -> SUBSET Asks]
ASSUME BoundsAssumption ==
  Attempts \subseteq Nat /\ Disabled \in BOOLEAN /\ MaxFaults \in Nat

Sections == {"auto", "softap", "ssh", "auth"}
Blank == [s \in Sections |-> None]
-----------------------------------------------------------------------------
VARIABLES
  path, tmp,     \* ctrl.toml and ctrl.toml.tmp
  legacy,        \* snapdog-os.channel
  pc, kind,      \* by task
  doc,           \* by task: the text it is about to write
  fd,            \* by task: the file it has open for writing
  hash, tokens,  \* AuthInner: the password, the tokens that are accepted
  guess,         \* by token and request: the password it came with
  attempts, locked, \* AuthInner: failed_attempts, seconds of locked_until
  seen,          \* by request: the count it has reached by failing
  flag, sshd,    \* /data/ssh.enabled, sshd.service is active
  trouble,       \* observer: what has gone on at the same time, was not read
                 \* or ended early since the controller started
  faults

disk == <<path, tmp, legacy>>
tasks == <<pc, kind, doc, fd>>
lockout == <<attempts, locked, seen>>
memory == <<hash, tokens, lockout>>
ssh == <<flag, sshd>>
vars == <<disk, tasks, memory, guess, ssh, trouble, faults>>

Begun == [t \in Startup |-> IF t = Units THEN "units" ELSE "look"]
Errand == [t \in Tasks |-> CASE t = Boot -> "migrate" [] t = Ap -> "get"
                             [] OTHER -> None]

(* The controller starts, on a new device or after an upgrade, or has been *)
(* serving for a while.                                                    *)
Init ==
  /\ \E auth \in {Initial} \cup (IF Disabled THEN {None} ELSE {}),
        auto \in {None, ImageDefault}, serving \in BOOLEAN :
       /\ serving => auto # None
       /\ path = [auto |-> auto, softap |-> IF serving THEN Ap ELSE None,
                  ssh |-> "on", auth |-> auth]
       /\ legacy \in {None} \cup IF serving THEN {} ELSE {Legacy}
       /\ pc = [t \in Tasks |-> CASE t \in Requests -> "idle"
                                 [] serving -> "done" [] OTHER -> Begun[t]]
       /\ hash = IF serving THEN auth ELSE None
       /\ tokens = IF serving /\ auth # None THEN {Session} ELSE {}
       /\ attempts \in IF serving /\ auth # None THEN Attempts ELSE {0}
       /\ sshd = serving
  /\ tmp = None
  /\ kind = Errand
  /\ doc = [t \in Tasks |-> Blank]
  /\ fd = [t \in Tasks |-> "none"]
  /\ guess = [t \in Requests \cup {Session} |-> Initial]
  /\ locked = 0 /\ seen = [r \in Requests |-> 0]
  /\ flag = TRUE
  /\ trouble = {} /\ faults = 0

Fault == faults < MaxFaults /\ faults' = faults + 1
Up == pc[Boot] = "done"
InFlight(t) == pc[t] \notin {"idle", "done"}
Saving(t) == pc[t] \in {"trunc", "write", "lastwrite", "rename"}
Changing(t) == /\ kind[t] \in {"password", "unset"}
               /\ Saving(t) \/ pc[t] \in {"forget", "read", "console", "revoke"}
Importing == \E t \in Tasks : pc[t] \in {"unpacked", "reboot"}
Unpacking == \E t \in Tasks : pc[t] = "unpacked"
-----------------------------------------------------------------------------
(* backoff_delay_secs: 5, 10, 20, 40, 80, 160, then 300.                   *)
FreeAttempts == 3
MaxSecs == 300

Lower(a, b) == IF a < b THEN a ELSE b
(* Mutant: the cap of the exponent is one too low, and the delay with it. *)
BackoffDelay_ShortCap(n) ==
  IF n <= FreeAttempts THEN 0
  ELSE Lower(5 * 2 ^ Lower(n - FreeAttempts - 1, 5), MaxSecs)
BackoffDelay(n) ==
  IF n <= FreeAttempts THEN 0
  ELSE Lower(5 * 2 ^ Lower(n - FreeAttempts - 1, 6), MaxSecs)

(* What a task puts into the text it has read, and where.                  *)
Section(t) ==
  CASE kind[t] \in {"channel", "migrate"} -> "auto"
    [] kind[t] \in {"get", "apput"} -> "softap"
    [] kind[t] \in {"on", "off"} -> "ssh"
    [] OTHER -> "auth"
(* Mutant: a removed password stays in the file. *)
Value_KeepsHash(t) ==
  CASE kind[t] \in {"on", "off"} -> kind[t]
    [] kind[t] = "unset" -> path.auth
    [] kind[t] = "migrate" -> IF legacy = None THEN ImageDefault ELSE legacy
    [] OTHER -> t
Value(t) ==
  CASE kind[t] \in {"on", "off"} -> kind[t]
    [] kind[t] = "unset" -> None
    [] kind[t] = "migrate" -> IF legacy = None THEN ImageDefault ELSE legacy
    [] OTHER -> t
(* Mutant: the document is begun anew instead of read. *)
Edited_Fresh(t, file) == [Blank EXCEPT ![Section(t)] = Value(t)]
Edited(t, file) == [file EXCEPT ![Section(t)] = Value(t)]

(* What is in a file after a text is written to the start of it.           *)
Over(old, new) == IF old = Blank THEN {new} ELSE {new, Blank}
-----------------------------------------------------------------------------
Goto(t, there) == pc' = [pc EXCEPT ![t] = there]
(* Mutant: the migration goes on when its save has failed. *)
End_GoesOn(t) ==
  /\ Goto(t, IF t = Boot THEN "retire" ELSE "done")
  /\ kind' = [kind EXCEPT ![t] = IF t \in Startup THEN kind[t] ELSE None]
  /\ doc' = [doc EXCEPT ![t] = Blank]
(* A task that ends, also one whose request failed or was dropped.         *)
End(t) ==
  /\ Goto(t, IF t = Boot THEN "load" ELSE "done")
  /\ kind' = [kind EXCEPT ![t] = IF t \in Startup THEN kind[t] ELSE None]
  /\ doc' = [doc EXCEPT ![t] = Blank]
(* What ended early, where that leaves two things apart.                   *)
Delicate == {"password", "unset", "on", "off", "login"}
Cut(t) == trouble' = trouble \cup ({kind[t]} \cap Delicate)

(* A request is made when the web UI serves and, except a login, with a    *)
(* token if there is a password (require_auth_ext); a password that comes  *)
(* with it is the one that is set, or wrong.                               *)
Submit(r) ==
  /\ Up /\ pc[r] = "idle"
  /\ \E k \in Kinds[r], g \in {hash, Wrong} :
       /\ k \in {"login", "password", "unset"} \/ g = hash
       /\ k = "login" => hash # None
       /\ k # "login" /\ hash # None => tokens # {}
       /\ kind' = [kind EXCEPT ![r] = k]
       /\ guess' = [guess EXCEPT ![r] = g]
       /\ Goto(r, CASE k = "login" -> "check"
                    [] k \in {"password", "unset"} -> "confirm"
                    [] k = "get" -> "look"
                    [] k = "import" -> "unpack"
                    [] OTHER -> "read")
  /\ UNCHANGED <<disk, doc, fd, memory, ssh, trouble, faults>>

(* get_softap_config and migrate_legacy_update_channel look first whether  *)
(* there is anything to write.  A file that cannot be read says there is.  *)
Look(t) ==
  /\ pc[t] = "look"
  /\ \/ /\ path[Section(t)] = None
        /\ Goto(t, "read") /\ UNCHANGED <<kind, doc, faults>>
     \/ /\ path[Section(t)] # None /\ t = Boot
        /\ Goto(t, "retire") /\ UNCHANGED <<kind, doc, faults>>
     \/ path[Section(t)] # None /\ t # Boot /\ End(t) /\ UNCHANGED faults
     \/ Fault /\ Goto(t, "read") /\ UNCHANGED <<kind, doc>>
  /\ UNCHANGED <<disk, fd, memory, guess, ssh, trouble>>

(* Read, parse and change.                                                 *)
Read(t) ==
  /\ pc[t] = "read"
  /\ Goto(t, "trunc")
  /\ \/ /\ doc' = [doc EXCEPT ![t] = Edited(t, path)]
        /\ trouble' = trouble \cup
             IF Unpacking \/ \E o \in Tasks \ {t} : Saving(o) THEN {"lost"} ELSE {}
        /\ UNCHANGED faults
     \/ /\ Fault
        /\ doc' = [doc EXCEPT ![t] = Edited(t, Blank)]
        /\ trouble' = trouble \cup {"lost"}
  /\ UNCHANGED <<disk, kind, fd, memory, guess, ssh>>

(* atomic_write: tokio::fs::write opens and empties the file and writes it *)
(* on another thread, which a dropped handler does not stop.               *)
Truncate(t) ==
  /\ pc[t] = "trunc"
  /\ tmp' = Blank
  /\ fd' = [fd EXCEPT ![t] = "tmp"]
  /\ Goto(t, "write")
  /\ UNCHANGED <<path, legacy, kind, doc, memory, guess, ssh, trouble,
                 faults>>

Write(t) ==
  /\ pc[t] \in {"write", "lastwrite"}
  /\ tmp' \in IF fd[t] = "tmp" THEN Over(tmp, doc[t]) ELSE {tmp}
  /\ path' \in IF fd[t] = "path" THEN Over(path, doc[t]) ELSE {path}
  /\ fd' = [fd EXCEPT ![t] = "none"]
  /\ IF pc[t] = "write" THEN Goto(t, "rename") /\ UNCHANGED <<kind, doc>>
                        ELSE End(t)
  /\ UNCHANGED <<legacy, memory, guess, ssh, trouble, faults>>

Replaced(f) == CASE f = "tmp" -> "path" [] f = "path" -> "gone" [] OTHER -> f

After(t) ==
  CASE kind[t] \in {"on", "off"} -> "unit"
    [] kind[t] \in {"password", "unset"} -> "console"
    [] t = Boot -> "retire"
    [] OTHER -> "done"

(* The rest of atomic_write opens the file again, syncs and renames it;    *)
(* both fail when another task has renamed it.                             *)
Rename(t) ==
  /\ pc[t] = "rename" /\ tmp # None
  /\ path' = tmp /\ tmp' = None
  /\ fd' = [o \in Tasks |-> Replaced(fd[o])]
  /\ IF After(t) = "done" THEN End(t)
     ELSE /\ Goto(t, After(t))
          /\ doc' = [doc EXCEPT ![t] = Blank]
          /\ UNCHANGED kind
  /\ UNCHANGED <<legacy, memory, guess, ssh, trouble, faults>>

RenameFails(t) ==
  /\ pc[t] = "rename" /\ tmp = None
  /\ End(t) /\ Cut(t)
  /\ UNCHANGED <<disk, fd, memory, guess, ssh, faults>>

(* No space, an I/O error.                                                 *)
WriteFails(t) ==
  /\ pc[t] \in {"trunc", "write", "rename"} /\ Fault
  /\ fd' = [fd EXCEPT ![t] = "none"]
  /\ End(t) /\ Cut(t)
  /\ UNCHANGED <<disk, memory, guess, ssh>>
-----------------------------------------------------------------------------
(* The rest of migrate_legacy_update_channel, and AuthState::load, for     *)
(* which a file that cannot be read has no password.                       *)
Retire ==
  /\ pc[Boot] = "retire"
  /\ legacy' = None
  /\ Goto(Boot, "load")
  /\ UNCHANGED <<path, tmp, kind, doc, fd, memory, guess, ssh,
                 trouble, faults>>

LoadAuth ==
  /\ pc[Boot] = "load"
  /\ \/ hash' = path.auth /\ UNCHANGED <<trouble, faults>>
     \/ hash' = None /\ Fault /\ trouble' = trouble \cup {"lost"}
  /\ Goto(Boot, "done")
  /\ UNCHANGED <<disk, kind, doc, fd, tokens, lockout, guess, ssh>>

(* apply_service_config and the rest of set_service.  sshd does not start  *)
(* without the flag (ConditionPathExists).  A step that fails ends the     *)
(* request; the startup goes on to the next.                               *)
UnitsRead ==
  /\ pc[Units] = "units"
  /\ \/ /\ kind' = [kind EXCEPT ![Units] = IF path.ssh = "on" THEN "on" ELSE "off"]
        /\ UNCHANGED <<trouble, faults>>
     \/ /\ kind' = [kind EXCEPT ![Units] = "off"]
        /\ Fault /\ trouble' = trouble \cup {"lost"}
  /\ Goto(Units, "unit")
  /\ UNCHANGED <<disk, doc, fd, memory, guess, ssh>>

SwitchFirst(t) ==
  /\ pc[t] = "unit"
  /\ IF kind[t] = "on" THEN flag' = TRUE /\ UNCHANGED sshd
                       ELSE sshd' = FALSE /\ UNCHANGED flag
  /\ Goto(t, "unit2")
  /\ trouble' = trouble \cup
       IF \E o \in Tasks \ {t} : kind[o] \in {"on", "off"} /\ InFlight(o)
       THEN {"switches"} ELSE {}
  /\ UNCHANGED <<disk, kind, doc, fd, memory, guess, faults>>

SwitchFails(t) ==
  /\ pc[t] \in {"unit", "unit2"} /\ Fault
  /\ IF t = Units /\ pc[t] = "unit" THEN Goto(t, "unit2") /\ UNCHANGED <<kind, doc>>
                                    ELSE End(t)
  /\ Cut(t)
  /\ UNCHANGED <<disk, fd, memory, guess, ssh>>

(* Mutant: the flag is left when the server is switched off. *)
SwitchSecond_KeepsFlag(t) ==
  /\ pc[t] = "unit2"
  /\ sshd' = IF kind[t] = "on" THEN flag ELSE sshd
  /\ End(t)
  /\ UNCHANGED <<disk, fd, memory, guess, flag, trouble, faults>>

SwitchSecond(t) ==
  /\ pc[t] = "unit2"
  /\ IF kind[t] = "on" THEN sshd' = flag /\ UNCHANGED flag
                       ELSE flag' = FALSE /\ UNCHANGED sshd
  /\ End(t)
  /\ UNCHANGED <<disk, fd, memory, guess, trouble, faults>>
-----------------------------------------------------------------------------
(* POST /auth/login.  The lockout is looked at, the password is verified   *)
(* (bcrypt, under a read lock of the hash), and the result is recorded.    *)
Check(r) ==
  /\ pc[r] = "check"
  /\ IF hash = None \/ locked > 0 THEN End(r)
                                  ELSE Goto(r, "verify") /\ UNCHANGED <<kind, doc>>
  /\ UNCHANGED <<disk, fd, memory, guess, ssh, trouble, faults>>

Verify(r) ==
  /\ pc[r] = "verify"
  /\ Goto(r, IF hash # None /\ guess[r] = hash THEN "grant" ELSE "count")
  /\ UNCHANGED <<disk, kind, doc, fd, memory, guess, ssh, trouble,
                 faults>>

Counting == \E t \in Tasks : pc[t] = "arm"
Recorded == trouble' = trouble \cup IF Counting THEN {"counts"} ELSE {}
Reset == attempts' = 0 /\ locked' = 0 /\ UNCHANGED seen

Grant(r) ==
  /\ pc[r] = "grant"
  /\ Reset
  /\ tokens' = tokens \cup {r}
  /\ End(r)
  /\ Recorded
  /\ UNCHANGED <<disk, fd, hash, guess, ssh, faults>>

(* record_failed_login: the count under one lock, the delay under another. *)
Count(r) ==
  /\ pc[r] = "count"
  /\ attempts' = attempts + 1
  /\ seen' = [seen EXCEPT ![r] = attempts + 1]
  /\ Goto(r, "arm")
  /\ Recorded
  /\ UNCHANGED <<disk, kind, doc, fd, hash, tokens, locked, guess, ssh, faults>>

Arm(r) ==
  /\ pc[r] = "arm"
  /\ locked' = IF BackoffDelay(seen[r]) > 0 THEN BackoffDelay(seen[r]) ELSE locked
  /\ seen' = [seen EXCEPT ![r] = 0]
  /\ End(r)
  /\ UNCHANGED <<disk, fd, hash, tokens, attempts, guess, ssh, trouble, faults>>

LockEnds ==
  /\ locked > 0 /\ locked' = 0
  /\ UNCHANGED <<disk, tasks, hash, tokens, attempts, seen, guess, ssh,
                 trouble, faults>>

(* POST /auth/logout.                                                      *)
Logout(r) ==
  /\ r \in tokens
  /\ tokens' = tokens \ {r}
  /\ UNCHANGED <<disk, tasks, hash, lockout, guess, ssh, trouble,
                 faults>>
-----------------------------------------------------------------------------
(* PUT /auth/password.  A wrong current password ends it, uncounted.       *)
Confirm(r) ==
  /\ pc[r] = "confirm"
  /\ IF hash # None /\ guess[r] # hash
     THEN End(r)
     ELSE Goto(r, "change") /\ UNCHANGED <<kind, doc>>
  /\ UNCHANGED <<disk, fd, memory, guess, ssh, trouble, faults>>

Changes(r) ==
  trouble' = trouble \cup (IF Counting THEN {"counts"} ELSE {})
    \cup (IF \E o \in Tasks : pc[o] = "grant" THEN {"logins"} ELSE {})
    \cup (IF \E o \in Tasks \ {r} : Changing(o) THEN {"changes"} ELSE {})

(* set_password and remove_password: the hash in memory is the first to    *)
(* change; persist_password_hash is Read to Rename.                        *)
SetPassword(r) ==
  /\ pc[r] = "change" /\ kind[r] = "password"
  /\ hash' = r
  /\ Reset
  /\ Goto(r, "read")
  /\ Changes(r)
  /\ UNCHANGED <<disk, kind, doc, fd, tokens, guess, ssh, faults>>

RemovePassword(r) ==
  /\ pc[r] = "change" /\ kind[r] = "unset"
  /\ hash' = None
  /\ Goto(r, "forget")
  /\ Changes(r)
  /\ UNCHANGED <<disk, kind, doc, fd, tokens, lockout, guess, ssh, faults>>

Forget(r) ==
  /\ pc[r] = "forget"
  /\ tokens' = {}
  /\ Reset
  /\ Goto(r, "read")
  /\ Recorded
  /\ UNCHANGED <<disk, kind, doc, fd, hash, guess, ssh, faults>>

(* set_system_password: chpasswd, whose result nobody looks at.            *)
Console(r) ==
  /\ pc[r] = "console"
  /\ IF kind[r] = "password" THEN Goto(r, "revoke") /\ UNCHANGED <<kind, doc>>
                             ELSE End(r)
  /\ UNCHANGED <<disk, fd, memory, guess, ssh, trouble, faults>>

(* Mutant: only the token the request came with is revoked. *)
RevokeAll_One(r) ==
  /\ pc[r] = "revoke"
  /\ tokens' = tokens \ {Session}
  /\ End(r)
  /\ UNCHANGED <<disk, fd, hash, lockout, guess, ssh, trouble, faults>>

RevokeAll(r) ==
  /\ pc[r] = "revoke"
  /\ tokens' = {}
  /\ End(r)
  /\ UNCHANGED <<disk, fd, hash, lockout, guess, ssh, trouble, faults>>
-----------------------------------------------------------------------------
(* import_settings: the archive's file takes the place of ctrl.toml and is *)
(* then filled; the device reboots a second later.                         *)
Unpack(r) ==
  /\ pc[r] = "unpack"
  /\ path' = Blank
  /\ fd' = [o \in Tasks |-> IF fd[o] = "path" THEN "gone" ELSE fd[o]]
  /\ Goto(r, "unpacked")
  /\ trouble' = trouble \cup
       IF \E o \in Tasks : Saving(o) THEN {"lost"} ELSE {}
  /\ UNCHANGED <<tmp, legacy, kind, doc, memory, guess, ssh, faults>>

Unpacked(r) ==
  /\ pc[r] = "unpacked"
  /\ path' = [s \in Sections |-> IF s = "ssh" THEN "off" ELSE Imported]
  /\ Goto(r, "reboot")
  /\ UNCHANGED <<tmp, legacy, kind, doc, fd, memory, guess, ssh, trouble, faults>>

(* The controller starts anew, what it was doing is gone, and with it what *)
(* it had in memory.                                                       *)
Startover ==
  /\ pc' = [t \in Tasks |-> CASE t \in Startup -> Begun[t]
                              [] pc[t] = "idle" -> "idle" [] OTHER -> "done"]
  /\ kind' = Errand
  /\ doc' = [t \in Tasks |-> Blank]
  /\ fd' = [t \in Tasks |-> "none"]
  /\ hash' = None /\ tokens' = {}
  /\ attempts' = 0 /\ locked' = 0 /\ seen' = [r \in Requests |-> 0]
  /\ trouble' = {}

(* It ends and is started again, or the power is lost and comes back.      *)
Restart ==
  /\ Fault
  /\ Startover
  /\ sshd' \in {sshd, FALSE}
  /\ UNCHANGED <<disk, guess, flag>>

Reboot(r) ==
  /\ pc[r] = "reboot"
  /\ Startover
  /\ sshd' = FALSE
  /\ UNCHANGED <<disk, guess, flag, faults>>

(* The client goes away and its handler is dropped, at an await.           *)
Drop(r) ==
  /\ InFlight(r) /\ pc[r] \notin {"unpacked", "reboot", "lastwrite"}
  /\ Fault
  /\ IF pc[r] = "write" THEN Goto(r, "lastwrite") /\ UNCHANGED <<kind, doc>>
                        ELSE End(r)
  /\ seen' = [seen EXCEPT ![r] = 0]
  /\ Cut(r)
  /\ UNCHANGED <<disk, fd, hash, tokens, attempts, locked, guess, ssh>>

Next ==
  \/ \E r \in Requests :
       \/ Submit(r) \/ Check(r) \/ Verify(r) \/ Grant(r) \/ Count(r) \/ Arm(r)
       \/ Logout(r) \/ Confirm(r) \/ SetPassword(r) \/ RemovePassword(r)
       \/ Forget(r) \/ Console(r) \/ RevokeAll(r) \/ Unpack(r) \/ Unpacked(r)
       \/ Reboot(r) \/ Drop(r)
  \/ \E t \in Tasks :
       \/ Look(t) \/ Read(t) \/ Truncate(t) \/ Write(t) \/ Rename(t)
       \/ RenameFails(t) \/ WriteFails(t) \/ SwitchFirst(t) \/ SwitchSecond(t)
       \/ SwitchFails(t)
  \/ Retire \/ LoadAuth \/ UnitsRead \/ LockEnds \/ Restart

Spec == Init /\ [][Next]_vars
-----------------------------------------------------------------------------
(* The password that is asked for is the one that is on disk, so that a    *)
(* restart neither opens the web UI nor closes it to its owner (auth.rs:   *)
(* 95-107, 180-189): whatever logins, other settings, failures and stops   *)
(* happen, a stop in the middle of a change among them.  Exceptions, each  *)
(* until the controller starts again: a change of the password that failed *)
(* or was dropped, two changes that overlapped, and a file that lost a     *)
(* section, to saves (or a save and an import) that overlapped or to a     *)
(* read that failed.                                                       *)
PasswordOnDisk ==
  /\ Up /\ ~Importing /\ ~\E t \in Tasks : Changing(t)
  /\ trouble \cap {"lost", "changes", "password", "unset"} = {}
  => hash = path.auth

(* routes.rs:259: a change of the password ends every session begun with   *)
(* another one ("force re-login").  Exceptions, until the controller       *)
(* starts again: a change that failed (the tokens are then not revoked) or *)
(* was dropped, two changes that overlapped, and a login whose password    *)
(* was verified before the change and whose token is made after it.        *)
TokensCurrent ==
  /\ ~\E t \in Tasks : Changing(t)
  /\ trouble \cap {"logins", "changes", "password", "unset"} = {}
  => \A t \in tokens : guess[t] = hash

(* The reference: the delay doubles with every failure after the free      *)
(* ones, from 5, and stays at 300.                                         *)
Doubled[n \in Nat] ==
  IF n <= FreeAttempts THEN 0
  ELSE IF n = FreeAttempts + 1 THEN 5
  ELSE IF 2 * Doubled[n - 1] > MaxSecs THEN MaxSecs ELSE 2 * Doubled[n - 1]

(* auth.rs:26-36: a lockout lasts as long as the failures since the last   *)
(* success ask for, also when it came while their passwords were being     *)
(* verified; neither waiting it out nor a reset of the count makes it      *)
(* shorter.  Exceptions, until the controller starts again: two failures,  *)
(* or one and a reset, recorded at the same time (the delay of the first   *)
(* may then replace that of the second), and a login that was dropped.     *)
LockFits ==
  ~Counting /\ trouble \cap {"counts", "login"} = {} => locked \in {0, Doubled[attempts]}

(* system.rs:1885-1915: sshd runs, and may run, exactly when ctrl.toml     *)
(* says so, once nobody is at it: after the startup, whatever state a stop *)
(* or a failure has left, after a toggle and after an import.  Exceptions, *)
(* until the controller starts again: a toggle of which a step failed or   *)
(* that was dropped, two that overlapped, and a file that lost a section,  *)
(* to saves (of any sections, or a save and an import) that overlapped or  *)
(* to a read that failed: a toggle that crosses another save can be taken  *)
(* out of the file while the server follows it.                            *)
SshAsSaved ==
  /\ Up /\ ~Importing
  /\ ~\E t \in Tasks : kind[t] \in {"on", "off"} /\ InFlight(t)
  /\ ~InFlight(Units)
  /\ trouble \cap {"lost", "switches", "on", "off"} = {}
  => sshd = (path.ssh = "on") /\ flag = sshd

(* A save leaves the other sections as they are at that moment, whatever   *)
(* dropped and failing saves and stops go before it.  Exceptions, until    *)
(* the controller starts again: two saves, or a save and an import, that   *)
(* overlapped, and a save that could not read the file: of either the code *)
(* loses sections.                                                         *)
OneSection ==
  [][(path' # path /\ "lost" \notin trouble' /\ ~Importing /\ ~Importing')
     => \E s \in Sections : \A o \in Sections \ {s} : path'[o] = path[o]]_vars

(* system.rs:1662: the channel file of an upgraded device is not removed   *)
(* before ctrl.toml has a channel, whatever saves fail and wherever the    *)
(* controller stops.  Exceptions, until the controller starts again: saves *)
(* that overlapped and a read that failed.  The startup itself can make    *)
(* saves overlap: manage_setup_ap stores a generated passphrase beside the *)
(* migration (main.rs:129, 200, 294), on the very boot that migrates, and  *)
(* the channel is then lost with the file.                                 *)
ChannelKept ==
  [][(legacy' # legacy /\ "lost" \notin trouble) => path.auto # None]_vars

(* system.rs:1959 "Write file atomically": a setting once saved does not   *)
(* vanish from the file.  It does when two saves share ctrl.toml.tmp.      *)
FileWhole == [][path.auto # None => path'.auto # None]_vars
=============================================================================
