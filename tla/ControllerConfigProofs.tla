----------------------- MODULE ControllerConfigProofs -----------------------
(***************************************************************************)
(* Theorems about ControllerConfig, for every set of requests, whatever    *)
(* each of them asks for, and every number of faults.                      *)
(***************************************************************************)
EXTENDS ControllerConfig, WellFoundedInduction, TLAPS

Texts == Tasks \cup {None, Initial, Wrong, Legacy, ImageDefault, Imported,
                    "on", "off"}
Files == [Sections -> Texts]
Holders == Requests \cup {Session}

SavingAt == {"read", "trunc", "write", "lastwrite", "rename"}
LoginAt == {"check", "verify", "grant", "count", "arm"}
Labels == {"idle", "done", "look", "retire", "load", "units", "unit", "unit2",
           "confirm", "change", "forget", "console", "revoke", "unpack",
           "unpacked", "reboot"} \cup SavingAt \cup LoginAt
Saves == {"channel", "apput", "get", "on", "off", "password", "unset"}

Typed ==
  /\ path \in Files /\ tmp \in Files \cup {None} /\ legacy \in {None, Legacy}
  /\ doc \in [Tasks -> Files]
  /\ fd \in [Tasks -> {"none", "tmp", "path", "gone"}]
  /\ pc \in [Tasks -> Labels]
  /\ kind \in [Tasks -> Asks \cup {"migrate", None}]
  /\ hash \in Texts
  /\ tokens \subseteq Holders
  /\ guess \in [Holders -> Texts]
  /\ flag \in BOOLEAN /\ sshd \in BOOLEAN

(* Where each task can be with what it is asked for.                       *)
Errands_OK ==
  /\ kind[Boot] = "migrate"
  /\ pc[Boot] \in {"look", "retire", "load", "done"} \cup (SavingAt \ {"lastwrite"})
  /\ kind[Ap] = "get"
  /\ pc[Ap] \in {"look", "done"} \cup (SavingAt \ {"lastwrite"})
  /\ kind[Units] \in {None, "on", "off"}
  /\ pc[Units] \in {"units", "unit", "unit2", "done"}
  /\ pc[Units] = "units" => kind[Units] = None
  /\ pc[Units] \in {"unit", "unit2"} => kind[Units] \in {"on", "off"}
  /\ \A r \in Requests :
       /\ pc[r] \notin {"units", "retire", "load"}
       /\ pc[r] \in {"idle", "done"} => kind[r] = None
       /\ pc[r] = "look" => kind[r] = "get"
       /\ pc[r] \in SavingAt => kind[r] \in Saves
       /\ pc[r] \in LoginAt => kind[r] = "login"
       /\ pc[r] \in {"unit", "unit2"} => kind[r] \in {"on", "off"}
       /\ pc[r] \in {"confirm", "change", "console"} => kind[r] \in {"password", "unset"}
       /\ pc[r] = "forget" => kind[r] = "unset"
       /\ pc[r] = "revoke" => kind[r] = "password"
       /\ pc[r] \in {"unpack", "unpacked", "reboot"} => kind[r] = "import"
       /\ pc[r] = "lastwrite" /\ kind[r] \in Delicate => kind[r] \in trouble

(* Before the web UI serves there are no requests and no sessions.         *)
Startup_OK ==
  /\ ~Up => /\ \A r \in Requests : pc[r] \in {"idle", "done"}
            /\ tokens = {}
  /\ \A r \in Requests : r \in tokens => pc[r] = "done"

(* A save that nobody overlaps writes what is there, with its own section  *)
(* changed.                                                                *)
Saving_OK ==
  "lost" \notin trouble =>
    \A t \in Tasks :
      /\ Saving(t) => /\ doc[t] = Edited(t, path)
                      /\ \A o \in Tasks : Saving(o) => o = t
                      /\ ~Unpacking
      /\ pc[t] \in {"write", "lastwrite"} => fd[t] = "tmp" /\ tmp = Blank
      /\ pc[t] = "rename" => tmp = doc[t]
      /\ pc[t] \notin {"write", "lastwrite"} => fd[t] = "none"

Channel_OK ==
  "lost" \notin trouble /\ pc[Boot] = "retire" => path.auto # None

(* The one change of the password that is under way has set the hash; from *)
(* the rename on it is in the file.                                        *)
Change_OK ==
  trouble \cap {"changes", "password", "unset"} = {} =>
    \A r \in Tasks : Changing(r) =>
      /\ \A o \in Tasks : Changing(o) => o = r
      /\ hash = IF kind[r] = "unset" THEN None ELSE r

Password_OK ==
  /\ Up /\ ~Importing
  /\ \A t \in Tasks : Changing(t) => pc[t] \in {"console", "revoke"}
  /\ trouble \cap {"lost", "changes", "password", "unset"} = {}
  => hash = path.auth

(* A login that was let in, and its session, belong to the password that   *)
(* is in force; a removed one leaves none.                                 *)
Tokens_OK ==
  trouble \cap {"logins", "changes", "password", "unset"} = {} =>
    /\ \A r \in Requests : pc[r] = "grant" => hash # None /\ guess[r] = hash
    /\ \A r \in Requests :
         Changing(r) /\ kind[r] = "unset" /\ pc[r] # "forget" => tokens = {}
    /\ TokensCurrent

(* Who switches the SSH server, what half of it has done, and what the one *)
(* that comes last finds in the file.                                      *)
Switches(t) == kind[t] \in {"on", "off"} /\ InFlight(t)
Fits(t) == kind[t] = "on" <=> path.ssh = "on"

Half_OK ==
  trouble \cap {"switches", "on", "off"} = {} =>
    \A t \in Tasks : pc[t] = "unit2" =>
      /\ \A o \in Tasks : pc[o] = "unit2" => o = t
      /\ IF kind[t] = "on" THEN flag ELSE ~sshd

Last_OK ==
  ~Importing /\ trouble \cap {"lost", "switches", "on", "off"} = {} =>
    \A t \in Tasks :
      /\ pc[t] = "unit" /\ (\A o \in Tasks \ {t} : Switches(o) => pc[o] = "unit2")
           => Fits(t)
      /\ pc[t] = "unit2" /\ (\A o \in Tasks \ {t} : ~Switches(o)) => Fits(t)

Quiet_OK ==
  /\ ~Importing /\ trouble \cap {"lost", "switches", "on", "off"} = {}
  /\ ~InFlight(Units) /\ \A t \in Tasks : ~Switches(t)
  => sshd = (path.ssh = "on") /\ flag = sshd

SInv ==
  /\ Typed /\ Errands_OK /\ Startup_OK /\ Saving_OK /\ Channel_OK
  /\ Change_OK /\ Password_OK /\ Tokens_OK /\ Half_OK /\ Last_OK /\ Quiet_OK
-----------------------------------------------------------------------------
(* Requests and the startup tasks are different ones.                      *)
LEMMA Names ==
  /\ Boot \notin Requests /\ Ap \notin Requests /\ Units \notin Requests
  /\ Boot # Ap /\ Boot # Units /\ Ap # Units
  /\ Session \notin Requests /\ None \notin {Legacy, ImageDefault}
  /\ None \notin Tasks
BY TasksAssumption DEF Tasks, Startup
-----------------------------------------------------------------------------
(* A step of t that leaves the files and every save under way alone.       *)
SavesAlone(t) ==
  /\ UNCHANGED <<path, tmp, legacy>> /\ trouble \subseteq trouble'
  /\ Unpacking' => Unpacking
  /\ \A o \in Tasks : o # t => UNCHANGED <<pc[o], kind[o], doc[o], fd[o]>>
  /\ \/ UNCHANGED <<pc[t], kind[t], doc[t], fd[t]>>
     \/ /\ pc[t] = "write" /\ pc'[t] = "lastwrite"
        /\ UNCHANGED <<kind[t], doc[t], fd[t]>>
     \/ /\ pc[t] \notin {"write", "lastwrite"} /\ ~Saving(t)'
        /\ UNCHANGED fd[t]

(* It keeps what is known of them.                                         *)
LEMMA SavingKept ==
  ASSUME Saving_OK, NEW t \in Tasks, SavesAlone(t)
  PROVE  Saving_OK'
<1>. USE DEF SavesAlone
<1>1. ASSUME NEW o \in Tasks, kind'[o] = kind[o] PROVE Edited(o, path)' = Edited(o, path)
  BY <1>1 DEF Edited, Section, Value
<1>. SUFFICES ASSUME "lost" \notin trouble', NEW o \in Tasks
      PROVE  /\ Saving(o)' => /\ doc'[o] = Edited(o, path)'
                              /\ \A u \in Tasks : Saving(u)' => u = o
                              /\ ~Unpacking'
             /\ pc'[o] \in {"write", "lastwrite"} => fd'[o] = "tmp" /\ tmp' = Blank
             /\ pc'[o] = "rename" => tmp' = doc'[o]
             /\ pc'[o] \notin {"write", "lastwrite"} => fd'[o] = "none"
  BY DEF Saving_OK
<1>2. "lost" \notin trouble
  OBVIOUS
<1>3. \A u \in Tasks : Saving(u)' => /\ Saving(u)
                                     /\ UNCHANGED <<kind[u], doc[u], fd[u]>>
  BY DEF Saving
<1>4. Saving(o)' => doc'[o] = Edited(o, path)'
  BY <1>1, <1>2, <1>3 DEF Saving_OK
<1>5. Saving(o)' => (\A u \in Tasks : Saving(u)' => u = o) /\ ~Unpacking'
  BY <1>2, <1>3 DEF Saving_OK
<1>6. pc'[o] \in {"write", "lastwrite"} => fd'[o] = "tmp" /\ tmp' = Blank
  BY <1>2 DEF Saving_OK, Saving
<1>7. pc'[o] = "rename" => tmp' = doc'[o]
  BY <1>2 DEF Saving_OK, Saving
<1>8. pc'[o] \notin {"write", "lastwrite"} => fd'[o] = "none"
  BY <1>2 DEF Saving_OK, Saving
<1>. QED
  BY <1>4, <1>5, <1>6, <1>7, <1>8

(* What the rename of a save that nobody overlapped leaves in the file.    *)
LEMMA RenameWrites ==
  ASSUME Typed, Saving_OK, NEW t \in Tasks, Rename(t), "lost" \notin trouble
  PROVE  /\ path' = Edited(t, path)
         /\ \A s \in Sections :
              path'[s] = IF s = Section(t) THEN Value(t) ELSE path[s]
<1>1. path' = Edited(t, path)
  BY DEF Saving_OK, Rename, Saving
<1>. QED
  BY <1>1 DEF Edited, Typed, Files

(* A step of r, not of Units, that has nothing to do with the SSH server.  *)
SshAlone(r) ==
  /\ r \in Tasks \ {Units}
  /\ UNCHANGED <<path, flag, sshd>> /\ trouble \subseteq trouble'
  /\ Importing => Importing'
  /\ \A o \in Tasks : o # r => UNCHANGED <<pc[o], kind[o]>>
  /\ ~Switches(r) /\ ~Switches(r)'
  /\ {pc[r], pc'[r]} \cap {"unit", "unit2"} = {}

(* It keeps what is known of the server.                                   *)
LEMMA SwitchKept ==
  ASSUME Last_OK, Quiet_OK, NEW r, SshAlone(r)
  PROVE  Last_OK' /\ Quiet_OK'
<1>. USE DEF SshAlone
<1>1. \A o \in Tasks : Switches(o)' <=> Switches(o)
  BY DEF Switches, InFlight
<1>2. r \in Tasks /\ Units \in Tasks /\ r # Units
  BY Names DEF Tasks, Startup
<1>3. Last_OK'
  BY <1>1, <1>2 DEF Last_OK, Fits
<1>4. Quiet_OK'
  BY <1>1, <1>2 DEF Quiet_OK, InFlight
<1>. QED
  BY <1>3, <1>4

(* The initial states satisfy the invariant.                               *)
LEMMA InvInit == Init => SInv
<1>. SUFFICES ASSUME Init PROVE SInv
  OBVIOUS
<1>. USE Names DEF Init, Tasks, Startup, Begun, Errand
<1>1. Typed
  BY DEF Typed, Labels, Files, Texts, Holders, Sections, Blank, Asks
<1>2. Errands_OK
  BY DEF Errands_OK, SavingAt, LoginAt
<1>3. Startup_OK
  BY DEF Startup_OK, Up
<1>4. Saving_OK
  BY DEF Saving_OK, Saving
<1>5. Channel_OK
  BY DEF Channel_OK
<1>6. Change_OK
  <2>1. \A t \in Tasks : pc[t] \in {"idle", "done", "look", "units"}
    OBVIOUS
  <2>. QED
    BY <2>1 DEF Change_OK, Changing, Saving
<1>7. Password_OK
  BY DEF Password_OK, Up
<1>8. Tokens_OK
  BY DEF Tokens_OK, TokensCurrent, Changing, Saving, Holders
<1>9. Half_OK
  BY DEF Half_OK
<1>10. Last_OK
  BY DEF Last_OK
<1>11. Quiet_OK
  <2>1. InFlight(Units) \/ sshd = TRUE
    BY DEF InFlight
  <2>2. path.ssh = "on" /\ flag = TRUE
    OBVIOUS
  <2>. QED
    BY <2>1, <2>2, Zenon DEF Quiet_OK
<1>. QED
  BY <1>1, <1>2, <1>3, <1>4, <1>5, <1>6, <1>7, <1>8, <1>9, <1>10, <1>11 DEF
     SInv
-----------------------------------------------------------------------------
(* A request that is made has not read or changed anything.                *)
LEMMA SubmitStep ==
  ASSUME SInv, NEW r \in Requests, Submit(r)
  PROVE  SInv'
<1>. USE Names, KindsAssumption DEF SInv, Tasks, Startup, Submit, Up, Goto,
   disk, lockout, memory, ssh
<1>1. Typed'
  BY DEF Typed, Labels, Texts, Holders, SavingAt, LoginAt
<1>2. Errands_OK'
  BY DEF Typed, Errands_OK, Saves, SavingAt, LoginAt, Asks
<1>3. Startup_OK'
  BY DEF Startup_OK
<1>4. Saving_OK'
  <2>1. SavesAlone(r)
    BY DEF SavesAlone, Typed, Errands_OK, Saving, Unpacking
  <2>. QED
    BY <2>1, SavingKept
<1>5. Channel_OK'
  BY DEF Channel_OK
<1>6. Change_OK'
  BY DEF Typed, Change_OK, Changing, Saving
<1>7. Password_OK'
  BY DEF Password_OK, Changing, Saving, Importing
<1>8. Tokens_OK'
  BY DEF Typed, Startup_OK, Tokens_OK, TokensCurrent, Changing, Saving
<1>9. Half_OK'
  BY DEF Half_OK
<1>10. Last_OK'
  BY DEF Last_OK, Switches, Fits, Importing, InFlight
<1>11. Quiet_OK'
  BY DEF Quiet_OK, Switches, Fits, Importing, InFlight
<1>. QED
  BY <1>1, <1>2, <1>3, <1>4, <1>5, <1>6, <1>7, <1>8, <1>9, <1>10, <1>11

(* A login that is let past the lockout is still before its verification.  *)
LEMMA CheckStep ==
  ASSUME SInv, NEW r \in Requests, Check(r)
  PROVE  SInv'
<1>. USE Names DEF SInv, Tasks, Startup, Check, End, Goto, disk, lockout,
   memory, ssh
<1>1. Typed'
  BY DEF Typed, Labels, Files, Texts, Blank, LoginAt
<1>2. Errands_OK'
  BY DEF Typed, Errands_OK, SavingAt, LoginAt
<1>3. Startup_OK'
  BY DEF Typed, Startup_OK, Up
<1>4. Saving_OK'
  <2>1. SavesAlone(r)
    BY DEF SavesAlone, Typed, Errands_OK, Saving, Unpacking
  <2>. QED
    BY <2>1, SavingKept
<1>5. Channel_OK'
  BY DEF Typed, Channel_OK
<1>6. Change_OK'
  BY DEF Typed, Change_OK, Changing, Saving
<1>7. Password_OK'
  BY DEF Typed, Startup_OK, Password_OK, Changing, Saving, Importing
<1>8. Tokens_OK'
  BY DEF Typed, Tokens_OK, TokensCurrent, Changing, Saving
<1>9. Half_OK'
  BY DEF Typed, Half_OK
<1>10. Last_OK' /\ Quiet_OK'
  <2>1. SshAlone(r)
    BY DEF SshAlone, Typed, Errands_OK, LoginAt, Switches, InFlight, Importing
  <2>. QED
    BY <2>1, SwitchKept
<1>. QED
  BY <1>1, <1>2, <1>3, <1>4, <1>5, <1>6, <1>7, <1>8, <1>9, <1>10

(* A login goes on to its token only with the password in force.           *)
LEMMA VerifyStep ==
  ASSUME SInv, NEW r \in Requests, Verify(r)
  PROVE  SInv'
<1>. USE Names DEF SInv, Tasks, Startup, Verify, Goto, disk, lockout, memory,
   ssh
<1>1. Typed'
  BY DEF Typed, Labels, LoginAt
<1>2. Errands_OK'
  BY DEF Errands_OK, SavingAt, LoginAt
<1>3. Startup_OK'
  BY DEF Startup_OK, Up
<1>4. Saving_OK'
  <2>1. SavesAlone(r)
    BY DEF SavesAlone, Typed, Errands_OK, Saving, Unpacking
  <2>. QED
    BY <2>1, SavingKept
<1>5. Channel_OK'
  BY DEF Channel_OK
<1>6. Change_OK'
  BY DEF Change_OK, Changing, Saving
<1>7. Password_OK'
  BY DEF Startup_OK, Password_OK, Changing, Saving, Importing
<1>8. Tokens_OK'
  BY DEF Tokens_OK, TokensCurrent, Changing, Saving
<1>9. Half_OK'
  BY DEF Half_OK
<1>10. Last_OK' /\ Quiet_OK'
  <2>1. SshAlone(r)
    BY DEF SshAlone, Typed, Errands_OK, LoginAt, Switches, InFlight, Importing
  <2>. QED
    BY <2>1, SwitchKept
<1>. QED
  BY <1>1, <1>2, <1>3, <1>4, <1>5, <1>6, <1>7, <1>8, <1>9, <1>10

(* The token that is made belongs to the password in force.                *)
LEMMA GrantStep ==
  ASSUME SInv, NEW r \in Requests, Grant(r)
  PROVE  SInv'
<1>. USE Names DEF SInv, Tasks, Startup, Grant, End, Reset, Recorded, Goto,
   disk, ssh
<1>1. Typed'
  BY DEF Typed, Labels, Files, Texts, Holders, Blank
<1>2. Errands_OK'
  BY DEF Typed, Errands_OK, SavingAt, LoginAt
<1>3. Startup_OK'
  BY DEF Typed, Startup_OK, Up
<1>4. Saving_OK'
  <2>1. SavesAlone(r)
    BY DEF SavesAlone, Typed, Errands_OK, Saving, Unpacking
  <2>. QED
    BY <2>1, SavingKept
<1>5. Channel_OK'
  BY DEF Channel_OK
<1>6. Change_OK'
  BY DEF Change_OK, Changing, Saving
<1>7. Password_OK'
  BY DEF Startup_OK, Password_OK, Changing, Saving, Importing
<1>8. Tokens_OK'
  BY DEF Change_OK, Tokens_OK, TokensCurrent, Changing, Saving
<1>9. Half_OK'
  BY DEF Half_OK
<1>10. Last_OK' /\ Quiet_OK'
  <2>1. SshAlone(r)
    BY DEF SshAlone, Typed, Errands_OK, LoginAt, Switches, InFlight, Importing
  <2>. QED
    BY <2>1, SwitchKept
<1>. QED
  BY <1>1, <1>2, <1>3, <1>4, <1>5, <1>6, <1>7, <1>8, <1>9, <1>10

(* Counting a failure touches neither files nor tokens.                    *)
LEMMA CountStep ==
  ASSUME SInv, NEW r \in Requests, Count(r)
  PROVE  SInv'
<1>. USE Names DEF SInv, Tasks, Startup, Count, Recorded, Goto, disk, ssh
<1>1. Typed'
  BY DEF Typed, Labels, LoginAt
<1>2. Errands_OK'
  BY DEF Errands_OK, SavingAt, LoginAt
<1>3. Startup_OK'
  BY DEF Startup_OK, Up
<1>4. Saving_OK'
  <2>1. SavesAlone(r)
    BY DEF SavesAlone, Typed, Errands_OK, Saving, Unpacking
  <2>. QED
    BY <2>1, SavingKept
<1>5. Channel_OK'
  BY DEF Channel_OK
<1>6. Change_OK'
  BY DEF Change_OK, Changing, Saving
<1>7. Password_OK'
  BY DEF Startup_OK, Password_OK, Changing, Saving, Importing
<1>8. Tokens_OK'
  BY DEF Tokens_OK, TokensCurrent, Changing, Saving
<1>9. Half_OK'
  BY DEF Half_OK
<1>10. Last_OK' /\ Quiet_OK'
  <2>1. SshAlone(r)
    BY DEF SshAlone, Typed, Errands_OK, LoginAt, Switches, InFlight, Importing
  <2>. QED
    BY <2>1, SwitchKept
<1>. QED
  BY <1>1, <1>2, <1>3, <1>4, <1>5, <1>6, <1>7, <1>8, <1>9, <1>10

(* Nor does setting the delay.                                             *)
LEMMA ArmStep ==
  ASSUME SInv, NEW r \in Requests, Arm(r)
  PROVE  SInv'
<1>. USE Names DEF SInv, Tasks, Startup, Arm, End, Goto, disk, ssh
<1>1. Typed'
  BY DEF Typed, Labels, Files, Texts, Blank
<1>2. Errands_OK'
  BY DEF Typed, Errands_OK, SavingAt, LoginAt
<1>3. Startup_OK'
  BY DEF Startup_OK, Up
<1>4. Saving_OK'
  <2>1. SavesAlone(r)
    BY DEF SavesAlone, Typed, Errands_OK, Saving, Unpacking
  <2>. QED
    BY <2>1, SavingKept
<1>5. Channel_OK'
  BY DEF Channel_OK
<1>6. Change_OK'
  BY DEF Change_OK, Changing, Saving
<1>7. Password_OK'
  BY DEF Startup_OK, Password_OK, Changing, Saving, Importing
<1>8. Tokens_OK'
  BY DEF Tokens_OK, TokensCurrent, Changing, Saving
<1>9. Half_OK'
  BY DEF Half_OK
<1>10. Last_OK' /\ Quiet_OK'
  <2>1. SshAlone(r)
    BY DEF SshAlone, Typed, Errands_OK, LoginAt, Switches, InFlight, Importing
  <2>. QED
    BY <2>1, SwitchKept
<1>. QED
  BY <1>1, <1>2, <1>3, <1>4, <1>5, <1>6, <1>7, <1>8, <1>9, <1>10

(* One token less.                                                         *)
LEMMA LogoutStep ==
  ASSUME SInv, NEW r \in Requests, Logout(r)
  PROVE  SInv'
<1>. USE Names DEF SInv, Tasks, Startup, Logout, disk, tasks, lockout, ssh
<1>1. Typed'
  BY DEF Typed
<1>2. Errands_OK'
  BY DEF Errands_OK
<1>3. Startup_OK'
  BY DEF Startup_OK, Up
<1>4. Saving_OK'
  <2>1. SavesAlone(r)
    BY DEF SavesAlone, Typed, Errands_OK, Saving, Unpacking
  <2>. QED
    BY <2>1, SavingKept
<1>5. Channel_OK'
  BY DEF Channel_OK
<1>6. Change_OK'
  BY DEF Change_OK, Changing, Saving
<1>7. Password_OK'
  BY DEF Startup_OK, Password_OK, Changing, Saving, Importing
<1>8. Tokens_OK'
  BY DEF Tokens_OK, TokensCurrent, Changing, Saving
<1>9. Half_OK'
  BY DEF Half_OK
<1>10. Last_OK'
  BY DEF Last_OK, Switches, Fits, Importing, InFlight
<1>11. Quiet_OK'
  BY DEF Quiet_OK, Switches, Fits, Importing, InFlight
<1>. QED
  BY <1>1, <1>2, <1>3, <1>4, <1>5, <1>6, <1>7, <1>8, <1>9, <1>10, <1>11

(* A change that may go on has not changed anything yet.                   *)
LEMMA ConfirmStep ==
  ASSUME SInv, NEW r \in Requests, Confirm(r)
  PROVE  SInv'
<1>. USE Names DEF SInv, Tasks, Startup, Confirm, End, Goto, disk, lockout,
   memory, ssh
<1>1. Typed'
  BY DEF Typed, Labels, Files, Texts, Sections, Blank
<1>2. Errands_OK'
  BY DEF Typed, Errands_OK, SavingAt, LoginAt
<1>3. Startup_OK'
  BY DEF Typed, Startup_OK, Up
<1>4. Saving_OK'
  <2>1. SavesAlone(r)
    BY DEF SavesAlone, Typed, Errands_OK, Saving, Unpacking
  <2>. QED
    BY <2>1, SavingKept
<1>5. Channel_OK'
  BY DEF Typed, Channel_OK
<1>6. Change_OK'
  BY DEF Typed, Change_OK, Changing, Saving
<1>7. Password_OK'
  BY DEF Typed, Startup_OK, Password_OK, Changing, Saving, Importing
<1>8. Tokens_OK'
  BY DEF Typed, Tokens_OK, TokensCurrent, Changing, Saving
<1>9. Half_OK'
  BY DEF Typed, Half_OK
<1>10. Last_OK' /\ Quiet_OK'
  <2>1. SshAlone(r)
    BY DEF SshAlone, Typed, Errands_OK, LoginAt, Switches, InFlight, Importing
  <2>. QED
    BY <2>1, SwitchKept
<1>. QED
  BY <1>1, <1>2, <1>3, <1>4, <1>5, <1>6, <1>7, <1>8, <1>9, <1>10

(* The new hash is the one of the change that is under way.                *)
LEMMA SetPasswordStep ==
  ASSUME SInv, NEW r \in Requests, SetPassword(r)
  PROVE  SInv'
<1>. USE Names DEF SInv, Tasks, Startup, SetPassword, Changes, Reset, Goto,
   disk, ssh
<1>1. Typed'
  BY DEF Typed, Labels, Texts, SavingAt
<1>2. Errands_OK'
  BY DEF Errands_OK, Saves, LoginAt
<1>3. Startup_OK'
  BY DEF Startup_OK, Up
<1>4. Saving_OK'
  <2>1. SavesAlone(r)
    BY DEF SavesAlone, Typed, Errands_OK, Saving, Unpacking
  <2>. QED
    BY <2>1, SavingKept
<1>5. Channel_OK'
  BY DEF Channel_OK
<1>6. Change_OK'
  BY DEF Change_OK, Changing, Saving
<1>7. Password_OK'
  BY DEF Typed, Password_OK, Changing
<1>8. Tokens_OK'
  BY DEF Typed, Tokens_OK, TokensCurrent, Changing, Saving
<1>9. Half_OK'
  BY DEF Half_OK
<1>10. Last_OK' /\ Quiet_OK'
  <2>1. SshAlone(r)
    BY DEF SshAlone, Typed, Errands_OK, LoginAt, Switches, InFlight, Importing
  <2>. QED
    BY <2>1, SwitchKept
<1>. QED
  BY <1>1, <1>2, <1>3, <1>4, <1>5, <1>6, <1>7, <1>8, <1>9, <1>10

(* So is a hash that is removed.                                           *)
LEMMA RemovePasswordStep ==
  ASSUME SInv, NEW r \in Requests, RemovePassword(r)
  PROVE  SInv'
<1>. USE Names DEF SInv, Tasks, Startup, RemovePassword, Changes, Reset, Goto,
   disk, lockout, ssh
<1>1. Typed'
  BY DEF Typed, Labels, Texts
<1>2. Errands_OK'
  BY DEF Errands_OK, SavingAt, LoginAt
<1>3. Startup_OK'
  BY DEF Startup_OK, Up
<1>4. Saving_OK'
  <2>1. SavesAlone(r)
    BY DEF SavesAlone, Typed, Errands_OK, Saving, Unpacking
  <2>. QED
    BY <2>1, SavingKept
<1>5. Channel_OK'
  BY DEF Channel_OK
<1>6. Change_OK'
  BY DEF Change_OK, Changing, Saving
<1>7. Password_OK'
  BY DEF Typed, Password_OK, Changing
<1>8. Tokens_OK'
  BY DEF Typed, Tokens_OK, TokensCurrent, Changing, Saving
<1>9. Half_OK'
  BY DEF Half_OK
<1>10. Last_OK' /\ Quiet_OK'
  <2>1. SshAlone(r)
    BY DEF SshAlone, Typed, Errands_OK, LoginAt, Switches, InFlight, Importing
  <2>. QED
    BY <2>1, SwitchKept
<1>. QED
  BY <1>1, <1>2, <1>3, <1>4, <1>5, <1>6, <1>7, <1>8, <1>9, <1>10

(* From here on a removed password leaves no token.                        *)
LEMMA ForgetStep ==
  ASSUME SInv, NEW r \in Requests, Forget(r)
  PROVE  SInv'
<1>. USE Names DEF SInv, Tasks, Startup, Forget, Reset, Recorded, Goto, disk,
   ssh
<1>1. Typed'
  BY DEF Typed, Labels, SavingAt
<1>2. Errands_OK'
  BY DEF Errands_OK, Saves, LoginAt
<1>3. Startup_OK'
  BY DEF Startup_OK, Up
<1>4. Saving_OK'
  <2>1. SavesAlone(r)
    BY DEF SavesAlone, Typed, Errands_OK, Saving, Unpacking
  <2>. QED
    BY <2>1, SavingKept
<1>5. Channel_OK'
  BY DEF Channel_OK
<1>6. Change_OK'
  BY DEF Change_OK, Changing, Saving
<1>7. Password_OK'
  BY DEF Errands_OK, Password_OK, Changing
<1>8. Tokens_OK'
  BY DEF Tokens_OK, TokensCurrent
<1>9. Half_OK'
  BY DEF Half_OK
<1>10. Last_OK' /\ Quiet_OK'
  <2>1. SshAlone(r)
    BY DEF SshAlone, Typed, Errands_OK, LoginAt, Switches, InFlight, Importing
  <2>. QED
    BY <2>1, SwitchKept
<1>. QED
  BY <1>1, <1>2, <1>3, <1>4, <1>5, <1>6, <1>7, <1>8, <1>9, <1>10

(* The console password is not part of the state.                          *)
LEMMA ConsoleStep ==
  ASSUME SInv, NEW r \in Requests, Console(r)
  PROVE  SInv'
<1>. USE Names DEF SInv, Tasks, Startup, Console, End, Goto, disk, lockout,
   memory, ssh
<1>1. Typed'
  BY DEF Typed, Labels, Files, Texts, Blank, SavingAt
<1>2. Errands_OK'
  BY DEF Typed, Errands_OK, SavingAt, LoginAt
<1>3. Startup_OK'
  BY DEF Typed, Startup_OK, Up
<1>4. Saving_OK'
  <2>1. SavesAlone(r)
    BY DEF SavesAlone, Typed, Errands_OK, Saving, Unpacking
  <2>. QED
    BY <2>1, SavingKept
<1>5. Channel_OK'
  BY DEF Typed, Channel_OK
<1>6. Change_OK'
  BY DEF Typed, Change_OK, Changing, Saving
<1>7. Password_OK'
  BY DEF Typed, Startup_OK, Password_OK, Changing, Saving, Importing
<1>8. Tokens_OK'
  BY DEF Typed, Tokens_OK, TokensCurrent, Changing, Saving
<1>9. Half_OK'
  BY DEF Typed, Half_OK
<1>10. Last_OK' /\ Quiet_OK'
  <2>1. SshAlone(r)
    BY DEF SshAlone, Typed, Errands_OK, LoginAt, Switches, InFlight, Importing
  <2>. QED
    BY <2>1, SwitchKept
<1>. QED
  BY <1>1, <1>2, <1>3, <1>4, <1>5, <1>6, <1>7, <1>8, <1>9, <1>10

(* With all tokens gone none is of another password.                       *)
LEMMA RevokeAllStep ==
  ASSUME SInv, NEW r \in Requests, RevokeAll(r)
  PROVE  SInv'
<1>. USE Names DEF SInv, Tasks, Startup, RevokeAll, End, Goto, disk, lockout,
   ssh
<1>1. Typed'
  BY DEF Typed, Labels, Files, Texts, Blank
<1>2. Errands_OK'
  BY DEF Typed, Errands_OK, SavingAt, LoginAt
<1>3. Startup_OK'
  BY DEF Startup_OK, Up
<1>4. Saving_OK'
  <2>1. SavesAlone(r)
    BY DEF SavesAlone, Typed, Errands_OK, Saving, Unpacking
  <2>. QED
    BY <2>1, SavingKept
<1>5. Channel_OK'
  BY DEF Channel_OK
<1>6. Change_OK'
  BY DEF Typed, Change_OK, Changing, Saving
<1>7. Password_OK'
  BY DEF Startup_OK, Password_OK, Changing, Saving, Importing
<1>8. Tokens_OK'
  BY DEF Tokens_OK, TokensCurrent
<1>9. Half_OK'
  BY DEF Half_OK
<1>10. Last_OK' /\ Quiet_OK'
  <2>1. SshAlone(r)
    BY DEF SshAlone, Typed, Errands_OK, LoginAt, Switches, InFlight, Importing
  <2>. QED
    BY <2>1, SwitchKept
<1>. QED
  BY <1>1, <1>2, <1>3, <1>4, <1>5, <1>6, <1>7, <1>8, <1>9, <1>10

(* An archive that arrives during a save counts as an overlap.             *)
LEMMA UnpackStep ==
  ASSUME SInv, NEW r \in Requests, Unpack(r)
  PROVE  SInv'
<1>. USE Names DEF SInv, Tasks, Startup, Unpack, Blank, Goto, lockout, memory,
   ssh
<1>1. Typed'
  BY DEF Typed, Labels, Files, Texts
<1>2. Errands_OK'
  BY DEF Errands_OK, SavingAt, LoginAt
<1>3. Startup_OK'
  BY DEF Startup_OK, Up
<1>4. Saving_OK'
  BY DEF Saving_OK, Saving, Unpacking
<1>5. Channel_OK'
  BY DEF Startup_OK, Channel_OK, Up
<1>6. Change_OK'
  BY DEF Change_OK, Changing, Saving
<1>7. Password_OK'
  BY DEF Typed, Password_OK, Importing
<1>8. Tokens_OK'
  BY DEF Tokens_OK, TokensCurrent, Changing, Saving
<1>9. Half_OK'
  BY DEF Half_OK
<1>10. Last_OK'
  BY DEF Typed, Last_OK, Fits, Importing
<1>11. Quiet_OK'
  BY DEF Typed, Quiet_OK, Fits, Importing
<1>. QED
  BY <1>1, <1>2, <1>3, <1>4, <1>5, <1>6, <1>7, <1>8, <1>9, <1>10, <1>11

(* While it is filled in nobody relies on the file.                        *)
LEMMA UnpackedStep ==
  ASSUME SInv, NEW r \in Requests, Unpacked(r)
  PROVE  SInv'
<1>. USE Names DEF SInv, Tasks, Startup, Unpacked, Goto, lockout, memory, ssh
<1>1. Typed'
  BY DEF Typed, Labels, Files, Texts
<1>2. Errands_OK'
  BY DEF Errands_OK, SavingAt, LoginAt
<1>3. Startup_OK'
  BY DEF Startup_OK, Up
<1>4. Saving_OK'
  BY DEF Saving_OK, Saving, Unpacking
<1>5. Channel_OK'
  BY DEF Startup_OK, Channel_OK, Up
<1>6. Change_OK'
  BY DEF Change_OK, Changing, Saving
<1>7. Password_OK'
  BY DEF Password_OK, Importing
<1>8. Tokens_OK'
  BY DEF Tokens_OK, TokensCurrent, Changing, Saving
<1>9. Half_OK'
  BY DEF Half_OK
<1>10. Last_OK'
  BY DEF Last_OK, Fits, Importing
<1>11. Quiet_OK'
  BY DEF Quiet_OK, Fits, Importing
<1>. QED
  BY <1>1, <1>2, <1>3, <1>4, <1>5, <1>6, <1>7, <1>8, <1>9, <1>10, <1>11

(* The memory is new, the files are what they were.                        *)
LEMMA RebootStep ==
  ASSUME SInv, NEW r \in Requests, Reboot(r)
  PROVE  SInv'
<1>. USE Names DEF SInv, Tasks, Startup, Reboot, Startover, Begun, Errand,
   InFlight, Blank, disk
<1>1. Typed'
  <2>1. flag' \in BOOLEAN /\ sshd' \in BOOLEAN
    BY Zenon DEF Typed
  <2>. QED
    BY <2>1 DEF Typed, Errands_OK, Labels, Files, Texts
<1>2. Errands_OK'
  BY DEF Errands_OK, SavingAt, LoginAt
<1>3. Startup_OK'
  BY DEF Startup_OK
<1>4. Saving_OK'
  BY DEF Saving_OK, Saving, Unpacking
<1>5. Channel_OK'
  BY DEF Channel_OK
<1>6. Change_OK'
  BY DEF Change_OK, Changing, Saving
<1>7. Password_OK'
  BY DEF Password_OK, Up
<1>8. Tokens_OK'
  BY DEF Tokens_OK, TokensCurrent
<1>9. Half_OK'
  BY DEF Half_OK
<1>10. Last_OK'
  BY DEF Last_OK, Fits
<1>11. Quiet_OK'
  BY DEF Errands_OK, Quiet_OK, Fits
<1>. QED
  BY <1>1, <1>2, <1>3, <1>4, <1>5, <1>6, <1>7, <1>8, <1>9, <1>10, <1>11

(* A dropped handler is observed, where it leaves two things apart.        *)
LEMMA DropStep ==
  ASSUME SInv, NEW r \in Requests, Drop(r)
  PROVE  SInv'
<1>. USE Names DEF SInv, Tasks, Startup, Drop, InFlight, End, Fault, Goto,
   disk, ssh
<1>0. trouble \subseteq trouble' /\ (kind[r] \in Delicate => kind[r] \in trouble')
  BY DEF Cut
<1>1. Typed'
  BY DEF Typed, Labels, Files, Texts, Blank, SavingAt, Asks
<1>2. Errands_OK'
  BY <1>0 DEF Typed, Errands_OK, SavingAt, LoginAt, Delicate
<1>3. Startup_OK'
  BY DEF Typed, Startup_OK, Up
<1>4. Saving_OK'
  <2>1. SavesAlone(r)
    BY <1>0 DEF SavesAlone, Typed, Errands_OK, Saving, Unpacking
  <2>. QED
    BY <2>1, SavingKept
<1>5. Channel_OK'
  BY <1>0 DEF Typed, Channel_OK
<1>6. Change_OK'
  BY <1>0 DEF Typed, Change_OK, Changing, Saving, Delicate
<1>7. Password_OK'
  BY <1>0 DEF Typed, Errands_OK, Startup_OK, Password_OK, Changing, Saving, Up, Importing,
     Delicate
<1>8. Tokens_OK'
  BY <1>0 DEF Typed, Errands_OK, Tokens_OK, TokensCurrent, Changing, Saving, Delicate
<1>9. Half_OK'
  BY <1>0 DEF Typed, Half_OK
<1>10. Last_OK' /\ Quiet_OK'
  <2>1. CASE kind[r] \in {"on", "off"}
    BY <1>0, <2>1 DEF Last_OK, Quiet_OK, Delicate
  <2>2. CASE kind[r] \notin {"on", "off"}
    <3>1. SshAlone(r)
      BY <1>0, <2>2 DEF SshAlone, Typed, Errands_OK, SavingAt, Switches, InFlight,
         Importing
    <3>. QED
      BY <3>1, SwitchKept
  <2>. QED
    BY <2>1, <2>2
<1>. QED
  BY <1>1, <1>2, <1>3, <1>4, <1>5, <1>6, <1>7, <1>8, <1>9, <1>10

(* Looking whether there is anything to write changes no file.             *)
LEMMA LookStep ==
  ASSUME SInv, NEW t \in Tasks, Look(t)
  PROVE  SInv'
<1>. USE Names DEF SInv, Tasks, Startup, Look, Fault, End, Goto, disk, lockout,
   memory, ssh
<1>1. Typed'
  BY DEF Typed, Labels, Files, Texts, Sections, Blank, SavingAt
<1>2. Errands_OK'
  BY DEF Typed, Errands_OK, Saves, SavingAt, LoginAt
<1>3. Startup_OK'
  BY DEF Typed, Startup_OK, Up
<1>4. Saving_OK'
  <2>1. SavesAlone(t)
    BY DEF SavesAlone, Typed, Errands_OK, Saving, Unpacking
  <2>. QED
    BY <2>1, SavingKept
<1>5. Channel_OK'
  BY DEF Typed, Errands_OK, Channel_OK, Section
<1>6. Change_OK'
  BY DEF Typed, Errands_OK, Change_OK, Changing, Saving
<1>7. Password_OK'
  BY DEF Typed, Password_OK, Changing, Saving, Up, Importing
<1>8. Tokens_OK'
  BY DEF Typed, Errands_OK, Tokens_OK, TokensCurrent, Changing, Saving
<1>9. Half_OK'
  BY DEF Typed, Half_OK
<1>10. Last_OK'
  BY DEF Typed, Errands_OK, Last_OK, Switches, Fits, Importing, InFlight
<1>11. Quiet_OK'
  BY DEF Typed, Errands_OK, Quiet_OK, Switches, Fits, Importing, InFlight
<1>. QED
  BY <1>1, <1>2, <1>3, <1>4, <1>5, <1>6, <1>7, <1>8, <1>9, <1>10, <1>11

(* A save that begins alone has read what is in the file.                  *)
LEMMA ReadStep ==
  ASSUME SInv, NEW t \in Tasks, Read(t)
  PROVE  SInv'
<1>. USE Names DEF SInv, Tasks, Startup, Read, Fault, Saving, Unpacking, Goto, disk,
   lockout, memory, ssh
<1>1. Typed'
  BY DEF Typed, Labels, Files, Texts, Sections, SavingAt, Edited, Value,
     Section, Blank
<1>2. Errands_OK'
  BY DEF Errands_OK, SavingAt, LoginAt
<1>3. Startup_OK'
  BY DEF Startup_OK, Up
<1>4. Saving_OK'
  <2>1. ASSUME NEW o \in Tasks PROVE Edited(o, path)' = Edited(o, path)
    BY DEF Edited, Section, Value
  <2>. QED
    BY <2>1 DEF Saving_OK, Typed
<1>5. Channel_OK'
  BY DEF Channel_OK
<1>6. Change_OK'
  BY DEF Change_OK, Changing
<1>7. Password_OK'
  BY DEF Password_OK, Changing, Up, Importing
<1>8. Tokens_OK'
  BY DEF Tokens_OK, TokensCurrent, Changing
<1>9. Half_OK'
  BY DEF Half_OK
<1>10. Last_OK'
  BY DEF Last_OK, Switches, Fits, Importing, InFlight
<1>11. Quiet_OK'
  BY DEF Quiet_OK, Switches, Fits, Importing, InFlight
<1>. QED
  BY <1>1, <1>2, <1>3, <1>4, <1>5, <1>6, <1>7, <1>8, <1>9, <1>10, <1>11

(* A save that is alone has the temporary file to itself.                  *)
LEMMA TruncateStep ==
  ASSUME SInv, NEW t \in Tasks, Truncate(t)
  PROVE  SInv'
<1>. USE Names DEF SInv, Tasks, Startup, Truncate, Goto, lockout, memory, ssh
<1>1. Typed'
  BY DEF Typed, Labels, Files, Texts, Blank, SavingAt
<1>2. Errands_OK'
  BY DEF Errands_OK, SavingAt, LoginAt
<1>3. Startup_OK'
  BY DEF Startup_OK, Up
<1>4. Saving_OK'
  <2>1. ASSUME NEW o \in Tasks PROVE Edited(o, path)' = Edited(o, path)
    BY DEF Edited, Section, Value, disk
  <2>. QED
    BY <2>1 DEF Saving_OK, Saving, Unpacking, Typed
<1>5. Channel_OK'
  BY DEF Channel_OK
<1>6. Change_OK'
  BY DEF Change_OK, Changing, Saving
<1>7. Password_OK'
  BY DEF Password_OK, Changing, Saving, Up, Importing
<1>8. Tokens_OK'
  BY DEF Tokens_OK, TokensCurrent, Changing, Saving
<1>9. Half_OK'
  BY DEF Half_OK
<1>10. Last_OK'
  BY DEF Last_OK, Switches, Fits, Importing, InFlight
<1>11. Quiet_OK'
  BY DEF Quiet_OK, Switches, Fits, Importing, InFlight
<1>. QED
  BY <1>1, <1>2, <1>3, <1>4, <1>5, <1>6, <1>7, <1>8, <1>9, <1>10, <1>11

(* It fills the temporary file and no other.                               *)
LEMMA WriteStep ==
  ASSUME SInv, NEW t \in Tasks, Write(t)
  PROVE  SInv'
<1>. USE Names DEF SInv, Tasks, Startup, Write, Over, End, Goto, lockout,
   memory, ssh
<1>1. Typed'
  BY DEF Typed, Labels, Files, Texts, Blank, SavingAt, Asks
<1>2. Errands_OK'
  BY DEF Typed, Errands_OK, SavingAt, LoginAt
<1>3. Startup_OK'
  BY DEF Typed, Startup_OK, Up
<1>4. Saving_OK'
  <2>. SUFFICES ASSUME "lost" \notin trouble PROVE Saving_OK'
    BY DEF Saving_OK
  <2>1. fd[t] = "tmp" /\ tmp = Blank
    BY DEF Saving_OK
  <2>2. path' = path /\ tmp' = doc[t] /\ UNCHANGED <<legacy, trouble>>
    BY <2>1
  <2>3. ASSUME NEW o \in Tasks, kind'[o] = kind[o] PROVE Edited(o, path)' = Edited(o, path)
    BY <2>2, <2>3 DEF Edited, Section, Value
  <2>4. ASSUME NEW o \in Tasks, o # t
        PROVE  ~Saving(o) /\ pc'[o] = pc[o] /\ UNCHANGED <<kind[o], doc[o], fd[o]>>
    BY <2>4 DEF Saving_OK, Saving, Typed
  <2>5. /\ fd'[t] = "none"
        /\ \/ pc'[t] = "rename" /\ UNCHANGED <<kind[t], doc[t]>>
           \/ pc'[t] = "done" \/ pc'[t] = "load"
    BY DEF Typed
  <2>6. Unpacking' => Unpacking
    BY DEF Unpacking, Typed
  <2>. QED
    BY <2>2, <2>3, <2>4, <2>5, <2>6 DEF Saving_OK, Saving
<1>5. Channel_OK'
  BY DEF Typed, Saving_OK, Channel_OK
<1>6. Change_OK'
  BY DEF Typed, Change_OK, Changing, Saving
<1>7. Password_OK'
  <2>1. CASE pc[t] = "lastwrite"
    <3>. SUFFICES ASSUME trouble \cap {"lost", "changes", "password", "unset"} = {}
                  PROVE  Password_OK'
      BY DEF Password_OK
    <3>1. t \in Requests /\ kind[t] \notin {"password", "unset"} /\ path' = path
      BY <2>1 DEF Errands_OK, SavingAt, Delicate, Saving_OK
    <3>2. pc' = [pc EXCEPT ![t] = "done"] /\ kind' = [kind EXCEPT ![t] = None]
      BY <2>1, <3>1
    <3>. QED
      BY <2>1, <3>1, <3>2 DEF Typed, Password_OK, Changing, Saving, Up, Importing
  <2>2. CASE pc[t] = "write"
    <3>1. pc' = [pc EXCEPT ![t] = "rename"] /\ kind' = kind
      BY <2>2
    <3>. QED
      BY <2>2, <3>1 DEF Password_OK, Changing, Saving, Up, Importing, Saving_OK
  <2>. QED
    BY <2>1, <2>2
<1>8. Tokens_OK'
  <2>1. CASE pc[t] = "lastwrite"
    <3>. SUFFICES ASSUME trouble \cap {"logins", "changes", "password", "unset"} = {}
                  PROVE  Tokens_OK'
      BY DEF Tokens_OK
    <3>1. t \in Requests /\ kind[t] \notin {"password", "unset"}
      BY <2>1 DEF Errands_OK, SavingAt, Delicate
    <3>2. pc' = [pc EXCEPT ![t] = "done"] /\ kind' = [kind EXCEPT ![t] = None]
      BY <2>1, <3>1
    <3>. QED
      BY <2>1, <3>1, <3>2 DEF Typed, Tokens_OK, TokensCurrent, Changing, Saving
  <2>2. CASE pc[t] = "write"
    BY <2>2 DEF Typed, Tokens_OK, TokensCurrent, Changing, Saving
  <2>. QED
    BY <2>1, <2>2
<1>9. Half_OK'
  BY DEF Typed, Half_OK
<1>10. Last_OK' /\ Quiet_OK'
  <2>. SUFFICES ASSUME trouble \cap {"lost", "on", "off"} = {}
                PROVE  Last_OK' /\ Quiet_OK'
    BY DEF Last_OK, Quiet_OK
  <2>1. path' = path
    BY DEF Saving_OK
  <2>2. CASE pc[t] = "lastwrite"
    <3>1. t \in Requests /\ kind[t] \notin {"on", "off"}
      BY <2>2 DEF Errands_OK, SavingAt, Delicate
    <3>2. pc' = [pc EXCEPT ![t] = "done"] /\ kind' = [kind EXCEPT ![t] = None]
      BY <2>2, <3>1
    <3>3. SshAlone(t)
      BY <2>1, <2>2, <3>1, <3>2 DEF SshAlone, Typed, Switches, InFlight, Importing
    <3>. QED
      BY <3>3, SwitchKept
  <2>3. CASE pc[t] = "write"
    <3>1. pc' = [pc EXCEPT ![t] = "rename"] /\ kind' = kind
      BY <2>3
    <3>2. \A o \in Tasks : Switches(o)' <=> Switches(o)
      BY <2>3, <3>1 DEF Switches, InFlight, Typed
    <3>3. Last_OK'
      BY <2>1, <2>3, <3>1, <3>2 DEF Last_OK, Fits, Importing, Typed
    <3>4. Quiet_OK'
      BY <2>1, <2>3, <3>1, <3>2 DEF Quiet_OK, InFlight, Importing, Typed, Errands_OK
    <3>. QED
      BY <3>3, <3>4
  <2>. QED
    BY <2>2, <2>3
<1>. QED
  BY <1>1, <1>2, <1>3, <1>4, <1>5, <1>6, <1>7, <1>8, <1>9, <1>10

(* It puts its text, one section changed, in place of the file.            *)
LEMMA RenameStep ==
  ASSUME SInv, NEW t \in Tasks, Rename(t)
  PROVE  SInv'
<1>. USE Names DEF SInv, Tasks, Startup, Rename, Replaced, After, End, Goto,
   lockout, memory, ssh
<1>1. Typed'
  BY DEF Typed, Labels, Files, Texts, Sections, Blank
<1>2. Errands_OK'
  BY DEF Typed, Errands_OK, SavingAt, LoginAt
<1>3. Startup_OK'
  BY DEF Typed, Startup_OK, Up
<1>4. Saving_OK'
  BY DEF Typed, Saving_OK, Saving, Unpacking
<1>5. Channel_OK'
  <2>. SUFFICES ASSUME pc'[Boot] = "retire", "lost" \notin trouble
                PROVE  path'.auto # None
    BY DEF Channel_OK
  <2>1. /\ \A s \in Sections : path'[s] = IF s = Section(t) THEN Value(t) ELSE path[s]
        /\ pc[t] = "rename" /\ kind[t] \in Saves \cup {"migrate"}
    BY RenameWrites DEF Errands_OK, SavingAt, Saves
  <2>2. \A o \in Tasks : o # t => pc'[o] = pc[o] /\ kind'[o] = kind[o]
    BY DEF Typed
  <2>3. CASE t = Boot
    BY <2>1, <2>3 DEF Section, Value, Typed, Errands_OK, Sections
  <2>4. CASE t # Boot
    <3>1. pc[Boot] = "retire" /\ t = Ap
      BY <2>1, <2>2, <2>4 DEF Startup_OK, Up, Errands_OK
    <3>. QED
      BY <2>1, <3>1 DEF Channel_OK, Section, Errands_OK, Sections
  <2>. QED
    BY <2>3, <2>4
<1>6. Change_OK'
  BY DEF Typed, Change_OK, Changing, Saving
<1>7. Password_OK'
  <2>. SUFFICES ASSUME trouble \cap {"lost", "changes", "password", "unset"} = {},
                      Up', ~Importing',
                      \A o \in Tasks : Changing(o)' =>
                        pc'[o] \in {"console", "revoke"}
               PROVE  hash = path'.auth
    BY DEF Password_OK
  <2>1. /\ \A s \in Sections : path'[s] = IF s = Section(t) THEN Value(t) ELSE path[s]
        /\ pc[t] = "rename" /\ kind[t] \in Saves \cup {"migrate"}
    BY RenameWrites DEF Errands_OK, SavingAt, Saves
  <2>2. \A o \in Tasks : o # t => pc'[o] = pc[o] /\ kind'[o] = kind[o]
    BY DEF Typed
  <2>3. CASE kind[t] \in {"password", "unset"}
    <3>1. hash = IF kind[t] = "unset" THEN None ELSE t
      BY <2>1, <2>3 DEF Change_OK, Changing, Saving
    <3>. QED
      BY <2>1, <2>3, <3>1 DEF Section, Value, Sections
  <2>4. CASE kind[t] \notin {"password", "unset"}
    <3>1. path'.auth = path.auth
      BY <2>1, <2>4 DEF Section, Sections, Saves
    <3>2. Up /\ ~Importing
      BY <2>1, <2>2 DEF Up, Importing, Typed, Errands_OK
    <3>3. \A o \in Tasks : Changing(o) => pc[o] \in {"console", "revoke"}
      BY <2>1, <2>2, <2>4 DEF Changing, Saving
    <3>. QED
      BY <3>1, <3>2, <3>3 DEF Password_OK
  <2>. QED
    BY <2>3, <2>4
<1>8. Tokens_OK'
  BY DEF Typed, Errands_OK, Tokens_OK, TokensCurrent, Changing, Saving
<1>9. Half_OK'
  BY DEF Typed, Half_OK
<1>10. Last_OK'
  <2>. SUFFICES ASSUME trouble \cap {"lost", "switches", "on", "off"} = {}, ~Importing'
               PROVE  Last_OK'
    BY DEF Last_OK
  <2>1. /\ \A s \in Sections : path'[s] = IF s = Section(t) THEN Value(t) ELSE path[s]
        /\ pc[t] = "rename" /\ kind[t] \in Saves \cup {"migrate"}
    BY RenameWrites DEF Errands_OK, SavingAt, Saves
  <2>2. \A o \in Tasks : o # t => pc'[o] = pc[o] /\ kind'[o] = kind[o]
    BY DEF Typed
  <2>3. ~Importing
    BY <2>1, <2>2 DEF Importing
  <2>4. CASE kind[t] \in {"on", "off"}
    <3>1. path'.ssh = kind[t]
      BY <2>1, <2>4 DEF Section, Value, Sections
    <3>2. pc'[t] = "unit" /\ kind'[t] = kind[t]
      BY <2>4 DEF Typed, Errands_OK
    <3>3. Switches(t)'
      BY <2>4, <3>2 DEF Switches, InFlight
    <3>. QED
      BY <2>2, <3>1, <3>2, <3>3 DEF Last_OK, Fits
  <2>5. CASE kind[t] \notin {"on", "off"}
    <3>1. path'.ssh = path.ssh
      BY <2>1, <2>5 DEF Section, Sections, Saves
    <3>2. pc'[t] \notin {"unit", "unit2"} /\ kind'[t] \in {kind[t], None}
      BY <2>5 DEF Typed
    <3>3. ~Switches(t)
      BY <2>5 DEF Switches
    <3>4. ~Switches(t)'
      BY <2>5 DEF Switches, InFlight, Typed, Errands_OK
    <3>5. \A o \in Tasks : o # t => (Switches(o)' <=> Switches(o))
      BY <2>2 DEF Switches, InFlight
    <3>. QED
      BY <2>1, <2>2, <2>3, <3>1, <3>2, <3>3, <3>4, <3>5 DEF Last_OK, Fits
  <2>. QED
    BY <2>4, <2>5
<1>11. Quiet_OK'
  <2>. SUFFICES ASSUME trouble \cap {"lost", "switches", "on", "off"} = {}, ~Importing'
               PROVE  Quiet_OK'
    BY DEF Quiet_OK
  <2>1. /\ \A s \in Sections : path'[s] = IF s = Section(t) THEN Value(t) ELSE path[s]
        /\ pc[t] = "rename" /\ kind[t] \in Saves \cup {"migrate"}
    BY RenameWrites DEF Errands_OK, SavingAt, Saves
  <2>2. \A o \in Tasks : o # t => pc'[o] = pc[o] /\ kind'[o] = kind[o]
    BY DEF Typed
  <2>3. ~Importing
    BY <2>1, <2>2 DEF Importing
  <2>4. CASE kind[t] \in {"on", "off"}
    <3>1. path'.ssh = kind[t]
      BY <2>1, <2>4 DEF Section, Value, Sections
    <3>2. pc'[t] = "unit" /\ kind'[t] = kind[t]
      BY <2>4 DEF Typed, Errands_OK
    <3>3. Switches(t)'
      BY <2>4, <3>2 DEF Switches, InFlight
    <3>. QED
      BY <2>2, <3>1, <3>2, <3>3 DEF Quiet_OK
  <2>5. CASE kind[t] \notin {"on", "off"}
    <3>1. path'.ssh = path.ssh
      BY <2>1, <2>5 DEF Section, Sections, Saves
    <3>2. pc'[t] \notin {"unit", "unit2"} /\ kind'[t] \in {kind[t], None}
      BY <2>5 DEF Typed
    <3>3. ~Switches(t)
      BY <2>5 DEF Switches
    <3>4. ~Switches(t)'
      BY <2>5 DEF Switches, InFlight, Typed, Errands_OK
    <3>5. \A o \in Tasks : o # t => (Switches(o)' <=> Switches(o))
      BY <2>2 DEF Switches, InFlight
    <3>. QED
      BY <2>1, <2>2, <2>3, <3>1, <3>2, <3>3, <3>4, <3>5 DEF Quiet_OK, InFlight,
         Errands_OK
  <2>. QED
    BY <2>4, <2>5
<1>. QED
  BY <1>1, <1>2, <1>3, <1>4, <1>5, <1>6, <1>7, <1>8, <1>9, <1>10, <1>11

(* A rename that fails leaves the file as it is, and is observed where     *)
(* something else has gone ahead of it.                                    *)
LEMMA RenameFailsStep ==
  ASSUME SInv, NEW t \in Tasks, RenameFails(t)
  PROVE  SInv'
<1>. USE Names DEF SInv, Tasks, Startup, RenameFails, End, Goto, disk,
   lockout, memory, ssh
<1>0. trouble \subseteq trouble' /\ (kind[t] \in Delicate => kind[t] \in trouble')
  BY DEF Cut
<1>1. Typed'
  BY DEF Typed, Labels, Files, Texts, Blank
<1>2. Errands_OK'
  BY <1>0 DEF Typed, Errands_OK, SavingAt, LoginAt, Delicate
<1>3. Startup_OK'
  BY DEF Typed, Startup_OK, Up
<1>4. Saving_OK'
  BY <1>0 DEF Typed, Saving_OK, Saving, Unpacking
<1>5. Channel_OK'
  BY <1>0 DEF Channel_OK
<1>6. Change_OK'
  BY <1>0 DEF Typed, Change_OK, Changing, Saving, Delicate
<1>7. Password_OK'
  BY <1>0 DEF Typed, Errands_OK, Startup_OK, Password_OK, Changing, Saving, Up, Importing, Delicate
<1>8. Tokens_OK'
  BY <1>0 DEF Typed, Errands_OK, Tokens_OK, TokensCurrent, Changing, Saving, Delicate
<1>9. Half_OK'
  BY <1>0 DEF Typed, Half_OK
<1>10. Last_OK' /\ Quiet_OK'
  <2>1. CASE kind[t] \in {"on", "off"}
    BY <1>0, <2>1 DEF Last_OK, Quiet_OK, Delicate
  <2>2. CASE kind[t] \notin {"on", "off"}
    <3>1. SshAlone(t)
      BY <1>0, <2>2 DEF SshAlone, Typed, Errands_OK, SavingAt, Switches, InFlight,
         Importing
    <3>. QED
      BY <3>1, SwitchKept
  <2>. QED
    BY <2>1, <2>2
<1>. QED
  BY <1>1, <1>2, <1>3, <1>4, <1>5, <1>6, <1>7, <1>8, <1>9, <1>10

(* So is a write that fails.                                               *)
LEMMA WriteFailsStep ==
  ASSUME SInv, NEW t \in Tasks, WriteFails(t)
  PROVE  SInv'
<1>. USE Names DEF SInv, Tasks, Startup, WriteFails, End, Fault, Goto,
   disk, lockout, memory, ssh
<1>0. trouble \subseteq trouble' /\ (kind[t] \in Delicate => kind[t] \in trouble')
  BY DEF Cut
<1>1. Typed'
  BY DEF Typed, Labels, Files, Texts, Blank
<1>2. Errands_OK'
  BY <1>0 DEF Typed, Errands_OK, SavingAt, LoginAt, Delicate
<1>3. Startup_OK'
  BY DEF Typed, Startup_OK, Up
<1>4. Saving_OK'
  BY <1>0 DEF Typed, Saving_OK, Saving, Unpacking
<1>5. Channel_OK'
  BY <1>0 DEF Channel_OK
<1>6. Change_OK'
  BY <1>0 DEF Typed, Change_OK, Changing, Saving, Delicate
<1>7. Password_OK'
  BY <1>0 DEF Typed, Errands_OK, Startup_OK, Password_OK, Changing, Saving, Up, Importing, Delicate
<1>8. Tokens_OK'
  BY <1>0 DEF Typed, Errands_OK, Tokens_OK, TokensCurrent, Changing, Saving, Delicate
<1>9. Half_OK'
  BY <1>0 DEF Typed, Half_OK
<1>10. Last_OK' /\ Quiet_OK'
  <2>1. CASE kind[t] \in {"on", "off"}
    BY <1>0, <2>1 DEF Last_OK, Quiet_OK, Delicate
  <2>2. CASE kind[t] \notin {"on", "off"}
    <3>1. SshAlone(t)
      BY <1>0, <2>2 DEF SshAlone, Typed, Errands_OK, SavingAt, Switches, InFlight,
         Importing
    <3>. QED
      BY <3>1, SwitchKept
  <2>. QED
    BY <2>1, <2>2
<1>. QED
  BY <1>1, <1>2, <1>3, <1>4, <1>5, <1>6, <1>7, <1>8, <1>9, <1>10

(* The first half of a switch of the SSH server.                           *)
LEMMA SwitchFirstStep ==
  ASSUME SInv, NEW t \in Tasks, SwitchFirst(t)
  PROVE  SInv'
<1>. USE Names DEF SInv, Tasks, Startup, SwitchFirst, InFlight, Goto, disk,
   lockout, memory
<1>1. Typed'
  <2>1. flag' \in BOOLEAN /\ sshd' \in BOOLEAN
    BY Zenon DEF Typed
  <2>. QED
    BY <2>1 DEF Typed, Labels
<1>2. Errands_OK'
  BY DEF Errands_OK, SavingAt, LoginAt
<1>3. Startup_OK'
  BY DEF Startup_OK, Up
<1>4. Saving_OK'
  <2>1. SavesAlone(t)
    BY DEF SavesAlone, Typed, Errands_OK, Saving, Unpacking
  <2>. QED
    BY <2>1, SavingKept
<1>5. Channel_OK'
  BY DEF Channel_OK
<1>6. Change_OK'
  BY DEF Change_OK, Changing, Saving
<1>7. Password_OK'
  BY DEF Password_OK, Changing, Saving, Up, Importing
<1>8. Tokens_OK'
  BY DEF Tokens_OK, TokensCurrent, Changing, Saving
<1>9. Half_OK'
  BY DEF Errands_OK, Half_OK, SavingAt
<1>10. Last_OK'
  <2>. SUFFICES ASSUME ~Importing', trouble' \cap {"lost", "switches", "on", "off"} = {}
                PROVE  Last_OK'
    BY DEF Last_OK
  <2>1. kind[t] \in {"on", "off"} /\ \A o \in Tasks \ {t} : ~Switches(o)
    BY DEF Errands_OK, SavingAt, Switches
  <2>2. \A o \in Tasks \ {t} : pc'[o] \notin {"unit", "unit2"}
    BY <2>1 DEF Errands_OK, SavingAt, Switches
  <2>3. ~Importing
    BY DEF Importing, Typed
  <2>4. Fits(t)
    BY <2>1, <2>3 DEF Last_OK
  <2>. QED
    BY <2>2, <2>4 DEF Last_OK, Fits, Typed
<1>11. Quiet_OK'
  BY DEF Errands_OK, Quiet_OK, Switches, Fits, SavingAt
<1>. QED
  BY <1>1, <1>2, <1>3, <1>4, <1>5, <1>6, <1>7, <1>8, <1>9, <1>10, <1>11

(* A switch that fails is observed, and leaves the file as it is.          *)
LEMMA SwitchFailsStep ==
  ASSUME SInv, NEW t \in Tasks, SwitchFails(t)
  PROVE  SInv'
<1>. USE Names DEF SInv, Tasks, Startup, SwitchFails, End, Fault, Goto,
   disk, lockout, memory, ssh
<1>0. trouble \subseteq trouble' /\ (kind[t] \in Delicate => kind[t] \in trouble')
  BY DEF Cut
<1>1. Typed'
  BY DEF Typed, Labels, Files, Texts, Blank
<1>2. Errands_OK'
  BY <1>0 DEF Typed, Errands_OK, SavingAt, LoginAt
<1>3. Startup_OK'
  BY DEF Typed, Errands_OK, Startup_OK, Up
<1>4. Saving_OK'
  <2>1. SavesAlone(t)
    BY <1>0 DEF SavesAlone, Typed, Errands_OK, Saving, Unpacking
  <2>. QED
    BY <2>1, SavingKept
<1>5. Channel_OK'
  BY <1>0 DEF Typed, Errands_OK, Channel_OK
<1>6. Change_OK'
  BY <1>0 DEF Typed, Change_OK, Changing, Saving
<1>7. Password_OK'
  BY <1>0 DEF Typed, Errands_OK, Password_OK, Changing, Saving, Up, Importing
<1>8. Tokens_OK'
  BY <1>0 DEF Typed, Tokens_OK, TokensCurrent, Changing, Saving
<1>9. {"on", "off"} \cap trouble' # {}
  BY <1>0 DEF Errands_OK, SavingAt, Delicate
<1>. QED
  BY <1>1, <1>2, <1>3, <1>4, <1>5, <1>6, <1>7, <1>8, <1>9 DEF Half_OK,
     Last_OK, Quiet_OK

(* The second half leaves what the file says, if nobody else is at it.     *)
LEMMA SwitchSecondStep ==
  ASSUME SInv, NEW t \in Tasks, SwitchSecond(t)
  PROVE  SInv'
<1>. USE Names DEF SInv, Tasks, Startup, SwitchSecond, End, Goto, disk,
   lockout, memory
<1>1. Typed'
  <2>1. flag' \in BOOLEAN /\ sshd' \in BOOLEAN
    BY Zenon DEF Typed
  <2>. QED
    BY <2>1 DEF Typed, Labels, Files, Texts, Blank
<1>2. Errands_OK'
  BY DEF Typed, Errands_OK, SavingAt, LoginAt
<1>3. Startup_OK'
  BY DEF Startup_OK, Up
<1>4. Saving_OK'
  <2>1. SavesAlone(t)
    BY DEF SavesAlone, Typed, Errands_OK, Saving, Unpacking
  <2>. QED
    BY <2>1, SavingKept
<1>5. Channel_OK'
  BY DEF Channel_OK
<1>6. Change_OK'
  BY DEF Change_OK, Changing, Saving
<1>7. Password_OK'
  BY DEF Password_OK, Changing, Saving, Up, Importing
<1>8. Tokens_OK'
  BY DEF Tokens_OK, TokensCurrent, Changing, Saving
<1>9. Half_OK'
  BY DEF Typed, Half_OK
<1>10. Last_OK'
  BY DEF Typed, Half_OK, Last_OK, Switches, Fits, Importing, InFlight
<1>11. Quiet_OK'
  <2>. SUFFICES ASSUME ~Importing', trouble \cap {"lost", "switches", "on", "off"} = {},
                      \A o \in Tasks : ~Switches(o)'
               PROVE  sshd' = (path.ssh = "on") /\ flag' = sshd'
    BY DEF Quiet_OK
  <2>1. /\ pc[t] = "unit2" /\ kind[t] \in {"on", "off"}
        /\ \A o \in Tasks : o # t => pc'[o] = pc[o] /\ kind'[o] = kind[o]
    BY DEF Typed, Errands_OK, SavingAt
  <2>2. ~Importing
    BY <2>1 DEF Importing
  <2>3. \A o \in Tasks \ {t} : ~Switches(o)
    BY <2>1 DEF Switches, InFlight
  <2>4. (kind[t] = "on" <=> path.ssh = "on") /\ IF kind[t] = "on" THEN flag ELSE ~sshd
    BY <2>1, <2>2, <2>3 DEF Last_OK, Fits, Half_OK
  <2>5. CASE kind[t] = "on"
    BY <2>4, <2>5, Zenon DEF Typed
  <2>6. CASE kind[t] # "on"
    BY <2>4, <2>6, Zenon DEF Typed
  <2>. QED
    BY <2>5, <2>6
<1>. QED
  BY <1>1, <1>2, <1>3, <1>4, <1>5, <1>6, <1>7, <1>8, <1>9, <1>10, <1>11

(* The legacy channel goes after ctrl.toml has one.                        *)
LEMMA RetireStep ==
  ASSUME SInv, Retire
  PROVE  SInv'
<1>. USE Names DEF SInv, Tasks, Startup, Retire, Goto, lockout, memory, ssh
<1>1. Typed'
  BY DEF Typed, Labels
<1>2. Errands_OK'
  BY DEF Errands_OK
<1>3. Startup_OK'
  BY DEF Startup_OK, Up
<1>4. Saving_OK'
  <2>1. ASSUME NEW o \in Tasks, Saving(o)
        PROVE  o # Boot /\ Edited(o, path)' = Edited(o, path)
    <3>1. o # Boot /\ kind[o] # "migrate"
      BY <2>1 DEF Saving, Errands_OK, SavingAt, Saves
    <3>. QED
      BY <3>1 DEF Edited, Section, Value
  <2>. QED
    BY <2>1 DEF Saving_OK, Saving, Unpacking
<1>5. Channel_OK'
  BY DEF Channel_OK
<1>6. Change_OK'
  BY DEF Change_OK, Changing, Saving
<1>7. Password_OK'
  BY DEF Password_OK, Up
<1>8. Tokens_OK'
  BY DEF Tokens_OK, TokensCurrent, Changing, Saving
<1>9. Half_OK'
  BY DEF Half_OK
<1>10. Last_OK'
  BY DEF Last_OK, Switches, Fits, Importing, InFlight
<1>11. Quiet_OK'
  BY DEF Quiet_OK, Switches, Fits, Importing, InFlight
<1>. QED
  BY <1>1, <1>2, <1>3, <1>4, <1>5, <1>6, <1>7, <1>8, <1>9, <1>10, <1>11

(* The hash in memory becomes the one in the file.                         *)
LEMMA LoadAuthStep ==
  ASSUME SInv, LoadAuth
  PROVE  SInv'
<1>. USE Names DEF SInv, Tasks, Startup, LoadAuth, Fault, Goto, disk, lockout, ssh
<1>1. Typed'
  BY DEF Typed, Labels, Files, Sections, Texts
<1>2. Errands_OK'
  BY DEF Errands_OK
<1>3. Startup_OK'
  BY DEF Startup_OK, Up
<1>4. Saving_OK'
  <2>1. SavesAlone(Boot)
    BY DEF SavesAlone, Typed, Errands_OK, Saving, Unpacking
  <2>. QED
    BY <2>1, SavingKept
<1>5. Channel_OK'
  BY DEF Channel_OK
<1>6. Change_OK'
  BY DEF Errands_OK, Startup_OK, Change_OK, Changing, Saving, Up
<1>7. Password_OK'
  BY DEF Password_OK
<1>8. Tokens_OK'
  BY DEF Startup_OK, Tokens_OK, TokensCurrent, Up
<1>9. Half_OK'
  BY DEF Half_OK
<1>10. Last_OK'
  BY DEF Errands_OK, Last_OK, Switches, Fits, Importing, InFlight
<1>11. Quiet_OK'
  BY DEF Errands_OK, Quiet_OK, Switches, Fits, Importing, InFlight
<1>. QED
  BY <1>1, <1>2, <1>3, <1>4, <1>5, <1>6, <1>7, <1>8, <1>9, <1>10, <1>11

(* The switch of the startup wants what the file says.                     *)
LEMMA UnitsReadStep ==
  ASSUME SInv, UnitsRead
  PROVE  SInv'
<1>. USE Names DEF SInv, Tasks, Startup, UnitsRead, Fault, Goto, disk, lockout,
   memory, ssh
<1>0. /\ trouble \subseteq trouble'
      /\ \E k \in {"on", "off"} :
           /\ kind' = [kind EXCEPT ![Units] = k]
           /\ "lost" \notin trouble' => (k = "on" <=> path.ssh = "on")
  OBVIOUS
<1>1. Typed'
  BY <1>0 DEF Typed, Labels, Asks
<1>2. Errands_OK'
  BY <1>0 DEF Typed, Errands_OK
<1>3. Startup_OK'
  BY <1>0 DEF Startup_OK, Up
<1>4. Saving_OK'
  <2>1. SavesAlone(Units)
    BY <1>0 DEF SavesAlone, Typed, Errands_OK, Saving, Unpacking
  <2>. QED
    BY <2>1, SavingKept
<1>5. Channel_OK'
  BY <1>0 DEF Channel_OK
<1>6. Change_OK'
  BY <1>0 DEF Change_OK, Changing, Saving
<1>7. Password_OK'
  BY <1>0 DEF Password_OK, Changing, Saving, Up, Importing
<1>8. Tokens_OK'
  BY <1>0 DEF Tokens_OK, TokensCurrent, Changing, Saving
<1>9. Half_OK'
  BY <1>0 DEF Half_OK
<1>10. Last_OK'
  BY <1>0 DEF Typed, Last_OK, Switches, Fits, InFlight
<1>11. Quiet_OK'
  BY <1>0 DEF Quiet_OK, Fits, InFlight
<1>. QED
  BY <1>1, <1>2, <1>3, <1>4, <1>5, <1>6, <1>7, <1>8, <1>9, <1>10, <1>11

(* Waiting out the delay touches neither files nor tokens.                 *)
LEMMA LockEndsStep ==
  ASSUME SInv, LockEnds
  PROVE  SInv'
<1>. USE Names DEF SInv, Tasks, Startup, LockEnds, disk, tasks, ssh
<1>1. Typed'
  BY DEF Typed
<1>2. Errands_OK'
  BY DEF Errands_OK
<1>3. Startup_OK'
  BY DEF Startup_OK, Up
<1>4. Saving_OK'
  <2>1. SavesAlone(Boot)
    BY DEF SavesAlone, Typed, Errands_OK, Saving, Unpacking
  <2>. QED
    BY <2>1, SavingKept
<1>5. Channel_OK'
  BY DEF Channel_OK
<1>6. Change_OK'
  BY DEF Change_OK, Changing, Saving
<1>7. Password_OK'
  BY DEF Password_OK, Changing, Saving, Up, Importing
<1>8. Tokens_OK'
  BY DEF Tokens_OK, TokensCurrent, Changing, Saving
<1>9. Half_OK'
  BY DEF Half_OK
<1>10. Last_OK'
  BY DEF Last_OK, Switches, Fits, Importing, InFlight
<1>11. Quiet_OK'
  BY DEF Quiet_OK, Switches, Fits, Importing, InFlight
<1>. QED
  BY <1>1, <1>2, <1>3, <1>4, <1>5, <1>6, <1>7, <1>8, <1>9, <1>10, <1>11

(* As a reboot, at any moment.                                             *)
LEMMA RestartStep ==
  ASSUME SInv, Restart
  PROVE  SInv'
<1>. USE Names DEF SInv, Tasks, Startup, Restart, Startover, Begun, Errand,
   InFlight, Fault, Blank, disk
<1>1. Typed'
  <2>1. flag' \in BOOLEAN /\ sshd' \in BOOLEAN
    BY Zenon DEF Typed
  <2>. QED
    BY <2>1 DEF Typed, Errands_OK, Labels, Files, Texts
<1>2. Errands_OK'
  BY DEF Errands_OK, SavingAt, LoginAt
<1>3. Startup_OK'
  BY DEF Startup_OK
<1>4. Saving_OK'
  BY DEF Saving_OK, Saving, Unpacking
<1>5. Channel_OK'
  BY DEF Channel_OK
<1>6. Change_OK'
  BY DEF Change_OK, Changing, Saving
<1>7. Password_OK'
  BY DEF Password_OK, Up
<1>8. Tokens_OK'
  BY DEF Tokens_OK, TokensCurrent
<1>9. Half_OK'
  BY DEF Half_OK
<1>10. Last_OK'
  BY DEF Last_OK, Fits
<1>11. Quiet_OK'
  BY DEF Errands_OK, Quiet_OK, Fits
<1>. QED
  BY <1>1, <1>2, <1>3, <1>4, <1>5, <1>6, <1>7, <1>8, <1>9, <1>10, <1>11
-----------------------------------------------------------------------------
(* Every step keeps the invariant.                                         *)
LEMMA InvStep == SInv /\ [Next]_vars => SInv'
<1>. SUFFICES ASSUME SInv, [Next]_vars PROVE SInv'
  OBVIOUS
<1>1. CASE \E r \in Requests : 
       \/ Submit(r) \/ Check(r) \/ Verify(r) \/ Grant(r) 
       \/ Count(r) \/ Arm(r) \/ Logout(r) \/ Confirm(r) 
       \/ SetPassword(r) \/ RemovePassword(r) \/ Forget(r) 
       \/ Console(r) \/ RevokeAll(r) \/ Unpack(r) \/ Unpacked(r) 
       \/ Reboot(r) \/ Drop(r)
  BY <1>1, SubmitStep, CheckStep, VerifyStep, GrantStep, CountStep,
     ArmStep, LogoutStep, ConfirmStep, SetPasswordStep,
     RemovePasswordStep, ForgetStep, ConsoleStep, RevokeAllStep,
     UnpackStep, UnpackedStep, RebootStep, DropStep
<1>2. CASE \E t \in Tasks : 
       \/ Look(t) \/ Read(t) \/ Truncate(t) \/ Write(t) 
       \/ Rename(t) \/ RenameFails(t) \/ WriteFails(t) 
       \/ SwitchFirst(t) \/ SwitchSecond(t) \/ SwitchFails(t)
  BY <1>2, LookStep, ReadStep, TruncateStep, WriteStep, RenameStep,
     RenameFailsStep, WriteFailsStep, SwitchFirstStep,
     SwitchSecondStep, SwitchFailsStep
<1>3. CASE Retire \/ LoadAuth \/ UnitsRead \/ LockEnds \/ Restart
  BY <1>3, RetireStep, LoadAuthStep, UnitsReadStep, LockEndsStep, RestartStep
<1>4. CASE UNCHANGED vars
  <2>1. UNCHANGED <<path, tmp, legacy, pc, kind, doc, fd, hash, tokens, guess,
                    flag, sshd, trouble>>
    BY <1>4 DEF vars, disk, tasks, memory, ssh
  <2>2. Saving_OK'
    BY <2>1 DEF SInv, Saving_OK, Saving, Unpacking, Edited, Section, Value
  <2>3. (Typed /\ Errands_OK /\ Startup_OK /\ Channel_OK)'
    BY <2>1 DEF SInv, Typed, Errands_OK, Startup_OK, Up, Channel_OK
  <2>4. (Change_OK /\ Password_OK /\ Tokens_OK)'
    BY <2>1 DEF SInv, Change_OK, Password_OK, Tokens_OK, TokensCurrent, Up,
       Importing,
       Changing, Saving
  <2>5. (Half_OK /\ Last_OK /\ Quiet_OK)'
    BY <2>1 DEF SInv, Half_OK, Last_OK, Quiet_OK, Fits, Switches, InFlight,
       Importing
  <2>. QED
    BY <2>2, <2>3, <2>4, <2>5 DEF SInv
<1>. QED
  BY <1>1, <1>2, <1>3, <1>4 DEF Next

(* The strengthening holds in every reachable state.                       *)
THEOREM SettingsInvariant == Spec => []SInv
BY InvInit, InvStep, PTL DEF Spec

-----------------------------------------------------------------------------
(* The password asked for is the one on disk, for any number of requests   *)
(* of any kind.  As PasswordOnDisk says, not from a change that failed,    *)
(* was dropped or overlapped another one, nor from a section lost to       *)
(* overlapping saves or a failed read, until the controller starts again.  *)
THEOREM PasswordPersists == Spec => []PasswordOnDisk
<1>1. SInv => PasswordOnDisk
  BY DEF SInv, Password_OK, PasswordOnDisk
<1>. QED
  BY <1>1, SettingsInvariant, PTL

(* A change of the password ends the sessions begun with another one.  As  *)
(* TokensCurrent says, not after one that failed, was dropped, overlapped  *)
(* another one or was crossed by a login, until the controller starts      *)
(* again.                                                                  *)
THEOREM SessionsEnd == Spec => []TokensCurrent
<1>1. SInv => TokensCurrent
  BY DEF SInv, Tokens_OK, TokensCurrent
<1>. QED
  BY <1>1, SettingsInvariant, PTL

(* sshd runs exactly when ctrl.toml says so, once nobody is at it.  As     *)
(* SshAsSaved says, not after a toggle that failed, was dropped or         *)
(* overlapped another one, nor after a section lost to overlapping saves   *)
(* or a failed read, until the controller starts again.                    *)
THEOREM SshFollows == Spec => []SshAsSaved
<1>1. SInv => SshAsSaved
  <2>. SUFFICES ASSUME SInv, ~Importing, ~InFlight(Units),
                       ~\E t \in Tasks : kind[t] \in {"on", "off"} /\ InFlight(t),
                       trouble \cap {"lost", "switches", "on", "off"} = {}
                PROVE  sshd = (path.ssh = "on") /\ flag = sshd
    BY DEF SshAsSaved
  <2>. QED
    BY DEF SInv, Quiet_OK, Switches
<1>. QED
  BY <1>1, SettingsInvariant, PTL

(* As long as no two saves have overlapped and no read has failed since    *)
(* the controller started, a save leaves the other sections alone, however *)
(* many were dropped or failed before it.                                  *)
THEOREM SavesApart == Spec => OneSection
<1>1. SInv /\ [Next]_vars =>
        [(path' # path /\ "lost" \notin trouble' /\ ~Importing /\ ~Importing')
           => \E s \in Sections : \A o \in Sections \ {s} : path'[o] = path[o]]_vars
  <2>. SUFFICES ASSUME SInv, Next, path' # path, "lost" \notin trouble',
                       ~Importing, ~Importing'
                PROVE  \E s \in Sections : \A o \in Sections \ {s} : path'[o] = path[o]
    BY DEF vars, disk
  <2>1. PICK t \in Tasks : Write(t) \/ Rename(t)
    <3>1. ASSUME NEW r \in Requests, Unpack(r) \/ Unpacked(r) PROVE FALSE
      BY <3>1, Names DEF Unpack, Unpacked, Goto, Importing, Tasks, SInv, Typed
    <3>. QED
      BY <3>1 DEF Next, Submit, Check, Verify, Grant, Count, Arm, Logout,
         Confirm,
         SetPassword, RemovePassword, Forget, Console, RevokeAll, Reboot, Drop, Look,
         Read, Truncate, RenameFails, WriteFails, SwitchFirst, SwitchSecond, SwitchFails, Retire,
         LoadAuth, UnitsRead, LockEnds, Restart, disk
  <2>2. "lost" \notin trouble
    BY <2>1 DEF Write, Rename
  <2>3. Rename(t)
    BY <2>1, <2>2 DEF SInv, Saving_OK, Write
  <2>4. \A s \in Sections : path'[s] = IF s = Section(t) THEN Value(t) ELSE path[s]
    BY <2>2, <2>3, RenameWrites DEF SInv
  <2>5. Section(t) \in Sections
    BY DEF Section, Sections
  <2>. QED
    BY <2>4, <2>5
<1>. QED
  BY <1>1, SettingsInvariant, PTL DEF Spec, OneSection

(* As long as no two saves have overlapped and no read has failed since    *)
(* the controller started, the legacy channel is not given up before       *)
(* ctrl.toml has one.  The startup of an upgraded device can itself make   *)
(* two saves overlap: the theorem does not speak of that one.              *)
THEOREM ChannelSurvives == Spec => ChannelKept
<1>1. SInv /\ [Next]_vars =>
        [(legacy' # legacy /\ "lost" \notin trouble) => path.auto # None]_vars
  <2>. SUFFICES ASSUME SInv, Next, legacy' # legacy, "lost" \notin trouble
                PROVE  path.auto # None
    BY DEF vars, disk
  <2>1. Retire
    BY DEF Next, Submit, Check, Verify, Grant, Count, Arm, Logout, Confirm,
       SetPassword, RemovePassword, Forget, Console, RevokeAll, Unpack, Unpacked,
       Reboot, Drop, Look, Read, Truncate, Write, Rename, RenameFails, WriteFails,
       SwitchFirst, SwitchSecond, SwitchFails, LoadAuth, UnitsRead, LockEnds, Restart, disk
  <2>. QED
    BY <2>1 DEF SInv, Channel_OK, Retire
<1>. QED
  BY <1>1, SettingsInvariant, PTL DEF Spec, ChannelKept
-----------------------------------------------------------------------------
(* A set of natural numbers has a least element, which is what an induction *)
(* needs that the library's theorems cannot be instantiated for.           *)
LEMMA LeastNat ==
  ASSUME NEW T, T \subseteq Nat, T # {}
  PROVE  \E n \in T : \A m \in T : n <= m
<1>. DEFINE Below == {s \in Nat \X Nat : s[1] < s[2]}
<1>1. IsWellFoundedOn(Below, Nat)
  BY NatLessThanWellFounded DEF OpToRel
<1>2. PICK n \in T : \A m \in T : <<m, n>> \notin Below
  BY <1>1, WFMin
<1>3. \A m \in T : ~(m < n)
  BY <1>2
<1>. QED
  BY <1>3

(* What backoff_delay_secs computes.                                       *)
LEMMA Delays ==
  ASSUME NEW n \in Nat
  PROVE  BackoffDelay(n) = IF n <= 3 THEN 0 ELSE IF n = 4 THEN 5
                      ELSE IF n = 5 THEN 10 ELSE IF n = 6 THEN 20
                      ELSE IF n = 7 THEN 40 ELSE IF n = 8 THEN 80
                      ELSE IF n = 9 THEN 160 ELSE 300
<1>. USE DEF BackoffDelay, Lower, FreeAttempts, MaxSecs
<1>1. /\ 2 ^ 0 = 1 /\ 2 ^ 1 = 2 /\ 2 ^ 2 = 4 /\ 2 ^ 3 = 8 /\ 2 ^ 4 = 16
      /\ 2 ^ 5 = 32 /\ 2 ^ 6 = 64
  OBVIOUS
<1>2. CASE n <= 3
  BY <1>2
<1>3. CASE n = 4
  BY <1>1, <1>3
<1>4. CASE n = 5
  BY <1>1, <1>4
<1>5. CASE n = 6
  BY <1>1, <1>5
<1>6. CASE n = 7
  BY <1>1, <1>6
<1>7. CASE n = 8
  BY <1>1, <1>7
<1>8. CASE n = 9
  BY <1>1, <1>8
<1>9. CASE n > 9
  <2>1. Lower(n - 4, 6) = 6
    BY <1>9
  <2>. QED
    BY <1>1, <1>9, <2>1
<1>. QED
  BY <1>2, <1>3, <1>4, <1>5, <1>6, <1>7, <1>8, <1>9

(* The equation that defines the reference.                                *)
Doubling(f) ==
  f = [n \in Nat |-> IF n <= FreeAttempts THEN 0
                     ELSE IF n = FreeAttempts + 1 THEN 5
                     ELSE IF 2 * f[n - 1] > MaxSecs THEN MaxSecs
                     ELSE 2 * f[n - 1]]

(* The formula of the code solves it.                                      *)
LEMMA DelaysDouble == Doubling([n \in Nat |-> BackoffDelay(n)])
<1>. DEFINE d == [n \in Nat |-> BackoffDelay(n)]
            e == [n \in Nat |-> IF n <= FreeAttempts THEN 0
                     ELSE IF n = FreeAttempts + 1 THEN 5
                     ELSE IF 2 * d[n - 1] > MaxSecs THEN MaxSecs
                     ELSE 2 * d[n - 1]]
<1>1. ASSUME NEW n \in Nat PROVE d[n] = e[n]
  <2>1. CASE n <= 4
    BY <2>1, Delays DEF FreeAttempts, MaxSecs
  <2>2. CASE n > 4
    <3>1. n - 1 \in Nat /\ d[n - 1] = BackoffDelay(n - 1)
      BY <2>2
    <3>. QED
      BY <2>2, <3>1, Delays DEF FreeAttempts, MaxSecs
  <2>. QED
    BY <2>1, <2>2
<1>2. d = e
  BY <1>1
<1>. QED
  BY <1>2 DEF Doubling

(* It has one solution only: two of them would differ first at some count.  *)
(* So the shift and the caps of the code double the delay step by step.    *)
LEMMA DelayIsDoubled == \A n \in Nat : Doubled[n] = BackoffDelay(n)
<1>1. Doubled = CHOOSE f : Doubling(f)
  BY DEF Doubled, Doubling
<1>2. Doubling(Doubled)
  BY <1>1, DelaysDouble
<1>. DEFINE Bad == {n \in Nat : Doubled[n] # BackoffDelay(n)}
<1>. SUFFICES ASSUME Bad # {} PROVE FALSE
  OBVIOUS
<1>3. PICK n \in Bad : \A m \in Bad : n <= m
  BY LeastNat
<1>4. Doubled[n] = IF n <= FreeAttempts THEN 0
                   ELSE IF n = FreeAttempts + 1 THEN 5
                   ELSE IF 2 * Doubled[n - 1] > MaxSecs THEN MaxSecs
                   ELSE 2 * Doubled[n - 1]
  BY <1>2 DEF Doubling
<1>5. CASE n <= 4
  BY <1>4, <1>5, Delays DEF FreeAttempts
<1>6. CASE n > 4
  <2>1. n - 1 \in Nat /\ Doubled[n - 1] = BackoffDelay(n - 1)
    BY <1>3, <1>6
  <2>. QED
    BY <1>4, <1>6, <2>1, Delays DEF FreeAttempts, MaxSecs
<1>. QED
  BY <1>5, <1>6
-----------------------------------------------------------------------------
(* The delay is a matter of the failures that are on record, once nobody   *)
(* records one; a failure being recorded has set the count itself.         *)
Lock_OK ==
  /\ attempts \in Nat /\ seen \in [Requests -> Nat] /\ locked \in Nat
  /\ trouble \cap {"counts", "login"} = {} =>
       /\ ~Counting => locked \in {0, BackoffDelay(attempts)}
       /\ attempts <= FreeAttempts => locked = 0
       /\ \A r \in Requests : pc[r] = "arm" =>
            /\ seen[r] = attempts
            /\ \A o \in Tasks : pc[o] = "arm" => o = r

(* A step that neither records a failure nor a success.                    *)
Unrecorded ==
  /\ UNCHANGED lockout /\ trouble \subseteq trouble'
  /\ \A o \in Tasks : pc'[o] = "arm" <=> pc[o] = "arm"

(* It changes nothing about the lockout.                                   *)
LEMMA UnrecordedKeeps ==
  ASSUME Lock_OK, Unrecorded
  PROVE  Lock_OK'
<1>1. Counting' <=> Counting
  BY DEF Unrecorded, Counting
<1>. QED
  BY <1>1 DEF Lock_OK, Unrecorded, lockout, Tasks

(* A success, and a password that is set or removed, ends the lockout.     *)
LEMMA ResetLock ==
  ASSUME Lock_OK, Reset, Counting => "counts" \in trouble',
         trouble \subseteq trouble', \A o \in Tasks : pc'[o] = "arm" => pc[o] = "arm"
  PROVE  Lock_OK'
BY DEF Lock_OK, Reset, Counting, FreeAttempts, BackoffDelay, Tasks

(* The lockout fits at first and with every step.                          *)
LEMMA LockInit == Init => Lock_OK
BY BoundsAssumption, Names DEF Init, Lock_OK, Tasks, Startup, Begun, Counting,
   BackoffDelay, FreeAttempts

LEMMA LockStep == SInv /\ Lock_OK /\ [Next]_vars => Lock_OK'
<1>. SUFFICES ASSUME SInv, Lock_OK, [Next]_vars PROVE Lock_OK'
  OBVIOUS
<1>1. Typed /\ Errands_OK
  BY DEF SInv
<1>. USE Names DEF Tasks, Startup, Goto, End
<1>2. ASSUME NEW r \in Requests,
        Submit(r) \/ Check(r) \/ Verify(r) \/ Logout(r) \/ Confirm(r)
        \/ RemovePassword(r) \/ Console(r) \/ RevokeAll(r) \/ Unpack(r) \/ Unpacked(r)
      PROVE Unrecorded
  BY <1>1, <1>2 DEF Unrecorded, Typed, Submit, Check, Verify, Logout, Confirm,
     RemovePassword, Console, RevokeAll, Unpack, Unpacked, Changes, lockout, memory, tasks
<1>3. ASSUME NEW t \in Tasks,
        Look(t) \/ Read(t) \/ Truncate(t) \/ Write(t) \/ Rename(t)
        \/ RenameFails(t) \/ WriteFails(t) \/ SwitchFirst(t) \/ SwitchSecond(t)
        \/ SwitchFails(t)
      PROVE Unrecorded
  <2>1. UNCHANGED lockout /\ trouble \subseteq trouble'
    BY <1>3 DEF Look, Read, Truncate, Write, Rename, RenameFails, WriteFails,
       SwitchFirst, SwitchSecond, SwitchFails, Cut, memory, lockout
  <2>2. pc[t] # "arm" /\ \E l \in Labels \ {"arm"} : pc' = [pc EXCEPT ![t] = l]
    BY <1>3 DEF Look, Read, Truncate, Write, Rename, RenameFails, WriteFails,
       SwitchFirst, SwitchSecond, SwitchFails, After, Labels, SavingAt
  <2>. QED
    BY <1>1, <2>1, <2>2 DEF Unrecorded, Typed
<1>4. ASSUME Retire \/ LoadAuth \/ UnitsRead \/ UNCHANGED vars PROVE Unrecorded
  BY <1>1, <1>4 DEF Unrecorded, Typed, Retire, LoadAuth, UnitsRead, vars, tasks,
     memory, lockout
<1>5. ASSUME NEW r \in Requests, Grant(r) \/ SetPassword(r) \/ Forget(r)
      PROVE  Lock_OK'
  BY <1>1, <1>5, ResetLock DEF Grant, SetPassword, Forget, Recorded, Changes,
     Typed, Counting
<1>6. ASSUME NEW r \in Requests, Count(r) PROVE Lock_OK'
  <2>1. attempts' = attempts + 1 /\ seen' = [seen EXCEPT ![r] = attempts + 1]
        /\ locked' = locked /\ pc' = [pc EXCEPT ![r] = "arm"] /\ trouble \subseteq trouble'
        /\ (Counting => "counts" \in trouble')
    BY <1>6 DEF Count, Recorded
  <2>2. Counting'
    BY <1>1, <2>1 DEF Counting, Typed
  <2>. QED
    BY <1>1, <2>1, <2>2 DEF Lock_OK, Typed, FreeAttempts, Counting
<1>7. ASSUME NEW r \in Requests, Arm(r) PROVE Lock_OK'
  <2>1. /\ locked' = IF BackoffDelay(seen[r]) > 0 THEN BackoffDelay(seen[r]) ELSE locked
        /\ seen' = [seen EXCEPT ![r] = 0] /\ attempts' = attempts
        /\ pc[r] = "arm" /\ pc' = [pc EXCEPT ![r] = "done"] /\ trouble' = trouble
    BY <1>7 DEF Arm
  <2>2. attempts' \in Nat /\ seen' \in [Requests -> Nat] /\ locked' \in Nat
    BY <2>1, Delays DEF Lock_OK
  <2>. SUFFICES ASSUME trouble \cap {"counts", "login"} = {}
                PROVE  /\ locked' \in {0, BackoffDelay(attempts)}
                       /\ attempts <= FreeAttempts => locked' = 0
                       /\ \A o \in Tasks : pc'[o] # "arm"
    BY <2>1, <2>2 DEF Lock_OK, BackoffDelay
  <2>3. seen[r] = attempts /\ \A o \in Tasks : pc[o] = "arm" => o = r
    BY <2>1 DEF Lock_OK
  <2>4. \A o \in Tasks : pc'[o] # "arm"
    BY <1>1, <2>1, <2>3 DEF Typed
  <2>5. CASE attempts <= FreeAttempts
    <3>1. BackoffDelay(attempts) = 0 /\ locked = 0
      BY <2>5 DEF Lock_OK, BackoffDelay
    <3>. QED
      BY <2>1, <2>3, <2>4, <3>1
  <2>6. CASE attempts > FreeAttempts
    <3>1. BackoffDelay(attempts) > 0
      BY <2>6, Delays DEF Lock_OK, FreeAttempts
    <3>. QED
      BY <2>1, <2>3, <2>4, <2>6, <3>1 DEF Lock_OK, FreeAttempts
  <2>. QED
    BY <2>5, <2>6 DEF Lock_OK, FreeAttempts
<1>8. CASE LockEnds
  BY <1>8 DEF LockEnds, Lock_OK, tasks, Counting
<1>9. ASSUME NEW r \in Requests, Drop(r) PROVE Lock_OK'
  <2>1. /\ trouble \subseteq trouble'
        /\ pc[r] = "arm" => "login" \in trouble'
        /\ seen' = [seen EXCEPT ![r] = 0] /\ UNCHANGED <<attempts, locked>>
    BY <1>1, <1>9 DEF Drop, Cut, Delicate, Errands_OK, LoginAt
  <2>2. \E l \in {"lastwrite", "done"} : pc' = [pc EXCEPT ![r] = l]
    BY <1>9 DEF Drop
  <2>3. \A o \in Tasks : pc'[o] = "arm" <=> o # r /\ pc[o] = "arm"
    BY <1>1, <2>2 DEF Typed
  <2>4. "login" \notin trouble' => (Counting' <=> Counting)
    BY <2>1, <2>3 DEF Counting
  <2>. QED
    BY <2>1, <2>3, <2>4 DEF Lock_OK
<1>10. ASSUME Startover PROVE Lock_OK'
  <2>1. \A o \in Tasks : pc'[o] # "arm"
    BY <1>10 DEF Startover, Begun
  <2>. QED
    BY <1>10, <2>1 DEF Startover, Lock_OK, FreeAttempts
<1>. QED
  BY <1>2, <1>3, <1>4, <1>5, <1>6, <1>7, <1>8, <1>9, <1>10, UnrecordedKeeps
     DEF Next, Reboot, Restart

(* auth.rs:26-38, 122-133: for every number of failures, the lockout that  *)
(* is in force is what the failures since the last success ask for, the    *)
(* delay doubling from 5 to 300 seconds.  As LockFits says, not after two  *)
(* were recorded at once (or one and a reset) or a login was dropped,      *)
(* until the controller starts again.                                      *)
THEOREM LockoutFits == Spec => []LockFits
<1>1. Init => SInv /\ Lock_OK
  BY InvInit, LockInit
<1>2. (SInv /\ Lock_OK) /\ [Next]_vars => (SInv /\ Lock_OK)'
  BY InvStep, LockStep
<1>3. Lock_OK => LockFits
  BY DelayIsDoubled DEF Lock_OK, LockFits
<1>. QED
  BY <1>1, <1>2, <1>3, PTL DEF Spec
=============================================================================
