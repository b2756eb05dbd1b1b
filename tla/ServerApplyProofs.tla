------------------------- MODULE ServerApplyProofs -------------------------
(***************************************************************************)
(* Theorems about ServerApply, for every set of pages and clicks, every    *)
(* verdict of the server binary on what they save and every number of      *)
(* faults.                                                                 *)
(***************************************************************************)
EXTENDS ServerApply, TLAPS

Trial == {"restart", "poll", "confirm", "rollback"}

(* The server was restarted with the active file, or there is no trial. *)
Steady == ~OnTrial \/ pc[lock] \in {"poll", "confirm"}

Typed ==
  /\ pc \in [Pages -> {"closed", "open", "done"} \cup Handled]
  /\ base \in [Pages -> Versions \cup {Empty, Missing, None}]
  /\ click \in [Clicks -> {"idle", "create", "fill", "on", "off", "start",
                           "stop", "done"}]
  /\ previous \in Versions \cup {Empty, Missing, None}
  /\ faults \in Nat
  /\ stray \in BOOLEAN /\ covered \in BOOLEAN
  /\ Template \in proven
  /\ late["candidate"] \in Pages \cup {None}

(* What the holder of the lock has made sure of on its way, unless a write *)
(* that was left behind ended in the middle of it.                         *)
Holder_OK ==
  /\ undo => OnTrial
  /\ ~stray =>
       /\ \A p \in Pages :
            /\ pc[p] = "guard" => candidate = p
            /\ pc[p] \in {"backup", "activate"} \cup Trial => p \in Checked
            /\ pc[p] \in {"stage", "guard", "backup", "activate"} /\ path \in Pages
                 => base[p] = path
            /\ pc[p] \in {"activate"} \cup Trial /\ previous # Missing => bak = previous
       /\ previous \in Checked \cup {Empty, Missing, None}
       /\ late["path"] \in Checked \cup {Empty, Missing, None}

(* What is active, to go back to and running, as long as nothing failed.   *)
Undisturbed_OK ==
  faults = 0 =>
    /\ \A f \in Names : late[f] = None
    /\ previous \in proven \cup {Empty, Missing, None}
    /\ ~OnTrial \/ undo => path \in proven \cup {Empty, Missing}
    /\ Steady /\ (~covered \/ path \notin {Template, Empty}) => running \in {path, None}

AInv == Typed /\ ApplyTypeOK /\ OnlyChecked /\ Holder_OK /\ Undisturbed_OK
-----------------------------------------------------------------------------
(* The initial states satisfy the invariant.                               *)
LEMMA InvInit == Init => AInv
<1>. SUFFICES ASSUME Init PROVE AInv
  OBVIOUS
<1>. USE VersionsAssumption DEF Init, Versions, Handled, Locked, Names
<1>1. Typed
  BY DEF Typed
<1>2. ApplyTypeOK
  BY DEF ApplyTypeOK
<1>3. OnlyChecked
  BY DEF OnlyChecked
<1>4. Holder_OK
  BY DEF Holder_OK, Trial
<1>5. Undisturbed_OK
  BY DEF Undisturbed_OK, Steady, OnTrial
<1>. QED
  BY <1>1, <1>2, <1>3, <1>4, <1>5 DEF AInv

-----------------------------------------------------------------------------
(* A page's step keeps the invariant.                                      *)
LEMMA PageStep ==
  ASSUME AInv, NEW p \in Pages,
         Load(p) \/ Submit(p) \/ Step(p) \/ Drop(p)
  PROVE  AInv'
<1>. USE VersionsAssumption
       DEF AInv, Typed, ApplyTypeOK, OnlyChecked, Holder_OK, Undisturbed_OK,
           Steady, OnTrial, Trial, Versions, Handled, Locked, files, server, history, Fault, Names,
           Goto, Leave
<1>1. CASE Load(p)
  <2>1. Typed'
    BY <1>1, SMTT(20) DEF Load
  <2>2. ApplyTypeOK'
    BY <1>1, SMTT(20) DEF Load
  <2>3. OnlyChecked'
    BY <1>1, SMTT(20) DEF Load
  <2>4. Holder_OK'
    BY <1>1, SMTT(20) DEF Load
  <2>5. Undisturbed_OK'
    BY <1>1, SMTT(20) DEF Load
  <2>. QED
    BY <2>1, <2>2, <2>3, <2>4, <2>5
<1>2. CASE Submit(p)
  <2>1. Typed'
    BY <1>2, SMTT(20) DEF Submit
  <2>2. ApplyTypeOK'
    BY <1>2, SMTT(20) DEF Submit
  <2>3. OnlyChecked'
    BY <1>2, SMTT(20) DEF Submit
  <2>4. Holder_OK'
    BY <1>2, SMTT(20) DEF Submit
  <2>5. Undisturbed_OK'
    BY <1>2, SMTT(20) DEF Submit
  <2>. QED
    BY <2>1, <2>2, <2>3, <2>4, <2>5
<1>3. CASE Lock(p)
  <2>1. Typed'
    BY <1>3, SMTT(20) DEF Lock
  <2>2. ApplyTypeOK'
    BY <1>3, SMTT(20) DEF Lock
  <2>3. OnlyChecked'
    BY <1>3, SMTT(20) DEF Lock
  <2>4. Holder_OK'
    BY <1>3, SMTT(20) DEF Lock
  <2>5. Undisturbed_OK'
    BY <1>3, SMTT(20) DEF Lock
  <2>. QED
    BY <2>1, <2>2, <2>3, <2>4, <2>5
<1>4. CASE CheckRevision(p)
  <2>1. Typed'
    BY <1>4, SMTT(20) DEF CheckRevision, Current, Text
  <2>2. ApplyTypeOK'
    BY <1>4, SMTT(20) DEF CheckRevision, Current, Text
  <2>3. OnlyChecked'
    BY <1>4, SMTT(20) DEF CheckRevision, Current, Text
  <2>4. Holder_OK'
    BY <1>4, SMTT(20) DEF CheckRevision, Current, Text
  <2>5. Undisturbed_OK'
    BY <1>4, SMTT(20) DEF CheckRevision, Current, Text
  <2>. QED
    BY <2>1, <2>2, <2>3, <2>4, <2>5
<1>5. CASE Stage(p)
  <2>1. Typed'
    BY <1>5, SMTT(20) DEF Stage
  <2>2. ApplyTypeOK'
    BY <1>5, SMTT(20) DEF Stage
  <2>3. OnlyChecked'
    BY <1>5, SMTT(20) DEF Stage
  <2>4. Holder_OK'
    BY <1>5, SMTT(20) DEF Stage
  <2>5. Undisturbed_OK'
    BY <1>5, SMTT(20) DEF Stage
  <2>. QED
    BY <2>1, <2>2, <2>3, <2>4, <2>5
<1>6. CASE Guard(p)
  <2>1. Typed'
    BY <1>6, SMTT(20) DEF Guard
  <2>2. ApplyTypeOK'
    BY <1>6, SMTT(20) DEF Guard
  <2>3. OnlyChecked'
    BY <1>6, SMTT(20) DEF Guard
  <2>4. Holder_OK'
    BY <1>6, SMTT(20) DEF Guard
  <2>5. Undisturbed_OK'
    BY <1>6, SMTT(20) DEF Guard
  <2>. QED
    BY <2>1, <2>2, <2>3, <2>4, <2>5
<1>7. CASE Backup(p)
  <2>1. Typed'
    BY <1>7, SMTT(20) DEF Backup
  <2>2. ApplyTypeOK'
    BY <1>7, SMTT(20) DEF Backup
  <2>3. OnlyChecked'
    BY <1>7, SMTT(20) DEF Backup
  <2>4. Holder_OK'
    BY <1>7, SMTT(20) DEF Backup
  <2>5. Undisturbed_OK'
    BY <1>7, SMTT(20) DEF Backup
  <2>. QED
    BY <2>1, <2>2, <2>3, <2>4, <2>5
<1>8. CASE Activate(p)
  <2>1. Typed'
    BY <1>8, SMTT(20) DEF Activate
  <2>2. ApplyTypeOK'
    BY <1>8, SMTT(20) DEF Activate
  <2>3. OnlyChecked'
    BY <1>8, SMTT(20) DEF Activate
  <2>4. Holder_OK'
    BY <1>8, SMTT(20) DEF Activate
  <2>5. Undisturbed_OK'
    BY <1>8, SMTT(20) DEF Activate
  <2>. QED
    BY <2>1, <2>2, <2>3, <2>4, <2>5
<1>9. CASE Restart(p)
  <2>1. Typed'
    BY <1>9, SMTT(20) DEF Restart, Launched, Unhealthy
  <2>2. ApplyTypeOK'
    BY <1>9, SMTT(20) DEF Restart, Launched, Unhealthy
  <2>3. OnlyChecked'
    BY <1>9, SMTT(20) DEF Restart, Launched, Unhealthy
  <2>4. Holder_OK'
    BY <1>9, SMTT(20) DEF Restart, Launched, Unhealthy
  <2>5. Undisturbed_OK'
    <3>1. CASE Fault
      BY <3>1
    <3>2. CASE running' = Launched /\ Goto(p, "poll") /\ UNCHANGED faults
      <4>1. Launched \in {path, None}
        BY DEF Launched
      <4>2. lock = p /\ UNCHANGED <<path, proven, previous, undo, late, covered>>
        BY <1>9, <3>2 DEF Restart
      <4>. QED
        BY <3>2, <4>1, <4>2
    <3>. QED
      BY <1>9, <3>1, <3>2 DEF Restart
  <2>. QED
    BY <2>1, <2>2, <2>3, <2>4, <2>5
<1>10. CASE Poll(p)
  <2>1. Typed'
    BY <1>10, SMTT(20) DEF Poll, Unhealthy
  <2>2. ApplyTypeOK'
    BY <1>10, SMTT(20) DEF Poll, Unhealthy
  <2>3. OnlyChecked'
    BY <1>10, SMTT(20) DEF Poll, Unhealthy
  <2>4. Holder_OK'
    BY <1>10, SMTT(20) DEF Poll, Unhealthy
  <2>5. Undisturbed_OK'
    BY <1>10, SMTT(20) DEF Poll, Unhealthy
  <2>. QED
    BY <2>1, <2>2, <2>3, <2>4, <2>5
<1>11. CASE Confirm(p)
  <2>1. Typed'
    BY <1>11, SMTT(20) DEF Confirm
  <2>2. ApplyTypeOK'
    BY <1>11, SMTT(20) DEF Confirm
  <2>3. OnlyChecked'
    BY <1>11, SMTT(20) DEF Confirm
  <2>4. Holder_OK'
    BY <1>11, SMTT(20) DEF Confirm
  <2>5. Undisturbed_OK'
    BY <1>11, SMTT(20) DEF Confirm
  <2>. QED
    BY <2>1, <2>2, <2>3, <2>4, <2>5
<1>12. CASE Rollback(p)
  <2>1. Typed'
    BY <1>12, SMTT(20) DEF Rollback
  <2>2. ApplyTypeOK'
    BY <1>12, SMTT(20) DEF Rollback
  <2>3. OnlyChecked'
    BY <1>12, SMTT(20) DEF Rollback
  <2>4. Holder_OK'
    BY <1>12, SMTT(20) DEF Rollback
  <2>5. Undisturbed_OK'
    BY <1>12, SMTT(20) DEF Rollback
  <2>. QED
    BY <2>1, <2>2, <2>3, <2>4, <2>5
<1>13. CASE Drop(p)
  <2>1. Typed'
    BY <1>13, SMTT(20) DEF Drop, Writing
  <2>2. ApplyTypeOK'
    BY <1>13, SMTT(20) DEF Drop, Writing
  <2>3. OnlyChecked'
    BY <1>13, SMTT(20) DEF Drop, Writing
  <2>4. Holder_OK'
    BY <1>13, SMTT(20) DEF Drop, Writing
  <2>5. Undisturbed_OK'
    BY <1>13, SMTT(20) DEF Drop, Writing
  <2>. QED
    BY <2>1, <2>2, <2>3, <2>4, <2>5
<1>. QED
  BY <1>1, <1>2, <1>3, <1>4, <1>5, <1>6, <1>7, <1>8, <1>9, <1>10, <1>11, <1>12, <1>13 DEF Step

(* A write that was left behind ends: where nobody holds the lock it does  *)
(* no harm, where somebody does it is remembered.                          *)
LEMMA LandStep ==
  ASSUME AInv, NEW f \in Names, Land(f)
  PROVE  AInv'
<1>. USE VersionsAssumption
       DEF AInv, Typed, ApplyTypeOK, OnlyChecked, Holder_OK, Undisturbed_OK,
           Steady, OnTrial, Trial, Versions, Handled, Locked, handler, server, Names, Land
<1>0. faults # 0
  OBVIOUS
<1>1. Typed'
  OBVIOUS
<1>2. ApplyTypeOK'
  OBVIOUS
<1>3. OnlyChecked'
  OBVIOUS
<1>4. Holder_OK'
  OBVIOUS
<1>5. Undisturbed_OK'
  BY <1>0
<1>. QED
  BY <1>1, <1>2, <1>3, <1>4, <1>5

(* A restart of the controller drops every handler and its lock.           *)
LEMMA RestartStep ==
  ASSUME AInv, ControllerRestart
  PROVE  AInv'
<1>. USE VersionsAssumption
       DEF AInv, Typed, ApplyTypeOK, OnlyChecked, Holder_OK, Undisturbed_OK,
           Steady, OnTrial, Trial, Versions, Handled, Locked, files, history, Fault, Names,
           ControllerRestart, Started, Launched
<1>1. Typed'
  OBVIOUS
<1>2. ApplyTypeOK'
  OBVIOUS
<1>3. OnlyChecked'
  OBVIOUS
<1>4. Holder_OK'
  OBVIOUS
<1>5. Undisturbed_OK'
  OBVIOUS
<1>. QED
  BY <1>1, <1>2, <1>3, <1>4, <1>5

(* A click's step leaves the handlers alone; what it writes is the         *)
(* template, or the empty file that is to hold it.                         *)
LEMMA SwitchStep ==
  ASSUME AInv, NEW c \in Clicks, Switch(c)
  PROVE  AInv'
<1>. USE VersionsAssumption
       DEF AInv, Typed, ApplyTypeOK, OnlyChecked, Holder_OK, Undisturbed_OK,
           Steady, OnTrial, Trial, Versions, Handled, Locked, files, handler, history,
           Fault, Names, At
<1>1. CASE Enable(c)
  <2>1. Typed'
    BY <1>1, SMTT(20) DEF Enable
  <2>2. ApplyTypeOK'
    BY <1>1, SMTT(20) DEF Enable
  <2>3. OnlyChecked'
    BY <1>1, SMTT(20) DEF Enable
  <2>4. Holder_OK'
    BY <1>1, SMTT(20) DEF Enable
  <2>5. Undisturbed_OK'
    BY <1>1, SMTT(20) DEF Enable
  <2>. QED
    BY <2>1, <2>2, <2>3, <2>4, <2>5
<1>2. CASE Create(c)
  <2>0. covered' \in BOOLEAN
    BY <1>2, Zenon DEF Create
  <2>1. Typed'
    BY <1>2, <2>0, SMTT(20) DEF Create
  <2>2. ApplyTypeOK'
    BY <1>2, SMTT(20) DEF Create
  <2>3. OnlyChecked'
    BY <1>2, SMTT(20) DEF Create
  <2>4. Holder_OK'
    BY <1>2, SMTT(20) DEF Create
  <2>5. Undisturbed_OK'
    <3>1. /\ path' = Empty
          /\ UNCHANGED <<proven, previous, undo, lock, pc, late, running, faults>>
      BY <1>2 DEF Create
    <3>2. covered' \/ (~covered /\ path = Missing)
      BY <1>2, Zenon DEF Create
    <3>3. running # Missing
      OBVIOUS
    <3>. QED
      BY <3>1, <3>2, <3>3
  <2>. QED
    BY <2>1, <2>2, <2>3, <2>4, <2>5
<1>3. CASE Fill(c)
  <2>0. covered' \in BOOLEAN
    BY <1>3, Zenon DEF Fill
  <2>1. Typed'
    BY <1>3, <2>0, SMTT(20) DEF Fill
  <2>2. ApplyTypeOK'
    BY <1>3, SMTT(20) DEF Fill
  <2>3. OnlyChecked'
    BY <1>3, SMTT(20) DEF Fill
  <2>4. Holder_OK'
    BY <1>3, SMTT(20) DEF Fill
  <2>5. Undisturbed_OK'
    <3>1. CASE Fault
      BY <3>1
    <3>2. CASE path' = Template /\ covered' = (covered \/ path # Empty) /\ UNCHANGED faults
      <4>0. path' = Template /\ UNCHANGED faults
        BY <3>2, Zenon
      <4>1. Template \notin {Empty, Missing} /\ running # Empty
        OBVIOUS
      <4>2. UNCHANGED <<proven, previous, undo, lock, pc, late, running>>
        BY <1>3 DEF Fill
      <4>3. covered' \/ (~covered /\ path = Empty)
        BY <3>2, Zenon
      <4>. QED
        BY <4>0, <4>1, <4>2, <4>3
    <3>. QED
      BY <1>3, <3>1, <3>2 DEF Fill
  <2>. QED
    BY <2>1, <2>2, <2>3, <2>4, <2>5
<1>4. CASE Disable(c)
  <2>1. Typed'
    BY <1>4, SMTT(20) DEF Disable
  <2>2. ApplyTypeOK'
    BY <1>4, SMTT(20) DEF Disable
  <2>3. OnlyChecked'
    BY <1>4, SMTT(20) DEF Disable
  <2>4. Holder_OK'
    BY <1>4, SMTT(20) DEF Disable
  <2>5. Undisturbed_OK'
    BY <1>4, SMTT(20) DEF Disable
  <2>. QED
    BY <2>1, <2>2, <2>3, <2>4, <2>5
<1>5. CASE SetFlag(c)
  <2>1. Typed'
    BY <1>5, SMTT(20) DEF SetFlag
  <2>2. ApplyTypeOK'
    BY <1>5, SMTT(20) DEF SetFlag
  <2>3. OnlyChecked'
    BY <1>5, SMTT(20) DEF SetFlag
  <2>4. Holder_OK'
    BY <1>5, SMTT(20) DEF SetFlag
  <2>5. Undisturbed_OK'
    BY <1>5, SMTT(20) DEF SetFlag
  <2>. QED
    BY <2>1, <2>2, <2>3, <2>4, <2>5
<1>6. CASE SetUnit(c)
  <2>1. Typed'
    BY <1>6, SMTT(20) DEF SetUnit, Started, Launched
  <2>2. ApplyTypeOK'
    BY <1>6, SMTT(20) DEF SetUnit, Started, Launched
  <2>3. OnlyChecked'
    BY <1>6, SMTT(20) DEF SetUnit, Started, Launched
  <2>4. Holder_OK'
    BY <1>6, SMTT(20) DEF SetUnit, Started, Launched
  <2>5. Undisturbed_OK'
    <3>1. Launched \in {path, None}
      BY DEF Launched
    <3>2. running' \in {running, Launched, None}
      BY <1>6 DEF SetUnit, Started
    <3>3. Steady' = Steady /\ OnTrial' = OnTrial
      BY <1>6 DEF SetUnit
    <3>4. UNCHANGED <<path, previous, undo, proven, late, covered, faults>>
      BY <1>6 DEF SetUnit
    <3>. QED
      BY <3>1, <3>2, <3>3, <3>4
  <2>. QED
    BY <2>1, <2>2, <2>3, <2>4, <2>5
<1>. QED
  BY <1>1, <1>2, <1>3, <1>4, <1>5, <1>6 DEF Switch

LEMMA InvStep == AInv /\ [Next]_vars => AInv'
<1>. SUFFICES ASSUME AInv, [Next]_vars PROVE AInv'
  OBVIOUS
<1>1. ASSUME NEW p \in Pages, Load(p) \/ Submit(p) \/ Step(p) \/ Drop(p)
      PROVE  AInv'
  BY <1>1, PageStep
<1>2. CASE ControllerRestart
  BY <1>2, RestartStep
<1>3. ASSUME NEW c \in Clicks, Switch(c)
      PROVE  AInv'
  BY <1>3, SwitchStep
<1>4. CASE UNCHANGED vars
  BY <1>4 DEF vars, files, handler, server, history, AInv, Typed, ApplyTypeOK, OnlyChecked,
     Holder_OK, Undisturbed_OK, Steady, OnTrial
<1>5. ASSUME NEW f \in Names, Land(f)
      PROVE  AInv'
  BY <1>5, LandStep
<1>. QED
  BY <1>1, <1>2, <1>3, <1>4, <1>5 DEF Next

(* The invariant holds whatever is saved, dropped, restarted or fails.     *)
THEOREM ApplyInvariant == Spec => []AInv
BY InvInit, InvStep, PTL DEF Spec

-----------------------------------------------------------------------------
(* CONFIG_APPLY_LOCK (server_config.rs:403) is held by the one handler that *)
(* is between taking it and its answer, whichever handlers are dropped.    *)
THEOREM OneHolder == Spec => []ApplyTypeOK
<1>1. AInv => ApplyTypeOK
  BY DEF AInv
<1>. QED
  BY <1>1, ApplyInvariant, PTL

(* README.md:180 and server_config.rs:412-432: nothing is active that the  *)
(* server binary did not accept, although all saves stage under one name,  *)
(* until a write that was left behind ends in the middle of another save.  *)
THEOREM ActiveIsChecked == Spec => []OnlyChecked
<1>1. AInv => OnlyChecked
  BY DEF AInv
<1>. QED
  BY <1>1, ApplyInvariant, PTL

(* server_config.rs:424-440: a configuration on trial has its predecessor  *)
(* at hand, unless such a write ended in between, and one that was found   *)
(* healthy as long as nothing failed.                                      *)
THEOREM WayBackKept == Spec => []WayBack
<1>1. ASSUME AInv PROVE WayBack
  <2>. USE <1>1 DEF AInv, ApplyTypeOK
  <2>1. OnTrial => lock \in Pages /\ pc[lock] \in Trial /\ previous # None
    BY DEF OnTrial, Trial
  <2>2. ~stray /\ OnTrial /\ previous # Missing => bak = previous
    BY <2>1 DEF Holder_OK
  <2>3. faults = 0 /\ OnTrial => previous \in proven \cup {Empty, Missing}
    BY <2>1 DEF Undisturbed_OK
  <2>4. faults = 0 /\ ~OnTrial => path \in proven \cup {Empty, Missing}
    BY DEF Undisturbed_OK
  <2>. QED
    BY <2>2, <2>3, <2>4 DEF WayBack
<1>. QED
  BY <1>1, ApplyInvariant, PTL

(* README.md:182: between trials the server runs with the active file or   *)
(* not at all, when nothing failed and the switch wrote no template over a *)
(* file it had not seen (routes.rs:1647-1653).                             *)
THEOREM ActiveIsRunning == Spec => []RunsActive
<1>1. AInv => RunsActive
  BY DEF AInv, Undisturbed_OK, Steady, RunsActive
<1>. QED
  BY <1>1, ApplyInvariant, PTL

(* server_config.rs:24-27: the revision is compared under the lock, so no  *)
(* save overwrites another page's that its page has not seen, unless a     *)
(* write that was left behind ended in between.                            *)
THEOREM EverySaveSeen == Spec => NoSaveLost
<1>1. AInv => \A p \in Pages :
        ~stray /\ path \in Pages /\ pc[p] = "activate" => base[p] = path
  BY DEF AInv, Holder_OK
<1>2. AInv /\ [Next]_vars =>
        [\A p \in Pages :
           ~stray /\ path \in Pages /\ path' = p /\ path # p /\ pc[p] = "activate"
             => base[p] = path]_vars
  BY <1>1
<1>. QED
  BY <1>2, ApplyInvariant, PTL DEF NoSaveLost, Spec
=============================================================================
