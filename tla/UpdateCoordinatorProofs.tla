----------------------- MODULE UpdateCoordinatorProofs -----------------------
(***************************************************************************)
(* Theorems about UpdateCoordinator, for every set of error texts and      *)
(* every number of restarts, deaths of RAUC and failing bus calls.         *)
(***************************************************************************)
EXTENDS UpdateCoordinator, TLAPS

(* Who holds the guard is seen from where the operation stands.            *)
Uploading == {"check", "clear", "uploading"}

(* The guard, and a RAUC at work: it works for the operation that waits    *)
(* for its signal; or for a controller that is gone, and then nobody has   *)
(* passed the checks that precede the guard, unless the bus failed.        *)
Guard_OK ==
  /\ busy = "no" <=> op = "none"
  /\ busy = "upload" <=> op \in Uploading
  /\ busErrors = 0 /\ rauc # "idle" =>
       \/ op = "wait" /\ signal = "none"
       \/ passed = {} /\ busy \in {"no", "upload"}

(* A bundle appears under its name only when it is whole.                  *)
Staged_OK == \A p \in Paths : staged[p] # "cut"

(* Whoever knows of a success knows that the slot is armed; nothing within *)
(* one boot takes that back.                                               *)
Armed_OK ==
  /\ "ready" \in {phase, marker.state, poll.verdict} => armed
  /\ signal = "ok" => armed
  /\ op \in {"markReady", "publish"} => armed
  /\ poll.primary = "other" => armed

(* The operation that waits for RAUC hears of it when RAUC is done, and    *)
(* while RAUC works the coordinator shows no earlier success.              *)
Done_OK ==
  /\ phase = "ready" => fit
  /\ signal # "none" => op = "wait" /\ rauc = "idle"
  /\ signal = "ok" => fit
  /\ op \in {"markReady", "publish"} => rauc = "idle" /\ fit
  /\ op \in {"begin", "download", "downloading", "prepare", "ask", "wait"} =>
       phase # "ready"
  /\ rauc # "idle" => phase # "ready"

(* A poll that has read an idle RAUC, and may have read its error.         *)
ReadIdle == poll.pc \in {"error", "primary"} \/ poll.primary = "other"
ReadError == poll.pc = "primary" \/ poll.primary = "other"

(* What tells an installation that was left half written from a success:   *)
(* a new error, once RAUC is idle; and before, no marker and no poll says  *)
(* that it is over.                                                        *)
Fit_OK ==
  /\ "ready" \in {marker.state, poll.verdict} => fit \/ blind
  /\ rauc # "idle" /\ "ready" \in {marker.state, poll.verdict} => blind
  /\ rauc # "idle" /\ ReadIdle => blind
  /\ rauc = "idle" /\ poll.pc \in {"observe", "observed"} => fit \/ blind
  /\ rauc = "idle" /\ marker.state = "installing" =>
       fit \/ blind \/ lastError \notin {NoError, marker.base}
  /\ ReadError /\ marker.state = "installing" => fit \/ blind \/ NewError
  /\ poll.verdict # "none" => poll.pc = "persist"
  /\ poll.primary = "other" => poll.pc = "marker"

CInv == TypeOK /\ Guard_OK /\ Staged_OK /\ Armed_OK /\ Done_OK /\ Fit_OK

LEMMA InvInit == Init => CInv
<1>. SUFFICES ASSUME Init PROVE CInv
  OBVIOUS
<1>1. NoPoll \in Polls /\ poll.verdict = "none" /\ poll.primary = "unknown"
  BY DEF Init, NoPoll, Polls, Texts
<1>2. marker \in [state : {"none"} \cup Active \cup Terminal, base : Texts]
       /\ marker.state = "none"
  BY DEF Init, Texts
<1>3. staged \in [Paths -> {"none", "cut", "whole"}] /\ part \in [Paths -> BOOLEAN]
  BY DEF Init
<1>4. 0 \in 0 .. MaxRestarts /\ 0 \in 0 .. MaxDeaths /\ 0 \in 0 .. MaxBusErrors
  BY LimitsAssumption
<1>5. TypeOK
  BY <1>1, <1>2, <1>3, <1>4 DEF Init, TypeOK, Paths, Texts
<1>6. Guard_OK /\ Staged_OK /\ Armed_OK
  BY <1>1, <1>2 DEF Init, Guard_OK, Uploading, Staged_OK, Armed_OK
<1>7. Done_OK /\ Fit_OK
  BY <1>1, <1>2 DEF Init, Done_OK, Fit_OK, ReadIdle, ReadError, NoPoll
<1>. QED
  BY <1>5, <1>6, <1>7 DEF CInv

-----------------------------------------------------------------------------
(* Requests, and the guard.                                                *)
LEMMA RequestStep ==
  ASSUME CInv, NEW p \in Paths, UploadReserve \/ Request(p) \/ Acquire(p)
  PROVE  CInv'
<1>. USE ErrorsAssumption, LimitsAssumption
       DEF CInv, TypeOK, Guard_OK, Staged_OK, Armed_OK, Uploading,
           NoPoll, Polls, Texts, Paths, Active, Terminal, memory, disk, service, mishaps, history,
           BusError, NotInstalling, Mark, Goto, Keep
<1>1. CASE UploadReserve
  <2>1. TypeOK'
    BY <1>1, SMTT(20) DEF UploadReserve
  <2>2. Guard_OK'
    BY <1>1, SMTT(20) DEF UploadReserve
  <2>3. Staged_OK'
    BY <1>1, SMTT(20) DEF UploadReserve
  <2>4. Armed_OK'
    BY <1>1, SMTT(20) DEF UploadReserve
  <2>5. Done_OK'
    BY <1>1, SMTT(20) DEF UploadReserve, Done_OK
  <2>6. Fit_OK'
    BY <1>1, SMTT(20) DEF UploadReserve, Done_OK, Fit_OK, ReadIdle,
       ReadError, NewError
  <2>. QED
    BY <2>1, <2>2, <2>3, <2>4, <2>5, <2>6
<1>2. CASE Request(p)
  <2>1. TypeOK'
    BY <1>2, SMTT(20) DEF Request
  <2>2. Guard_OK'
    BY <1>2, SMTT(20) DEF Request
  <2>3. Staged_OK'
    BY <1>2, SMTT(20) DEF Request
  <2>4. Armed_OK'
    BY <1>2, SMTT(20) DEF Request
  <2>5. Done_OK'
    BY <1>2, SMTT(20) DEF Request, Done_OK
  <2>6. Fit_OK'
    BY <1>2, SMTT(20) DEF Request, Done_OK, Fit_OK, ReadIdle,
       ReadError, NewError
  <2>. QED
    BY <2>1, <2>2, <2>3, <2>4, <2>5, <2>6
<1>3. CASE Acquire(p)
  <2>1. TypeOK'
    BY <1>3, SMTT(20) DEF Acquire
  <2>2. Guard_OK'
    BY <1>3, SMTT(20) DEF Acquire
  <2>3. Staged_OK'
    BY <1>3, SMTT(20) DEF Acquire
  <2>4. Armed_OK'
    BY <1>3, SMTT(20) DEF Acquire
  <2>5. Done_OK'
    BY <1>3, SMTT(20) DEF Acquire, Done_OK
  <2>6. Fit_OK'
    BY <1>3, SMTT(20) DEF Acquire, Done_OK, Fit_OK, ReadIdle,
       ReadError, NewError
  <2>. QED
    BY <2>1, <2>2, <2>3, <2>4, <2>5, <2>6
<1>. QED
  BY <1>1, <1>2, <1>3

(* The operation that holds the guard.                                     *)
LEMMA OperationStep ==
  ASSUME CInv, Operation
  PROVE  CInv'
<1>. USE ErrorsAssumption, LimitsAssumption
       DEF CInv, TypeOK, Guard_OK, Staged_OK, Armed_OK, Uploading,
           NoPoll, Polls, Texts, Paths, Active, Terminal, memory, disk, service, mishaps, history,
           BusError, NotInstalling, Mark, Goto, Keep
<1>1. CASE UploadCheck
  <2>1. TypeOK'
    BY <1>1, SMTT(20) DEF UploadCheck
  <2>2. Guard_OK'
    BY <1>1, SMTT(20) DEF UploadCheck
  <2>3. Staged_OK'
    BY <1>1, SMTT(20) DEF UploadCheck
  <2>4. Armed_OK'
    BY <1>1, SMTT(20) DEF UploadCheck
  <2>5. Done_OK'
    BY <1>1, SMTT(20) DEF UploadCheck, Done_OK
  <2>6. Fit_OK'
    BY <1>1, SMTT(20) DEF UploadCheck, Done_OK, Fit_OK, ReadIdle,
       ReadError, NewError
  <2>. QED
    BY <2>1, <2>2, <2>3, <2>4, <2>5, <2>6
<1>2. CASE UploadClear
  <2>1. TypeOK'
    BY <1>2, SMTT(20) DEF UploadClear
  <2>2. Guard_OK'
    BY <1>2, SMTT(20) DEF UploadClear
  <2>3. Staged_OK'
    BY <1>2, SMTT(20) DEF UploadClear
  <2>4. Armed_OK'
    BY <1>2, SMTT(20) DEF UploadClear
  <2>5. Done_OK'
    BY <1>2, SMTT(20) DEF UploadClear, Done_OK
  <2>6. Fit_OK'
    BY <1>2, SMTT(20) DEF UploadClear, Done_OK, Fit_OK, ReadIdle,
       ReadError, NewError
  <2>. QED
    BY <2>1, <2>2, <2>3, <2>4, <2>5, <2>6
<1>3. CASE UploadEnd
  <2>1. TypeOK'
    BY <1>3, SMTT(20) DEF UploadEnd
  <2>2. Guard_OK'
    BY <1>3, SMTT(20) DEF UploadEnd
  <2>3. Staged_OK'
    BY <1>3, SMTT(20) DEF UploadEnd
  <2>4. Armed_OK'
    BY <1>3, SMTT(20) DEF UploadEnd
  <2>5. Done_OK'
    BY <1>3, SMTT(20) DEF UploadEnd, Done_OK
  <2>6. Fit_OK'
    BY <1>3, SMTT(20) DEF UploadEnd, Done_OK, Fit_OK, ReadIdle,
       ReadError, NewError
  <2>. QED
    BY <2>1, <2>2, <2>3, <2>4, <2>5, <2>6
<1>4. CASE Begin
  <2>1. TypeOK'
    BY <1>4, SMTT(20) DEF Begin
  <2>2. Guard_OK'
    BY <1>4, SMTT(20) DEF Begin
  <2>3. Staged_OK'
    BY <1>4, SMTT(20) DEF Begin
  <2>4. Armed_OK'
    BY <1>4, SMTT(20) DEF Begin
  <2>5. Done_OK'
    BY <1>4, SMTT(20) DEF Begin, Done_OK
  <2>6. Fit_OK'
    BY <1>4, SMTT(20) DEF Begin, Done_OK, Fit_OK, ReadIdle,
       ReadError, NewError
  <2>. QED
    BY <2>1, <2>2, <2>3, <2>4, <2>5, <2>6
<1>5. CASE DownloadStart
  <2>1. TypeOK'
    BY <1>5, SMTT(20) DEF DownloadStart
  <2>2. Guard_OK'
    BY <1>5, SMTT(20) DEF DownloadStart
  <2>3. Staged_OK'
    BY <1>5, SMTT(20) DEF DownloadStart
  <2>4. Armed_OK'
    BY <1>5, SMTT(20) DEF DownloadStart
  <2>5. Done_OK'
    BY <1>5, SMTT(20) DEF DownloadStart, Done_OK
  <2>6. Fit_OK'
    BY <1>5, SMTT(20) DEF DownloadStart, Done_OK, Fit_OK, ReadIdle,
       ReadError, NewError
  <2>. QED
    BY <2>1, <2>2, <2>3, <2>4, <2>5, <2>6
<1>6. CASE DownloadEnd
  <2>1. TypeOK'
    BY <1>6, SMTT(20) DEF DownloadEnd
  <2>2. Guard_OK'
    BY <1>6, SMTT(20) DEF DownloadEnd
  <2>3. Staged_OK'
    BY <1>6, SMTT(20) DEF DownloadEnd
  <2>4. Armed_OK'
    BY <1>6, SMTT(20) DEF DownloadEnd
  <2>5. Done_OK'
    BY <1>6, SMTT(20) DEF DownloadEnd, Done_OK
  <2>6. Fit_OK'
    BY <1>6, SMTT(20) DEF DownloadEnd, Done_OK, Fit_OK, ReadIdle,
       ReadError, NewError
  <2>. QED
    BY <2>1, <2>2, <2>3, <2>4, <2>5, <2>6
<1>7. CASE Prepare
  <2>0. blind' \in BOOLEAN
    BY <1>7, Zenon DEF Prepare
  <2>1. TypeOK'
    BY <1>7, <2>0, SMTT(20) DEF Prepare
  <2>2. Guard_OK'
    BY <1>7, SMTT(20) DEF Prepare
  <2>3. Staged_OK'
    BY <1>7, SMTT(20) DEF Prepare
  <2>4. Armed_OK'
    BY <1>7, SMTT(20) DEF Prepare
  <2>5. Done_OK'
    BY <1>7, SMTT(20) DEF Prepare, Done_OK
  <2>6. Fit_OK'
    BY <1>7, SMTT(20) DEF Prepare, Done_OK, Fit_OK, ReadIdle,
       ReadError, NewError
  <2>. QED
    BY <2>1, <2>2, <2>3, <2>4, <2>5, <2>6
<1>8. CASE Ask
  <2>0. blind' \in BOOLEAN
    BY <1>8, Zenon DEF Ask
  <2>1. TypeOK'
    BY <1>8, <2>0, SMTT(20) DEF Ask
  <2>2. Guard_OK'
    BY <1>8, SMTT(20) DEF Ask
  <2>3. Staged_OK'
    BY <1>8, SMTT(20) DEF Ask
  <2>4. Armed_OK'
    BY <1>8, SMTT(20) DEF Ask
  <2>5. Done_OK'
    BY <1>8, SMTT(20) DEF Ask, Done_OK
  <2>6. Fit_OK'
    <3>1. CASE rauc' # rauc
      <4>1. blind' \/ (poll.pc = "idle" /\ marker.state = "installing")
        BY <1>8, <3>1, Zenon DEF Ask
      <4>2. rauc' = "opening" /\ UNCHANGED <<marker, poll, fit>>
        BY <1>8, <3>1 DEF Ask
      <4>3. Fit_OK
        OBVIOUS
      <4>. QED
        BY ONLY <4>1, <4>2, <4>3 DEF Fit_OK, ReadIdle, ReadError, NewError
    <3>2. CASE rauc' = rauc
      <4>1. UNCHANGED <<rauc, lastError, blind, marker, poll, fit>>
        BY <1>8, <3>2 DEF Ask
      <4>. QED
        BY <4>1 DEF Fit_OK, ReadIdle, ReadError, NewError
    <3>. QED
      BY <3>1, <3>2
  <2>. QED
    BY <2>1, <2>2, <2>3, <2>4, <2>5, <2>6
<1>9. CASE Completed
  <2>1. TypeOK'
    BY <1>9, SMTT(20) DEF Completed
  <2>2. Guard_OK'
    BY <1>9, SMTT(20) DEF Completed
  <2>3. Staged_OK'
    BY <1>9, SMTT(20) DEF Completed
  <2>4. Armed_OK'
    BY <1>9, SMTT(20) DEF Completed
  <2>5. Done_OK'
    BY <1>9, SMTT(20) DEF Completed, Done_OK
  <2>6. Fit_OK'
    BY <1>9, SMTT(20) DEF Completed, Done_OK, Fit_OK, ReadIdle,
       ReadError, NewError
  <2>. QED
    BY <2>1, <2>2, <2>3, <2>4, <2>5, <2>6
<1>10. CASE MarkReady
  <2>1. TypeOK'
    BY <1>10, SMTT(20) DEF MarkReady
  <2>2. Guard_OK'
    BY <1>10, SMTT(20) DEF MarkReady
  <2>3. Staged_OK'
    BY <1>10, SMTT(20) DEF MarkReady
  <2>4. Armed_OK'
    BY <1>10, SMTT(20) DEF MarkReady
  <2>5. Done_OK'
    BY <1>10, SMTT(20) DEF MarkReady, Done_OK
  <2>6. Fit_OK'
    BY <1>10, SMTT(20) DEF MarkReady, Done_OK, Fit_OK, ReadIdle,
       ReadError, NewError
  <2>. QED
    BY <2>1, <2>2, <2>3, <2>4, <2>5, <2>6
<1>11. CASE PublishReady
  <2>1. TypeOK'
    BY <1>11, SMTT(20) DEF PublishReady
  <2>2. Guard_OK'
    BY <1>11, SMTT(20) DEF PublishReady
  <2>3. Staged_OK'
    BY <1>11, SMTT(20) DEF PublishReady
  <2>4. Armed_OK'
    BY <1>11, SMTT(20) DEF PublishReady
  <2>5. Done_OK'
    BY <1>11, SMTT(20) DEF PublishReady, Done_OK
  <2>6. Fit_OK'
    BY <1>11, SMTT(20) DEF PublishReady, Done_OK, Fit_OK, ReadIdle,
       ReadError, NewError
  <2>. QED
    BY <2>1, <2>2, <2>3, <2>4, <2>5, <2>6
<1>12. CASE Clean
  <2>1. TypeOK'
    BY <1>12, SMTT(20) DEF Clean
  <2>2. Guard_OK'
    BY <1>12, SMTT(20) DEF Clean
  <2>3. Staged_OK'
    BY <1>12, SMTT(20) DEF Clean
  <2>4. Armed_OK'
    BY <1>12, SMTT(20) DEF Clean
  <2>5. Done_OK'
    BY <1>12, SMTT(20) DEF Clean, Done_OK
  <2>6. Fit_OK'
    BY <1>12, SMTT(20) DEF Clean, Done_OK, Fit_OK, ReadIdle,
       ReadError, NewError
  <2>. QED
    BY <2>1, <2>2, <2>3, <2>4, <2>5, <2>6
<1>13. CASE MarkFailed
  <2>1. TypeOK'
    BY <1>13, SMTT(20) DEF MarkFailed
  <2>2. Guard_OK'
    BY <1>13, SMTT(20) DEF MarkFailed
  <2>3. Staged_OK'
    BY <1>13, SMTT(20) DEF MarkFailed
  <2>4. Armed_OK'
    BY <1>13, SMTT(20) DEF MarkFailed
  <2>5. Done_OK'
    BY <1>13, SMTT(20) DEF MarkFailed, Done_OK
  <2>6. Fit_OK'
    BY <1>13, SMTT(20) DEF MarkFailed, Done_OK, Fit_OK, ReadIdle,
       ReadError, NewError
  <2>. QED
    BY <2>1, <2>2, <2>3, <2>4, <2>5, <2>6
<1>14. CASE PublishFailed
  <2>1. TypeOK'
    BY <1>14, SMTT(20) DEF PublishFailed
  <2>2. Guard_OK'
    BY <1>14, SMTT(20) DEF PublishFailed
  <2>3. Staged_OK'
    BY <1>14, SMTT(20) DEF PublishFailed
  <2>4. Armed_OK'
    BY <1>14, SMTT(20) DEF PublishFailed
  <2>5. Done_OK'
    BY <1>14, SMTT(20) DEF PublishFailed, Done_OK
  <2>6. Fit_OK'
    BY <1>14, SMTT(20) DEF PublishFailed, Done_OK, Fit_OK, ReadIdle,
       ReadError, NewError
  <2>. QED
    BY <2>1, <2>2, <2>3, <2>4, <2>5, <2>6
<1>15. CASE Release
  <2>1. TypeOK'
    BY <1>15, SMTT(20) DEF Release
  <2>2. Guard_OK'
    BY <1>15, SMTT(20) DEF Release
  <2>3. Staged_OK'
    BY <1>15, SMTT(20) DEF Release
  <2>4. Armed_OK'
    BY <1>15, SMTT(20) DEF Release
  <2>5. Done_OK'
    BY <1>15, SMTT(20) DEF Release, Done_OK
  <2>6. Fit_OK'
    BY <1>15, SMTT(20) DEF Release, Done_OK, Fit_OK, ReadIdle,
       ReadError, NewError
  <2>. QED
    BY <2>1, <2>2, <2>3, <2>4, <2>5, <2>6
<1>. QED
  BY <1>1, <1>2, <1>3, <1>4, <1>5, <1>6, <1>7, <1>8, <1>9, <1>10, <1>11, <1>12, <1>13, <1>14, <1>15 DEF Operation

(* RAUC, and restarts of the controller.                                   *)
LEMMA ServiceStep ==
  ASSUME CInv, RaucOpens \/ RaucSucceeds \/ RaucFails \/ RaucDies \/ Restart
  PROVE  CInv'
<1>. USE ErrorsAssumption, LimitsAssumption
       DEF CInv, TypeOK, Guard_OK, Staged_OK, Armed_OK, Uploading,
           NoPoll, Polls, Texts, Paths, Active, Terminal, memory, disk, service, mishaps, history,
           BusError, NotInstalling, Mark, Goto, Keep
<1>1. CASE RaucOpens
  <2>0. fit' \in BOOLEAN /\ blind' \in BOOLEAN
    BY <1>1 DEF RaucOpens
  <2>1. TypeOK'
    BY <1>1, <2>0, SMTT(20) DEF RaucOpens, RaucRest
  <2>2. Guard_OK'
    BY <1>1, SMTT(20) DEF RaucOpens, RaucRest
  <2>3. Staged_OK'
    BY <1>1, SMTT(20) DEF RaucOpens, RaucRest
  <2>4. Armed_OK'
    BY <1>1, SMTT(20) DEF RaucOpens, RaucRest
  <2>5. Done_OK'
    BY <1>1, SMTT(20) DEF RaucOpens, RaucRest, Done_OK
  <2>6. Fit_OK'
    BY <1>1, SMTT(20) DEF RaucOpens, RaucRest, Done_OK, Fit_OK, ReadIdle,
       ReadError, NewError
  <2>. QED
    BY <2>1, <2>2, <2>3, <2>4, <2>5, <2>6
<1>2. CASE RaucSucceeds
  <2>1. TypeOK'
    BY <1>2, SMTT(20) DEF RaucSucceeds, Complete, RaucRest
  <2>2. Guard_OK'
    BY <1>2, SMTT(20) DEF RaucSucceeds, Complete, RaucRest
  <2>3. Staged_OK'
    BY <1>2, SMTT(20) DEF RaucSucceeds, Complete, RaucRest
  <2>4. Armed_OK'
    BY <1>2, SMTT(20) DEF RaucSucceeds, Complete, RaucRest
  <2>5. Done_OK'
    BY <1>2, SMTT(20) DEF RaucSucceeds, Complete, RaucRest, Done_OK
  <2>6. Fit_OK'
    BY <1>2, SMTT(20) DEF RaucSucceeds, Complete, RaucRest, Done_OK, Fit_OK, ReadIdle,
       ReadError, NewError
  <2>. QED
    BY <2>1, <2>2, <2>3, <2>4, <2>5, <2>6
<1>3. CASE RaucFails
  <2>0. blind' \in BOOLEAN
    BY <1>3, Zenon DEF RaucFails, Complete, RaucRest
  <2>1. TypeOK'
    BY <1>3, <2>0, SMTT(20) DEF RaucFails, Complete, RaucRest
  <2>2. Guard_OK'
    BY <1>3, SMTT(20) DEF RaucFails, Complete, RaucRest
  <2>3. Staged_OK'
    BY <1>3, SMTT(20) DEF RaucFails, Complete, RaucRest
  <2>4. Armed_OK'
    BY <1>3, SMTT(20) DEF RaucFails, Complete, RaucRest
  <2>5. Done_OK'
    BY <1>3, SMTT(20) DEF RaucFails, Complete, RaucRest, Done_OK
  <2>6. Fit_OK'
    <3>1. blind' \/ (~blind /\ lastError' # marker.base /\ poll.pc = "idle")
      BY <1>3, Zenon DEF RaucFails
    <3>2. /\ rauc # "idle" /\ rauc' = "idle" /\ lastError' # NoError
          /\ UNCHANGED <<marker, poll, fit>>
      BY <1>3 DEF RaucFails, RaucRest
    <3>3. Fit_OK
      OBVIOUS
    <3>. QED
      BY ONLY <3>1, <3>2, <3>3 DEF Fit_OK, ReadIdle, ReadError, NewError
  <2>. QED
    BY <2>1, <2>2, <2>3, <2>4, <2>5, <2>6
<1>4. CASE RaucDies
  <2>1. TypeOK'
    BY <1>4, SMTT(20) DEF RaucDies, RaucRest
  <2>2. Guard_OK'
    BY <1>4, SMTT(20) DEF RaucDies, RaucRest
  <2>3. Staged_OK'
    BY <1>4, SMTT(20) DEF RaucDies, RaucRest
  <2>4. Armed_OK'
    BY <1>4, SMTT(20) DEF RaucDies, RaucRest
  <2>5. Done_OK'
    BY <1>4, SMTT(20) DEF RaucDies, RaucRest, Done_OK
  <2>6. Fit_OK'
    BY <1>4, SMTT(20) DEF RaucDies, RaucRest, Done_OK, Fit_OK, ReadIdle,
       ReadError, NewError
  <2>. QED
    BY <2>1, <2>2, <2>3, <2>4, <2>5, <2>6
<1>5. CASE Restart
  <2>1. TypeOK'
    BY <1>5, SMTT(20) DEF Restart
  <2>2. Guard_OK'
    BY <1>5, SMTT(20) DEF Restart
  <2>3. Staged_OK'
    BY <1>5, SMTT(20) DEF Restart
  <2>4. Armed_OK'
    BY <1>5, SMTT(20) DEF Restart
  <2>5. Done_OK'
    BY <1>5, SMTT(20) DEF Restart, Done_OK
  <2>6. Fit_OK'
    BY <1>5, SMTT(20) DEF Restart, Done_OK, Fit_OK, ReadIdle,
       ReadError, NewError
  <2>. QED
    BY <2>1, <2>2, <2>3, <2>4, <2>5, <2>6
<1>. QED
  BY <1>1, <1>2, <1>3, <1>4, <1>5

(* What a step of the poll makes of its record.                            *)
Read_OK == /\ poll \in Polls
           /\ poll.primary = "other" => armed
           /\ poll.verdict = "ready" => armed

LEMMA PollReads ==
  ASSUME CInv, PollStart \/ PollStep
  PROVE  Read_OK'
<1>. USE DEF Polls, Texts, NoPoll, PollRest, service, Answered, Read_OK
<1>0. /\ poll \in Polls /\ lastError \in Texts /\ armed' = armed
      /\ poll.verdict = "ready" => armed
      /\ poll.primary = "other" => armed
      /\ marker.state = "ready" => armed
  BY DEF CInv, TypeOK, Armed_OK, PollStep, PollStart, PollOp,
     PollObserve, PollObserved, PollError, PollPrimary, PollMarker, PollPersist,
     PollDelete
<1>1. NoPoll \in Polls
  OBVIOUS
<1>2. CASE PollStart
  BY <1>0, <1>1, <1>2 DEF PollStart
<1>3. CASE PollOp
  BY <1>0, <1>1, <1>3 DEF PollOp
<1>4. CASE PollObserve
  <2>1. CASE poll' = [poll EXCEPT !.pc = "observed", !.error = lastError]
    <3>1. poll' \in Polls
      BY <1>0, <2>1, Zenon
    <3>. QED
      BY <1>0, <2>1, <3>1
  <2>. QED
    BY <1>0, <1>1, <1>4, <2>1 DEF PollObserve
<1>5. CASE PollObserved
  BY <1>0, <1>1, <1>5 DEF PollObserved
<1>6. CASE PollError
  <2>1. CASE poll' = [poll EXCEPT !.pc = "primary", !.error = lastError]
    <3>1. poll' \in Polls
      BY <1>0, <2>1, Zenon
    <3>. QED
      BY <1>0, <2>1, <3>1
  <2>. QED
    BY <1>0, <1>6, <2>1 DEF PollError
<1>7. CASE PollPrimary
  <2>1. CASE poll' = [poll EXCEPT !.pc = "marker",
                                  !.primary = IF armed THEN "other" ELSE "booted"]
    <3>1. poll' \in Polls
      <4>1. (IF armed THEN "other" ELSE "booted") \in {"unknown", "booted", "other"}
        OBVIOUS
      <4>. QED
        BY <1>0, <2>1, <4>1, Zenon
    <3>. QED
      BY <1>0, <2>1, <3>1
  <2>. QED
    BY <1>0, <1>7, <2>1 DEF PollPrimary
<1>8. CASE PollMarker
  <2>1. Verdict \in {"none", "ready", "failed"} /\ (Verdict = "ready" => armed)
    BY <1>0 DEF Verdict, Terminal, CInv, TypeOK, Active
  <2>2. CASE poll' = [NoPoll EXCEPT !.pc = "persist", !.verdict = Verdict]
    <3>1. poll' \in Polls
      BY <1>1, <2>1, <2>2, Zenon
    <3>. QED
      BY <1>0, <2>1, <2>2, <3>1
  <2>. QED
    BY <1>0, <1>1, <1>8, <2>1, <2>2 DEF PollMarker
<1>9. CASE PollPersist \/ PollDelete
  BY <1>0, <1>9 DEF PollPersist, PollDelete
<1>. QED
  BY <1>2, <1>3, <1>4, <1>5, <1>6, <1>7, <1>8, <1>9 DEF PollStep

(* What each step of the poll makes of where it stands.                    *)
LEMMA PollShape ==
  ASSUME poll \in Polls,
         poll.verdict # "none" => poll.pc = "persist",
         poll.primary = "other" => poll.pc = "marker"
  PROVE  /\ PollObserve => /\ poll'.pc \in {"idle", "observed"}
                           /\ poll.pc = "observe"
                           /\ poll'.primary # "other" /\ poll'.verdict = "none"
         /\ PollError => /\ poll.pc = "error" /\ poll'.pc = "primary"
                         /\ poll'.primary # "other" /\ poll'.verdict = "none"
                         /\ blind' \/ (UNCHANGED blind /\ poll'.error = lastError)
         /\ PollPrimary => /\ poll.pc = "primary" /\ poll'.pc = "marker"
                           /\ poll'.error = poll.error /\ poll'.verdict = "none"
         /\ PollMarker => /\ poll.pc = "marker" /\ poll'.pc \in {"idle", "persist"}
                          /\ poll'.primary # "other"
                          /\ poll'.verdict # "none" =>
                               poll'.pc = "persist" /\ poll'.verdict = Verdict
<1>. USE DEF Polls, NoPoll, Answered
<1>1. PollObserve => /\ poll'.pc \in {"idle", "observed"} /\ poll.pc = "observe"
                     /\ poll'.primary # "other" /\ poll'.verdict = "none"
  <2>1. NoPoll.pc = "idle" /\ NoPoll.primary = "unknown" /\ NoPoll.verdict = "none"
    OBVIOUS
  <2>2. CASE poll' = [poll EXCEPT !.pc = "observed", !.error = lastError]
    BY <2>2 DEF PollObserve
  <2>3. CASE poll' = NoPoll
    BY ONLY <2>1, <2>3, Zenon DEF PollObserve
  <2>. QED
    BY <2>2, <2>3 DEF PollObserve
<1>2. PollError => /\ poll.pc = "error" /\ poll'.pc = "primary"
                   /\ poll'.primary # "other" /\ poll'.verdict = "none"
  BY DEF PollError
<1>3. PollError => blind' \/ (UNCHANGED blind /\ poll'.error = lastError)
  BY DEF PollError
<1>4. PollPrimary => /\ poll.pc = "primary" /\ poll'.pc = "marker"
                     /\ poll'.error = poll.error /\ poll'.verdict = "none"
  BY DEF PollPrimary
<1>5. PollMarker => /\ poll.pc = "marker" /\ poll'.pc \in {"idle", "persist"}
                    /\ poll'.primary # "other"
                    /\ poll'.verdict # "none" =>
                         poll'.pc = "persist" /\ poll'.verdict = Verdict
  <2>1. CASE poll' = [NoPoll EXCEPT !.pc = "persist", !.verdict = Verdict]
    BY <2>1 DEF PollMarker
  <2>2. CASE poll' = NoPoll
    BY <2>2 DEF PollMarker
  <2>. QED
    BY <2>1, <2>2 DEF PollMarker
<1>. QED
  BY <1>1, <1>2, <1>3, <1>4, <1>5

(* The status poll.                                                        *)
LEMMA PollKeeps ==
  ASSUME CInv, PollStart \/ PollStep
  PROVE  CInv'
<1>. USE ErrorsAssumption, LimitsAssumption
       DEF CInv, TypeOK, Guard_OK, Staged_OK, Armed_OK, Uploading,
           Texts, Paths, Active, Terminal, memory, disk, service, mishaps, history,
           BusError, Mark, PollRest
<1>0. Read_OK'
  BY PollReads
<1>. USE <1>0 DEF Read_OK
<1>1. CASE PollStart
  <2>1. TypeOK'
    BY <1>1, SMTT(20) DEF PollStart
  <2>2. Guard_OK'
    BY <1>1, SMTT(20) DEF PollStart
  <2>3. Staged_OK'
    BY <1>1, SMTT(20) DEF PollStart
  <2>4. Armed_OK'
    BY <1>1, SMTT(20) DEF PollStart
  <2>5. Done_OK'
    BY <1>1, SMTT(20) DEF PollStart, Done_OK
  <2>6. Fit_OK'
    BY <1>1, SMTT(20) DEF PollStart, Polls, NoPoll, Answered, Fit_OK, ReadIdle, ReadError,
       ReadError, NewError
  <2>. QED
    BY <2>1, <2>2, <2>3, <2>4, <2>5, <2>6
<1>2. CASE PollOp
  <2>1. TypeOK'
    BY <1>2, SMTT(20) DEF PollOp
  <2>2. Guard_OK'
    BY <1>2, SMTT(20) DEF PollOp
  <2>3. Staged_OK'
    BY <1>2, SMTT(20) DEF PollOp
  <2>4. Armed_OK'
    BY <1>2, SMTT(20) DEF PollOp
  <2>5. Done_OK'
    BY <1>2, SMTT(20) DEF PollOp, Done_OK
  <2>6. Fit_OK'
    BY <1>2, SMTT(20) DEF PollOp, Polls, NoPoll, Answered, Fit_OK, ReadIdle, ReadError,
       ReadError, NewError
  <2>. QED
    BY <2>1, <2>2, <2>3, <2>4, <2>5, <2>6
<1>3. CASE PollObserve
  <2>1. TypeOK'
    BY <1>3, SMTT(20) DEF PollObserve
  <2>2. Guard_OK'
    BY <1>3, SMTT(20) DEF PollObserve
  <2>3. Staged_OK'
    BY <1>3, SMTT(20) DEF PollObserve
  <2>4. Armed_OK'
    BY <1>3, SMTT(20) DEF PollObserve
  <2>5. Done_OK'
    BY <1>3, SMTT(20) DEF PollObserve, Done_OK
  <2>6. Fit_OK'
    <3>1. Fit_OK /\ UNCHANGED <<rauc, lastError, marker, fit, blind>>
      BY <1>3 DEF PollObserve, PollRest
    <3>2. poll \in Polls
      OBVIOUS
    <3>4. /\ poll'.pc \in {"idle", "observed"} /\ poll.pc = "observe"
          /\ poll'.primary # "other" /\ poll'.verdict = "none"
      BY <1>3, <3>1, <3>2, PollShape DEF Fit_OK
    <3>. QED
      BY ONLY <3>1, <3>4 DEF Fit_OK, ReadIdle, ReadError, NewError
  <2>. QED
    BY <2>1, <2>2, <2>3, <2>4, <2>5, <2>6
<1>4. CASE PollObserved
  <2>1. TypeOK'
    BY <1>4, SMTT(20) DEF PollObserved, Polls
  <2>2. Guard_OK'
    BY <1>4, SMTT(20) DEF PollObserved, Polls
  <2>3. Staged_OK'
    BY <1>4, SMTT(20) DEF PollObserved, Polls
  <2>4. Armed_OK'
    BY <1>4, SMTT(20) DEF PollObserved, Polls
  <2>5. Done_OK'
    BY <1>4, SMTT(20) DEF PollObserved, Polls, Done_OK
  <2>6. Fit_OK'
    BY <1>4, SMTT(20) DEF PollObserved, Polls, NoPoll, Answered, Fit_OK, ReadIdle, ReadError,
       ReadError, NewError
  <2>. QED
    BY <2>1, <2>2, <2>3, <2>4, <2>5, <2>6
<1>5. CASE PollError
  <2>0. blind' \in BOOLEAN
    BY <1>5, Zenon DEF PollError
  <2>1. TypeOK'
    BY <1>5, <2>0, SMTT(20) DEF PollError
  <2>2. Guard_OK'
    BY <1>5, SMTT(20) DEF PollError
  <2>3. Staged_OK'
    BY <1>5, SMTT(20) DEF PollError
  <2>4. Armed_OK'
    BY <1>5, SMTT(20) DEF PollError
  <2>5. Done_OK'
    BY <1>5, SMTT(20) DEF PollError, Done_OK
  <2>6. Fit_OK'
    <3>1. Fit_OK /\ UNCHANGED <<rauc, lastError, marker, fit>>
      BY <1>5 DEF PollError, PollRest
    <3>2. poll \in Polls
      OBVIOUS
    <3>4. /\ poll.pc = "error" /\ poll'.pc = "primary"
          /\ poll'.primary # "other" /\ poll'.verdict = "none"
          /\ blind' \/ (UNCHANGED blind /\ poll'.error = lastError)
      BY <1>5, <3>1, <3>2, PollShape DEF Fit_OK
    <3>. QED
      BY ONLY <3>1, <3>4 DEF Fit_OK, ReadIdle, ReadError, NewError
  <2>. QED
    BY <2>1, <2>2, <2>3, <2>4, <2>5, <2>6
<1>6. CASE PollPrimary
  <2>1. TypeOK'
    BY <1>6, SMTT(20) DEF PollPrimary
  <2>2. Guard_OK'
    BY <1>6, SMTT(20) DEF PollPrimary
  <2>3. Staged_OK'
    BY <1>6, SMTT(20) DEF PollPrimary
  <2>4. Armed_OK'
    BY <1>6, SMTT(20) DEF PollPrimary
  <2>5. Done_OK'
    BY <1>6, SMTT(20) DEF PollPrimary, Done_OK
  <2>6. Fit_OK'
    <3>1. Fit_OK /\ UNCHANGED <<rauc, lastError, marker, fit, blind>>
      BY <1>6 DEF PollPrimary, PollRest
    <3>2. poll \in Polls
      OBVIOUS
    <3>4. /\ poll.pc = "primary" /\ poll'.pc = "marker"
          /\ poll'.error = poll.error /\ poll'.verdict = "none"
      BY <1>6, <3>1, <3>2, PollShape DEF Fit_OK
    <3>. QED
      BY ONLY <3>1, <3>4 DEF Fit_OK, ReadIdle, ReadError, NewError
  <2>. QED
    BY <2>1, <2>2, <2>3, <2>4, <2>5, <2>6
<1>7. CASE PollMarker
  <2>1. TypeOK'
    BY <1>7, SMTT(20) DEF PollMarker
  <2>2. Guard_OK'
    BY <1>7, SMTT(20) DEF PollMarker
  <2>3. Staged_OK'
    BY <1>7, SMTT(20) DEF PollMarker
  <2>4. Armed_OK'
    BY <1>7, SMTT(20) DEF PollMarker
  <2>5. Done_OK'
    BY <1>7, SMTT(20) DEF PollMarker, Done_OK
  <2>6. Fit_OK'
    <3>1. Fit_OK /\ UNCHANGED <<rauc, lastError, marker, fit, blind>>
      BY <1>7 DEF PollMarker, PollRest
    <3>2. poll \in Polls
      OBVIOUS
    <3>4. /\ poll.pc = "marker" /\ poll'.pc \in {"idle", "persist"}
          /\ poll'.primary # "other"
          /\ poll'.verdict # "none" =>
               poll'.pc = "persist" /\ poll'.verdict = Verdict
      BY <1>7, <3>1, <3>2, PollShape DEF Fit_OK
    <3>3. Verdict = "ready" =>
            \/ marker.state = "ready"
            \/ marker.state = "installing" /\ ~NewError /\ poll.primary = "other"
      BY DEF Verdict
    <3>. QED
      BY ONLY <3>1, <3>4, <3>3 DEF Fit_OK, ReadIdle, ReadError, NewError
  <2>. QED
    BY <2>1, <2>2, <2>3, <2>4, <2>5, <2>6
<1>8. CASE PollPersist
  <2>1. TypeOK'
    BY <1>8, SMTT(20) DEF PollPersist, Polls
  <2>2. Guard_OK'
    BY <1>8, SMTT(20) DEF PollPersist, Polls
  <2>3. Staged_OK'
    BY <1>8, SMTT(20) DEF PollPersist, Polls
  <2>4. Armed_OK'
    BY <1>8, SMTT(20) DEF PollPersist, Polls
  <2>5. Done_OK'
    BY <1>8, SMTT(20) DEF PollPersist, Polls, Done_OK
  <2>6. Fit_OK'
    BY <1>8, SMTT(20) DEF PollPersist, Polls, NoPoll, Answered, Fit_OK, ReadIdle, ReadError,
       ReadError, NewError
  <2>. QED
    BY <2>1, <2>2, <2>3, <2>4, <2>5, <2>6
<1>9. CASE PollDelete
  <2>1. TypeOK'
    BY <1>9, SMTT(20) DEF PollDelete
  <2>2. Guard_OK'
    BY <1>9, SMTT(20) DEF PollDelete
  <2>3. Staged_OK'
    BY <1>9, SMTT(20) DEF PollDelete
  <2>4. Armed_OK'
    BY <1>9, SMTT(20) DEF PollDelete
  <2>5. Done_OK'
    BY <1>9, SMTT(20) DEF PollDelete, Done_OK
  <2>6. Fit_OK'
    BY <1>9, SMTT(20) DEF PollDelete, Polls, NoPoll, Answered, Fit_OK, ReadIdle, ReadError,
       ReadError, NewError
  <2>. QED
    BY <2>1, <2>2, <2>3, <2>4, <2>5, <2>6
<1>. QED
  BY <1>1, <1>2, <1>3, <1>4, <1>5, <1>6, <1>7, <1>8, <1>9 DEF PollStep

LEMMA InvStep == CInv /\ [Next]_vars => CInv'
<1>. SUFFICES ASSUME CInv, [Next]_vars PROVE CInv'
  OBVIOUS
<1>1. ASSUME NEW p \in Paths, UploadReserve \/ Request(p) \/ Acquire(p)
      PROVE  CInv'
  BY <1>1, RequestStep
<1>2. CASE Operation
  BY <1>2, OperationStep
<1>3. CASE RaucOpens \/ RaucSucceeds \/ RaucFails \/ RaucDies \/ Restart
  BY <1>3, ServiceStep
<1>4. CASE PollStart \/ PollStep
  BY <1>4, PollKeeps
<1>5. CASE UNCHANGED vars
  BY <1>5 DEF vars, memory, disk, service, mishaps, history, CInv, TypeOK, Guard_OK,
     Staged_OK, Armed_OK, Done_OK, Fit_OK, ReadIdle, ReadError, NewError
<1>6. "upload" \in Paths
  BY DEF Paths
<1>. QED
  BY <1>1, <1>2, <1>3, <1>4, <1>5, <1>6 DEF Next

(* The invariant holds whatever is uploaded, installed, polled or killed.  *)
THEOREM CoordinatorInvariant == Spec => []CInv
BY InvInit, InvStep, PTL DEF Spec

-----------------------------------------------------------------------------
(* Type correctness: a recovery marker always has its baseline, and the    *)
(* guard, the phase and the poll are in one of their states.               *)
THEOREM CoordinatorTyped == Spec => []TypeOK
<1>1. CInv => TypeOK
  BY DEF CInv
<1>. QED
  BY <1>1, CoordinatorInvariant, PTL

(* update.rs:737-739, 864-880: no reboot is offered into a slot that was   *)
(* not armed, nor into one left half written by an installation whose end  *)
(* RAUC's error tells from a success; see ReadyIsArmed for the others.     *)
THEOREM NoFalseReady == Spec => []ReadyIsArmed
<1>1. CInv => ReadyIsArmed
  BY DEF CInv, Armed_OK, Done_OK, Fit_OK, ReadyIsArmed
<1>. QED
  BY <1>1, CoordinatorInvariant, PTL

(* routes.rs:1164: what RAUC finds under a staging name is never a bundle  *)
(* whose stream broke off.                                                 *)
THEOREM NoCutBundle == Spec => []OnlyWholeBundles
<1>1. CInv => OnlyWholeBundles
  BY DEF CInv, TypeOK, Staged_OK, OnlyWholeBundles
<1>. QED
  BY <1>1, CoordinatorInvariant, PTL

(* update.rs:168, routes.rs:1080: as long as no call on the bus has failed *)
(* RAUC is idle whenever an installation is asked of it, although requests *)
(* pass their checks before the guard and a restart loses it.              *)
THEOREM OneAtATime == Spec => []OneInstallation
<1>1. CInv => OneInstallation
  BY DEF CInv, Guard_OK, Uploading, OneInstallation
<1>. QED
  BY <1>1, CoordinatorInvariant, PTL
=============================================================================
