------------------------- MODULE NetworkSetupProofs -------------------------
(***************************************************************************)
(* What a scan shows (network.rs:389), for every list of beacons: the fold *)
(* over the lines, the map and the sort come to the strongest beacon of    *)
(* each name, once, the strongest first.                                   *)
(***************************************************************************)
EXTENDS NetworkSetup, FiniteSetTheorems, TLAPS

Beacon == [ssid : STRING, signal : Int, flags : SUBSET STRING]
Beacons == Seq(Beacon)

LEMMA BeaconsTyped ==
  ASSUME NEW beacons \in Beacons
  PROVE  /\ Len(beacons) \in Nat /\ DOMAIN beacons = 1..Len(beacons)
         /\ \A k \in 1..Len(beacons) :
              beacons[k].ssid \in STRING /\ beacons[k].signal \in Int
<1>1. /\ Len(beacons) \in Nat /\ DOMAIN beacons = 1..Len(beacons)
      /\ \A k \in 1..Len(beacons) : beacons[k] \in Beacon
  BY DEF Beacons
<1>. QED
  BY <1>1 DEF Beacon

(* A property of numbers that fails somewhere fails somewhere first.       *)
LEMMA LeastNat ==
  ASSUME NEW T, T \subseteq Nat, T # {}
  PROVE  \E n \in T : \A m \in T : n <= m
<1>. DEFINE Below == {s \in Nat \X Nat : s[1] < s[2]}
<1>1. IsWellFoundedOn(Below, Nat)
  BY NatLessThanWellFounded DEF OpToRel
<1>2. PICK n \in T : \A m \in T : <<m, n>> \notin Below
  BY <1>1, WFMin
<1>3. \A m \in T : ~(m < n)
  BY <1>2
<1>. QED
  BY <1>3

-----------------------------------------------------------------------------
(* The equation that defines the fold over the first n beacons.            *)
Fold(beacons, n, best) ==
  best = [i \in 0..n |-> IF i = 0 THEN [s \in {} |-> None]
                                  ELSE Heard(best[i - 1], beacons[i])]

(* It has a solution: one for a beacon less can be continued.              *)
LEMMA FoldExists ==
  ASSUME NEW beacons \in Beacons, NEW n \in Nat
  PROVE  \E best : Fold(beacons, n, best)
<1>. DEFINE Bad == {k \in Nat : ~\E best : Fold(beacons, k, best)}
<1>. SUFFICES ASSUME Bad # {} PROVE FALSE
  OBVIOUS
<1>1. PICK k \in Bad : \A m \in Bad : k <= m
  BY LeastNat
<1>2. CASE k = 0
  <2>. DEFINE best == [i \in 0..0 |-> [s \in {} |-> None]]
  <2>1. Fold(beacons, 0, best)
    BY DEF Fold
  <2>. QED
    BY <1>2, <2>1
<1>3. CASE k > 0
  <2>1. k - 1 \in Nat /\ k - 1 \notin Bad
    BY <1>1, <1>3
  <2>2. PICK old : Fold(beacons, k - 1, old)
    BY <2>1
  <2>. DEFINE best == [i \in 0..k |-> IF i = k THEN Heard(old[k - 1], beacons[k])
                                               ELSE old[i]]
              next == [i \in 0..k |-> IF i = 0 THEN [s \in {} |-> None]
                                      ELSE Heard(best[i - 1], beacons[i])]
  <2>3. ASSUME NEW i \in 0..k PROVE best[i] = next[i]
    <3>1. CASE i = k
      BY <1>3, <2>1, <3>1
    <3>2. CASE i # k
      <4>1. i \in 0..(k - 1) /\ best[i] = old[i] /\ (i # 0 => best[i - 1] = old[i - 1])
        BY <2>1, <3>2
      <4>. QED
        BY <2>2, <3>2, <4>1 DEF Fold
    <3>. QED
      BY <3>1, <3>2
  <2>4. best = next
    BY <2>3
  <2>5. Fold(beacons, k, best)
    BY <2>4 DEF Fold
  <2>. QED
    BY <2>5
<1>. QED
  BY <1>1, <1>2, <1>3

(* After i beacons: an entry for each name heard, of its strongest beacon. *)
Strongest(beacons, i, best) ==
  /\ DOMAIN best = {beacons[k].ssid : k \in 1..i} \ {""}
  /\ \A s \in DOMAIN best :
       /\ \A k \in 1..i : beacons[k].ssid = s => beacons[k].signal <= best[s].signal
       /\ \E k \in 1..i : beacons[k].ssid = s /\ best[s] = Entry(beacons[k])

(* One more beacon keeps it so.                                            *)
LEMMA HeardStrongest ==
  ASSUME NEW beacons \in Beacons, NEW i \in 1..Len(beacons), NEW best,
         Strongest(beacons, i - 1, best)
  PROVE  Strongest(beacons, i, Heard(best, beacons[i]))
<1>. DEFINE b == beacons[i]
<1>1. i \in Nat /\ \A k : k \in 1..i <=> k \in 1..(i - 1) \/ k = i
  BY BeaconsTyped
<1>0. \A k : Entry(beacons[k]).signal = beacons[k].signal
  BY DEF Entry
<1>2. \A k \in 1..i : beacons[k].signal \in Int
  BY <1>1, BeaconsTyped
<1>3. ASSUME NEW s \in DOMAIN best PROVE best[s].signal \in Int
  <2>1. PICK k \in 1..(i - 1) : best[s] = Entry(beacons[k])
    BY DEF Strongest
  <2>. QED
    BY <1>1, <1>2, <1>0, <2>1
<1>4. CASE b.ssid = ""
  BY <1>1, <1>4 DEF Strongest, Heard
<1>5. CASE b.ssid # "" /\ b.ssid \in DOMAIN best /\ b.signal <= best[b.ssid].signal
  BY <1>1, <1>5 DEF Strongest, Heard
<1>6. CASE /\ b.ssid # ""
           /\ b.ssid \in DOMAIN best => ~(b.signal <= best[b.ssid].signal)
  <2>. DEFINE new == Noted(best, b)
  <2>1. Heard(best, b) = new
    BY <1>6 DEF Heard
  <2>2. /\ DOMAIN new = DOMAIN best \cup {b.ssid}
        /\ new[b.ssid] = Entry(b)
        /\ \A s \in DOMAIN best \ {b.ssid} : new[s] = best[s]
    BY DEF Noted
  <2>3. Entry(b).signal = b.signal
    BY <1>0
  <2>. HIDE DEF new
  <2>4. DOMAIN new = {beacons[k].ssid : k \in 1..i} \ {""}
    <3>1. DOMAIN best = {beacons[k].ssid : k \in 1..(i - 1)} \ {""}
      BY DEF Strongest
    <3>2. {beacons[k].ssid : k \in 1..i}
          = {beacons[k].ssid : k \in 1..(i - 1)} \cup {b.ssid}
      BY <1>1
    <3>. QED
      BY <1>6, <2>2, <3>1, <3>2
  <2>5. ASSUME NEW s \in DOMAIN new
        PROVE  /\ \A k \in 1..i : beacons[k].ssid = s => beacons[k].signal <= new[s].signal
               /\ \E k \in 1..i : beacons[k].ssid = s /\ new[s] = Entry(beacons[k])
    <3>1. CASE s = b.ssid
      <4>1. \A k \in 1..(i - 1) : beacons[k].ssid = s => beacons[k].signal <= b.signal
        <5>. SUFFICES ASSUME NEW k \in 1..(i - 1), beacons[k].ssid = s
                      PROVE  beacons[k].signal <= b.signal
          OBVIOUS
        <5>0. s \in {beacons[m].ssid : m \in 1..(i - 1)} \ {""}
          BY <1>6, <3>1
        <5>1. s \in DOMAIN best /\ beacons[k].signal <= best[s].signal
          BY <5>0 DEF Strongest
        <5>2. b.signal \in Int /\ beacons[k].signal \in Int /\ best[s].signal \in Int
          BY <1>1, <1>2, <1>3, <5>1
        <5>3. ~(b.signal <= best[s].signal)
          BY <1>6, <3>1, <5>1
        <5>. QED
          BY <5>1, <5>2, <5>3
      <4>. QED
        BY <1>1, <1>2, <2>2, <2>3, <3>1, <4>1
    <3>2. CASE s # b.ssid
      BY <1>1, <2>2, <3>2 DEF Strongest
    <3>. QED
      BY <3>1, <3>2
  <2>. QED
    BY <2>1, <2>4, <2>5 DEF Strongest
<1>. QED
  BY <1>4, <1>5, <1>6

(* So the map holds the strongest beacon of every name.                    *)
LEMMA BestStrongest ==
  ASSUME NEW beacons \in Beacons
  PROVE  Strongest(beacons, Len(beacons), Best(beacons))
<1>. DEFINE n == Len(beacons)
            f == CHOOSE best : Fold(beacons, n, best)
<1>1. n \in Nat
  BY BeaconsTyped
<1>2. Best(beacons) = f[n]
  BY DEF Best, Fold
<1>. HIDE DEF n, f
<1>3. Fold(beacons, n, f)
  BY <1>1, FoldExists DEF f
<1>. DEFINE Bad == {i \in 0..n : ~Strongest(beacons, i, f[i])}
<1>4. ASSUME Bad # {} PROVE FALSE
  <2>1. PICK i \in Bad : \A m \in Bad : i <= m
    <3>1. Bad \subseteq Nat
      BY <1>1
    <3>. HIDE DEF Bad
    <3>. QED
      BY <1>4, <3>1, LeastNat
  <2>2. CASE i = 0
    <3>1. f[i] = [s \in {} |-> None]
      BY <1>1, <1>3, <2>2 DEF Fold
    <3>2. DOMAIN f[i] = {} /\ 1..i = {}
      BY <2>2, <3>1
    <3>3. Strongest(beacons, i, f[i])
      BY <3>2 DEF Strongest
    <3>. QED
      BY <2>1, <3>3
  <2>3. CASE i # 0
    <3>1. i \in 1..n /\ i - 1 \in 0..n /\ i - 1 \notin Bad
      BY <1>1, <2>1, <2>3
    <3>2. f[i] = Heard(f[i - 1], beacons[i])
      BY <1>3, <2>3, <3>1 DEF Fold
    <3>. QED
      BY <2>1, <3>1, <3>2, HeardStrongest DEF n
  <2>. QED
    BY <2>2, <2>3
<1>5. Strongest(beacons, n, f[n])
  BY <1>1, <1>4
<1>. QED
  BY <1>2, <1>5 DEF n

-----------------------------------------------------------------------------
(* A list without repetitions that is as long as a set is large has all of *)
(* the set.                                                                *)
LEMMA ListsAreComplete ==
  ASSUME NEW S, IsFiniteSet(S), NEW list \in SetToSeqs(S)
  PROVE  /\ DOMAIN list = 1..Cardinality(S)
         /\ ToSet(list) = S
         /\ \A i, j \in DOMAIN list : i # j => list[i] # list[j]
<1>. DEFINE D == 1..Cardinality(S)
<1>1. list \in [D -> S] /\ \A i, j \in D : i # j => list[i] # list[j]
  BY DEF SetToSeqs
<1>2. Cardinality(S) \in Nat
  BY FS_CardinalityType
<1>3. Cardinality(D) = Cardinality(S)
  BY <1>2, FS_Interval
<1>4. list \in Injection(D, S)
  BY <1>1 DEF Injection, IsInjective
<1>5. list \in Surjection(D, S)
  BY <1>3, <1>4, FS_Injection
<1>6. \A x \in S : \E i \in D : list[i] = x
  BY <1>5 DEF Surjection
<1>. QED
  BY <1>1, <1>6 DEF ToSet

(* What a function makes of a finite set is finite.                        *)
LEMMA ImageFinite ==
  ASSUME NEW S, IsFiniteSet(S), NEW f
  PROVE  IsFiniteSet({f[x] : x \in S})
<1>. DEFINE T == {f[x] : x \in S}
            g == [x \in S |-> f[x]]
<1>1. g \in Surjection(S, T)
  BY DEF Surjection
<1>. QED
  BY <1>1, FS_Surjection

(* What StrongestShown says of a list.                                     *)
Fits(heard, list) ==
  /\ {n.ssid : n \in ToSet(list)} = {b.ssid : b \in ToSet(heard)} \ {""}
  /\ \A i, j \in DOMAIN list : i < j =>
       list[i].ssid # list[j].ssid /\ list[i].signal >= list[j].signal
  /\ \A n \in ToSet(list) :
       /\ \A b \in ToSet(heard) : b.ssid = n.ssid => b.signal <= n.signal
       /\ \E b \in ToSet(heard) : /\ b.ssid = n.ssid /\ b.signal = n.signal
                                  /\ Security(b.flags) = n.security

(* Whichever of its results a scan shows, it fits what was heard.          *)
LEMMA ResultsFit ==
  ASSUME NEW heard \in Beacons, NEW list \in ScanResults(heard)
  PROVE  Fits(heard, list)
<1>. DEFINE best == Best(heard)
            names == {heard[k].ssid : k \in 1..Len(heard)}
            networks == {best[s] : s \in DOMAIN best}
<1>1. Strongest(heard, Len(heard), best)
  BY BestStrongest
<1>2. Len(heard) \in Nat /\ DOMAIN heard = 1..Len(heard)
  BY BeaconsTyped
<1>3. list \in SetToSeqs(networks)
      /\ \A i, j \in DOMAIN list : i < j => list[i].signal >= list[j].signal
  BY DEF ScanResults
<1>. HIDE DEF best
<1>4. IsFiniteSet(networks)
  <2>1. IsFiniteSet(1..Len(heard))
    BY <1>2, FS_Interval
  <2>2. IsFiniteSet(names)
    <3>. DEFINE f == [k \in 1..Len(heard) |-> heard[k].ssid]
    <3>1. names = {f[k] : k \in 1..Len(heard)}
      OBVIOUS
    <3>. HIDE DEF f
    <3>. QED
      BY <2>1, <3>1, ImageFinite
  <2>3. IsFiniteSet(DOMAIN best)
    BY <1>1, <2>2, FS_Subset DEF Strongest
  <2>. QED
    BY <2>3, ImageFinite
<1>5. /\ ToSet(list) = networks /\ DOMAIN list \subseteq Int
      /\ \A i, j \in DOMAIN list : i # j => list[i] # list[j]
  BY <1>3, <1>4, ListsAreComplete, FS_CardinalityType
<1>6. \A s \in DOMAIN best : best[s].ssid = s
  <2>1. \A k \in 1..Len(heard) : Entry(heard[k]).ssid = heard[k].ssid
    BY DEF Entry
  <2>. QED
    BY <1>1, <2>1 DEF Strongest
<1>7. {n.ssid : n \in ToSet(list)} = {b.ssid : b \in ToSet(heard)} \ {""}
  <2>1. {n.ssid : n \in networks} = DOMAIN best
    BY <1>6
  <2>2. {b.ssid : b \in ToSet(heard)} = names
    BY <1>2 DEF ToSet
  <2>. QED
    BY <1>1, <1>5, <2>1, <2>2 DEF Strongest
<1>8. ASSUME NEW i \in DOMAIN list, NEW j \in DOMAIN list, i < j
      PROVE  list[i].ssid # list[j].ssid /\ list[i].signal >= list[j].signal
  <2>1. list[i] \in networks /\ list[j] \in networks
    BY <1>5 DEF ToSet
  <2>2. list[i] # list[j]
    <3>1. i # j
      BY <1>2, <1>8, <1>5
    <3>. QED
      BY <1>5, <3>1
  <2>. QED
    BY <1>3, <1>6, <1>8, <2>1, <2>2
<1>9. ASSUME NEW n \in ToSet(list)
      PROVE /\ \A b \in ToSet(heard) : b.ssid = n.ssid => b.signal <= n.signal
            /\ \E b \in ToSet(heard) : /\ b.ssid = n.ssid /\ b.signal = n.signal
                                       /\ Security(b.flags) = n.security
  <2>1. PICK s \in DOMAIN best : n = best[s] /\ n.ssid = s
    BY <1>5, <1>6, <1>9
  <2>2. PICK k \in 1..Len(heard) : heard[k].ssid = s /\ best[s] = Entry(heard[k])
    BY <1>1 DEF Strongest
  <2>3. Entry(heard[k]).signal = heard[k].signal
        /\ Entry(heard[k]).security = Security(heard[k].flags)
    BY DEF Entry
  <2>4. heard[k] \in ToSet(heard)
    BY <1>2, <2>2 DEF ToSet
  <2>5. \A b \in ToSet(heard) : \E j \in 1..Len(heard) : b = heard[j]
    BY <1>2 DEF ToSet
  <2>6. \A j \in 1..Len(heard) : heard[j].ssid = s => heard[j].signal <= n.signal
    BY <1>1, <2>1 DEF Strongest
  <2>7. \A b \in ToSet(heard) : b.ssid = n.ssid => b.signal <= n.signal
    BY <2>1, <2>5, <2>6
  <2>. QED
    BY <2>1, <2>2, <2>3, <2>4, <2>7
<1>. QED
  BY <1>7, <1>8, <1>9 DEF Fits

-----------------------------------------------------------------------------
(* What is shown is a result of a scan that was heard.                     *)
Scanned ==
  shown = None \/ (shown.heard \in Air /\ shown.listed \in ScanResults(shown.heard))

(* Only the end of a scan changes it.                                      *)
LEMMA ScannedStep == Scanned /\ [Next]_vars => Scanned'
<1>. SUFFICES ASSUME Scanned, [Next]_vars PROVE Scanned'
  OBVIOUS
<1>. USE DEF vars, pages, Kept, Calmly, Rest
<1>1. ASSUME SetupTask PROVE UNCHANGED shown
  BY <1>1 DEF SetupTask, SetupEthernet, SetupResolved, SetupConfigured,
      SetupClient, SetupWait, ApProfile, ApReload, ApReconfigure,
      ApSupplicant, ApHostapd, ApDns, SetupWatch
<1>2. ASSUME NEW t \in Tasks, StopAp(t) PROVE UNCHANGED shown
  BY <1>2 DEF StopAp, StopCheck, StopHostapd, StopProfile, StopReload,
     StopReconfigure, StopResolved, StopClient
<1>3. ASSUME NEW r \in Requests, Step(r), ~ScanRead(r) PROVE UNCHANGED shown
  BY <1>3 DEF Step, ConnectConf, ConnectProfile, ConnectCheck, ConnectRestart,
      DisconnectConf, DisconnectRestart, DisconnectReload, DisconnectReconfigure, ScanCheck,
      ScanLook, ScanWrite, ScanStart, PutSoftap, PutEthernet
<1>4. ASSUME NEW r \in Requests, ScanRead(r) PROVE Scanned'
  BY <1>4 DEF ScanRead, Results, Scanned
<1>5. ASSUME NEW r \in Requests, NEW what \in Kinds[r], Begin(r, what)
      PROVE  UNCHANGED shown
  BY <1>5 DEF Begin
<1>6. ASSUME Associate \/ Cable \/ Restart \/ UNCHANGED vars PROVE UNCHANGED shown
  BY <1>6 DEF Associate, Cable, Restart
<1>7. UNCHANGED shown => Scanned'
  BY DEF Scanned
<1>. QED
  BY <1>1, <1>2, <1>3, <1>4, <1>5, <1>6, <1>7 DEF Next

(* network.rs:389-391: whatever the air holds, a scan shows of every name  *)
(* its strongest beacon, once, the strongest first; in any order of the    *)
(* beacons, with hidden and equally strong ones among them.                *)
THEOREM ScansShowStrongest == Spec => []StrongestShown
<1>1. Init => Scanned
  BY DEF Init, Scanned
<1>2. Scanned => StrongestShown
  <2>. SUFFICES ASSUME Scanned, shown # None
                PROVE  Fits(shown.heard, shown.listed)
    BY DEF StrongestShown, Fits
  <2>. QED
    BY AirAssumption, ResultsFit DEF Scanned, Beacons, Beacon
<1>. QED
  BY <1>1, <1>2, ScannedStep, PTL DEF Spec
=============================================================================
