------------------------ MODULE ServerDocumentProofs ------------------------
(***************************************************************************)
(* Theorems about ServerDocument, for every set of pages, every document   *)
(* the file may hold at first or the advanced editor may write, every key  *)
(* the pages edit and whatever is typed there, and any number of edits and *)
(* saves: what a form saved is what the next page shows, a save changes    *)
(* nothing its user did not change, and what the editor does not know      *)
(* stays.  They rest on three facts about one save, SaveTakes, SaveChanges *)
(* and SaveKeepsUnknown, and on an invariant: the file is a document, and  *)
(* what an open page holds follows the document it was read from.          *)
(***************************************************************************)
EXTENDS ServerDocument, SequenceTheorems, FiniteSetTheorems, TLAPS

(* The kinds of key the tables are made of.                                *)
Sorts ==
  [type : {"text"}, default : STRING, out : {"never", "default"}]
  \cup [type : {"number"}, default : Int, out : {"never", "default"}]
  \cup [type : {"switch"}, default : BOOLEAN, out : {"never", "default"}]
  \cup [type : {"text", "switch"}, default : {Missing}, out : {"default"}]
  \cup [type : {"text"}, default : {Missing}, out : {"blank"}]
  \cup [type : {"list"}, default : {<<>>}, out : {"default"}]

(* The keys that many tables have are of these kinds.                      *)
LEMMA CommonKeys ==
  /\ On \in Sorts /\ Off \in Sorts /\ Optional \in Sorts /\ Several \in Sorts
  /\ Kept("text") \in Sorts /\ Kept("switch") \in Sorts
  BY DEF On, Off, Optional, Several, Kept, Key, Sorts

(* Every key of every table is of one of these kinds.                      *)
LEMMA SortsHold == \A n \in DOMAIN Tables : \A k \in Keys(n) : Tables[n][k] \in Sorts
<1>1. \A k \in DOMAIN Top : Top[k] \in Sorts
  BY TextsAssumption, CommonKeys DEF Top, Text, Sorts, Key
<1>2. \A k \in DOMAIN Network : Network[k] \in Sorts
  BY CommonKeys DEF Network
<1>3. \A k \in DOMAIN Http : Http[k] \in Sorts
  BY TextsAssumption, CommonKeys DEF Http, Text, Number, Sorts, Key
<1>4. \A k \in DOMAIN System : System[k] \in Sorts
  BY TextsAssumption, CommonKeys DEF System, Text, Sorts, Key
<1>5. \A k \in DOMAIN Audio : Audio[k] \in Sorts
  BY TextsAssumption, CommonKeys DEF Audio, Text, Number, Sorts, Key
<1>6. \A k \in DOMAIN Snapcast : Snapcast[k] \in Sorts
  BY TextsAssumption, CommonKeys DEF Snapcast, Text, Number, Sorts, Key
<1>7. \A k \in DOMAIN Mdns : Mdns[k] \in Sorts
  BY CommonKeys DEF Mdns
<1>8. \A k \in DOMAIN Dbus : Dbus[k] \in Sorts
  BY CommonKeys DEF Dbus
<1>9. \A k \in DOMAIN Subsonic : Subsonic[k] \in Sorts
  BY TextsAssumption, CommonKeys DEF Subsonic, Text, Elided, Sorts, Key
<1>10. \A k \in DOMAIN Cache : Cache[k] \in Sorts
  BY TextsAssumption, CommonKeys DEF Cache, Number, Elided, Sorts, Key
<1>11. \A k \in DOMAIN Spotify : Spotify[k] \in Sorts
  BY TextsAssumption, CommonKeys DEF Spotify, Text, Number, Sorts, Key
<1>12. \A k \in DOMAIN Airplay : Airplay[k] \in Sorts
  BY TextsAssumption, CommonKeys DEF Airplay, Elided, Sorts, Key
<1>13. \A k \in DOMAIN Mqtt : Mqtt[k] \in Sorts
  BY TextsAssumption, CommonKeys DEF Mqtt, Text, Sorts, Key
<1>14. \A k \in DOMAIN Knx : Knx[k] \in Sorts
  BY TextsAssumption, CommonKeys DEF Knx, Text, Number, Sorts, Key
<1>15. \A k \in DOMAIN Zone : Zone[k] \in Sorts
  BY TextsAssumption, CommonKeys DEF Zone, Text, Sorts, Key
<1>16. \A k \in DOMAIN Client : Client[k] \in Sorts
  BY TextsAssumption, CommonKeys DEF Client, Text, Elided, Sorts, Key
<1>17. \A k \in DOMAIN Radio : Radio[k] \in Sorts
  BY TextsAssumption, CommonKeys DEF Radio, Text, Sorts, Key
<1>. QED
  BY CommonKeys, <1>1, <1>2, <1>3, <1>4, <1>5, <1>6, <1>7, <1>8, <1>9, <1>10,
     <1>11, <1>12, <1>13, <1>14, <1>15, <1>16, <1>17 DEF Tables, Keys

(* The values a key of each type may have.                                 *)
LEMMA ValuesAre ==
  /\ Values["text"] = STRING /\ Values["number"] = Int
  /\ Values["switch"] = BOOLEAN /\ Values["list"] = Seq(STRING)
  BY DEF Values

(* Neither Missing nor Odd is a value.                                     *)
LEMMA NoValue ==
  /\ \A n \in DOMAIN Tables : \A k \in Keys(n) :
       /\ Values[Tables[n][k].type] \subseteq Anything
       /\ Missing \notin Values[Tables[n][k].type]
       /\ Odd \notin Values[Tables[n][k].type]
  /\ Missing \notin Lists /\ Odd \notin Lists /\ Missing # Odd
<1>1. ASSUME NEW n \in DOMAIN Tables, NEW k \in Keys(n)
      PROVE  Tables[n][k].type \in {"text", "number", "switch", "list"}
  BY SortsHold DEF Sorts
<1>2. ASSUME NEW y \in {"text", "number", "switch", "list"}
      PROVE  /\ Values[y] \subseteq Anything
             /\ Missing \notin Values[y] /\ Odd \notin Values[y]
  BY ValuesAre, AbsentAssumption DEF Anything
<1>. QED
  BY <1>1, <1>2, AbsentAssumption

(* How a key that is left out is one that holds what is shown without it.  *)
LEMMA KeyFacts ==
  ASSUME NEW n \in DOMAIN Tables, NEW k \in Keys(n)
  PROVE  /\ Tables[n][k].out \in {"never", "default", "blank"}
         /\ IsList(n, k) => /\ Default(n, k) = <<>> /\ Tables[n][k].out = "default"
                            /\ Values[Tables[n][k].type] = Seq(STRING)
         /\ Tables[n][k].out = "blank" => Default(n, k) = Missing /\ ~IsList(n, k)
                                         /\ Values[Tables[n][k].type] = STRING
         /\ Tables[n][k].out = "never" => Default(n, k) \in Values[Tables[n][k].type]
         /\ Default(n, k) \in Values[Tables[n][k].type] \cup {Missing}
<1>1. PICK f \in Sorts : f = Tables[n][k]
  BY SortsHold
<1>2. CASE f \in [type : {"text"}, default : STRING, out : {"never", "default"}]
  BY <1>1, <1>2, ValuesAre DEF IsList, Default
<1>3. CASE f \in [type : {"number"}, default : Int, out : {"never", "default"}]
  BY <1>1, <1>3, ValuesAre DEF IsList, Default
<1>4. CASE f \in [type : {"switch"}, default : BOOLEAN, out : {"never", "default"}]
  BY <1>1, <1>4, ValuesAre DEF IsList, Default
<1>5. CASE f \in [type : {"text", "switch"}, default : {Missing}, out : {"default"}]
  BY <1>1, <1>5, ValuesAre DEF IsList, Default
<1>6. CASE f \in [type : {"text"}, default : {Missing}, out : {"blank"}]
  BY <1>1, <1>6, ValuesAre DEF IsList, Default
<1>7. CASE f \in [type : {"list"}, default : {<<>>}, out : {"default"}]
  <2>1. f.type = "list" /\ f.default = <<>> /\ f.out = "default"
    BY <1>7
  <2>2. <<>> \in Seq(STRING)
    OBVIOUS
  <2>. QED
    BY <1>1, <2>1, <2>2, ValuesAre DEF IsList, Default
<1>. QED
  BY <1>1, <1>2, <1>3, <1>4, <1>5, <1>6, <1>7 DEF Sorts

(* What a page holds for a table.                                          *)
Config(n) == {c \in [Keys(n) -> Anything] : \A k \in Keys(n) : c[k] \in Shown(n, k)}

(* What a page holds for a table is not Missing.                           *)
LEMMA NotMissing == ASSUME NEW n \in DOMAIN Tables, NEW c \in Config(n)
                    PROVE  c # Missing
  BY AbsentAssumption DEF Config

(* What a page may hold for a key.                                         *)
LEMMA ShownFacts ==
  ASSUME NEW n \in DOMAIN Tables, NEW k \in Keys(n)
  PROVE  /\ Shown(n, k) \subseteq Anything
         /\ Default(n, k) \in Shown(n, k)
         /\ IsList(n, k) => Shown(n, k) = Seq(STRING)
         /\ Tables[n][k].out = "blank" => Shown(n, k) = STRING \cup {Missing}
         /\ Values[Tables[n][k].type] \subseteq Shown(n, k)
<1>1. Default(n, k) \in Anything
  BY KeyFacts, NoValue DEF Anything
<1>2. IsList(n, k) => Shown(n, k) = Seq(STRING)
  <2>1. <<>> \in Seq(STRING)
    OBVIOUS
  <2>. QED
    BY <2>1, KeyFacts DEF Shown
<1>. QED
  BY <1>1, <1>2, KeyFacts, NoValue DEF Shown

(* The values shown when a whole table is missing are of their types.      *)
LEMMA FreshTyped == ASSUME NEW n \in DOMAIN Tables PROVE Fresh(n) \in Config(n)
<1>. DEFINE shown == [k \in Keys(n) |-> Default(n, k)]
<1>1. shown \in Config(n)
  BY ShownFacts DEF Config
<1>2. CASE n = "audio"
  <2>1. "bit_depth" \in Keys("audio") /\ Tables["audio"]["bit_depth"].type = "number"
    BY DEF Tables, Keys, Audio, Number, Key
  <2>2. 32 \in Shown("audio", "bit_depth")
    BY <2>1, ValuesAre DEF Shown
  <2>. QED
    BY <1>1, <1>2, <2>1, <2>2, ShownFacts DEF Fresh, Config
<1>3. CASE n = "snapcast"
  <2>1. \A k \in {"codec", "group_volume_mode"} :
          k \in Keys("snapcast") /\ Tables["snapcast"][k].type = "text"
    BY DEF Tables, Keys, Snapcast, Text, Key
  <2>2. /\ "f32lz4" \in Shown("snapcast", "codec")
        /\ "compressed" \in Shown("snapcast", "group_volume_mode")
    BY <2>1, ValuesAre, TextsAssumption DEF Shown
  <2>. QED
    BY <1>1, <1>3, <2>1, <2>2, ShownFacts DEF Fresh, Config
<1>4. CASE n \notin {"audio", "snapcast"}
  BY <1>1, <1>4 DEF Fresh
<1>. QED
  BY <1>2, <1>3, <1>4

-----------------------------------------------------------------------------
(* Reading a table.                                                        *)
LEMMA FoundTyped ==
  ASSUME NEW n \in DOMAIN Tables, NEW t, IsText(n, t), NEW k \in Keys(n)
  PROVE  Found(t, k) \in Stored(n, k) \cup {Missing}
<1>1. Item(t, k) \in Stored(n, k) \cup {Missing}
  BY DEF Item, IsText
<1>2. k \in DOMAIN Legacy => Item(t, Legacy[k]) \in Stored(n, k) \cup {Missing}
  BY DEF Item, IsText
<1>. QED
  BY <1>1, <1>2 DEF Found

(* What is read from a table is what a page may hold.                      *)
LEMMA ReadTyped ==
  ASSUME NEW n \in DOMAIN Tables, NEW t, IsText(n, t)
  PROVE  ReadTable(n, t) \in Config(n)
<1>1. ASSUME NEW k \in Keys(n) PROVE Value(n, t, k) \in Shown(n, k)
  <2>1. CASE Found(t, k) \in {Missing, Odd}
    BY <2>1, ShownFacts DEF Value
  <2>2. CASE Found(t, k) \notin {Missing, Odd} /\ IsList(n, k)
    <3>1. Found(t, k) \in Lists
      BY <2>2, FoundTyped DEF Stored
    <3>2. Found(t, k).of \in Seq(STRING) /\ <<>> \in Seq(STRING)
      BY <3>1 DEF Lists
    <3>. QED
      BY <2>2, <3>2, ShownFacts DEF Value
  <2>3. CASE Found(t, k) \notin {Missing, Odd} /\ ~IsList(n, k)
    <3>1. Found(t, k) \in Values[Tables[n][k].type]
      BY <2>3, FoundTyped DEF Stored
    <3>. QED
      BY <2>3, <3>1, ShownFacts DEF Value
  <2>. QED
    BY <2>1, <2>2, <2>3
<1>. QED
  BY <1>1, ShownFacts DEF ReadTable, Config

-----------------------------------------------------------------------------
(* Writing a table, and reading what was written.                          *)
LEMMA WrittenTyped ==
  ASSUME NEW n \in DOMAIN Tables, NEW c \in Config(n), NEW k \in Keys(n),
         Written(n, c, k)
  PROVE  c[k] \in Values[Tables[n][k].type]
  BY KeyFacts DEF Config, Shown, Written, Default

(* No table has a key under an older name.                                 *)
LEMMA LegacyNames ==
  ASSUME NEW n \in DOMAIN Tables, NEW k \in Keys(n) \cap DOMAIN Legacy
  PROVE  /\ Legacy[k] \notin Keys(n) \cup Dropped(n)
         /\ \/ n = "zoneKnx" /\ k \in Renamed
            \/ n = "snapcast" /\ k = "jsonrpc_tcp_port"
               /\ Tables[n][k].out = "never"
<1>. DEFINE old == {"jsonrpc_port", "track_title", "track_artist"}
            new == {"jsonrpc_tcp_port", "track_title_status", "track_artist_status"}
<1>1. /\ DOMAIN Legacy = new /\ \A m \in new : Legacy[m] \in old
  BY DEF Legacy
<1>2. /\ new \cap (DOMAIN Top \cup DOMAIN Network \cup DOMAIN Http \cup DOMAIN System
                   \cup DOMAIN Audio \cup DOMAIN Mdns \cup DOMAIN Dbus) = {}
      /\ old \cap (DOMAIN Top \cup DOMAIN Network \cup DOMAIN Http \cup DOMAIN System
                   \cup DOMAIN Audio \cup DOMAIN Mdns \cup DOMAIN Dbus) = {}
  BY DEF Top, Network, Http, System, Audio, Mdns, Dbus
<1>3. /\ new \cap (DOMAIN Subsonic \cup DOMAIN Cache \cup DOMAIN Spotify
                   \cup DOMAIN Airplay \cup DOMAIN Mqtt \cup DOMAIN Knx) = {}
      /\ old \cap (DOMAIN Subsonic \cup DOMAIN Cache \cup DOMAIN Spotify
                   \cup DOMAIN Airplay \cup DOMAIN Mqtt \cup DOMAIN Knx) = {}
  BY DEF Subsonic, Cache, Spotify, Airplay, Mqtt, Knx
<1>4. /\ new \cap (DOMAIN Zone \cup DOMAIN Client \cup DOMAIN Radio \cup ClientKnxKeys) = {}
      /\ old \cap (DOMAIN Zone \cup DOMAIN Client \cup DOMAIN Radio \cup ClientKnxKeys) = {}
  BY DEF Zone, Client, Radio, ClientKnxKeys
<1>5. /\ new \cap DOMAIN Snapcast = {"jsonrpc_tcp_port"}
      /\ old \cap DOMAIN Snapcast = {}
      /\ Snapcast["jsonrpc_tcp_port"].out = "never"
  BY DEF Snapcast, Number, Key
<1>6. /\ new \cap ZoneKnxKeys = Renamed
      /\ old \cap ZoneKnxKeys = {}
  BY DEF ZoneKnxKeys, Renamed
<1>7. old \cap Dropped(n) = {}
  BY DEF Dropped
<1>8. CASE n = "snapcast"
  BY <1>1, <1>5, <1>7, <1>8 DEF Keys, Tables
<1>9. CASE n = "zoneKnx"
  BY <1>1, <1>6, <1>7, <1>9 DEF Keys, Tables
<1>10. CASE n \notin {"snapcast", "zoneKnx"}
  BY <1>1, <1>2, <1>3, <1>4, <1>10 DEF Keys, Tables
<1>. QED
  BY <1>8, <1>9, <1>10

(* A known key is there afterwards if it was written, as it was written.   *)
LEMMA WrittenKey ==
  ASSUME NEW n, NEW t, NEW c, NEW k \in Keys(n)
  PROVE  /\ k \in DOMAIN WriteTable(n, t, c) <=> Written(n, c, k)
         /\ Written(n, c, k) => WriteTable(n, t, c)[k]
                                  = IF IsList(n, k) THEN ListItem(n, t, c, k) ELSE c[k]
  BY DEF WriteTable, Unmanaged

(* A key the reader does not know is there afterwards if it was before.    *)
LEMMA UnmanagedKey ==
  ASSUME NEW n, NEW t, NEW c, NEW k, k \notin Keys(n) \cup Dropped(n)
  PROVE  /\ k \in DOMAIN WriteTable(n, t, c) <=> k \in DOMAIN t
         /\ k \in DOMAIN t => WriteTable(n, t, c)[k] = t[k]
<1>1. DOMAIN WriteTable(n, t, c) = Unmanaged(n, t) \cup {m \in Keys(n) : Written(n, c, m)}
  BY Zenon DEF WriteTable
<1>2. k \in Unmanaged(n, t) <=> k \in DOMAIN t
  BY DEF Unmanaged
<1>3. k \in Unmanaged(n, t) => WriteTable(n, t, c)[k] = t[k]
  BY DEF WriteTable
<1>. QED
  BY <1>1, <1>2, <1>3

(* A table stays one the reader takes.                                     *)
LEMMA WriteTyped ==
  ASSUME NEW n \in DOMAIN Tables, NEW t, IsText(n, t), NEW c \in Config(n)
  PROVE  IsText(n, WriteTable(n, t, c))
<1>. DEFINE w == WriteTable(n, t, c)
<1>1. ASSUME NEW k \in Keys(n) \cap DOMAIN w PROVE w[k] \in Stored(n, k)
  <2>1. Written(n, c, k) /\ w[k] = IF IsList(n, k) THEN ListItem(n, t, c, k) ELSE c[k]
    BY <1>1, WrittenKey
  <2>2. c[k] \in Values[Tables[n][k].type]
    BY <2>1, WrittenTyped
  <2>3. CASE IsList(n, k)
    <3>1. c[k] \in Seq(STRING)
      BY <2>2, <2>3, KeyFacts
    <3>2. ListItem(n, t, c, k) \in Lists
      BY <3>1 DEF ListItem, Lists
    <3>. QED
      BY <2>1, <2>3, <3>2 DEF Stored
  <2>. QED
    BY <2>1, <2>2, <2>3 DEF Stored
<1>2. ASSUME NEW k \in Keys(n) \cap DOMAIN Legacy, Legacy[k] \in DOMAIN w
      PROVE  w[Legacy[k]] \in Stored(n, k)
  <2>1. Legacy[k] \notin Keys(n) \cup Dropped(n)
    BY LegacyNames
  <2>2. Legacy[k] \in DOMAIN t /\ w[Legacy[k]] = t[Legacy[k]]
    BY <1>2, <2>1, UnmanagedKey
  <2>. QED
    BY <2>2 DEF IsText
<1>. QED
  BY <1>1, <1>2 DEF IsText

(* A key the page shows is what it was written from, unless it is left out *)
(* where an older one is there.                                            *)
LEMMA ReadWritten ==
  ASSUME NEW n \in DOMAIN Tables, NEW t, NEW c \in Config(n), NEW k \in Keys(n),
         Written(n, c, k)
  PROVE  Value(n, WriteTable(n, t, c), k) = c[k]
<1>. DEFINE w == WriteTable(n, t, c)
<1>1. k \in DOMAIN w /\ w[k] = IF IsList(n, k) THEN ListItem(n, t, c, k) ELSE c[k]
  BY WrittenKey
<1>2. c[k] \in Values[Tables[n][k].type]
  BY WrittenTyped
<1>3. CASE IsList(n, k)
  <2>1. c[k] \in Seq(STRING)
    BY <1>2, <1>3, KeyFacts
  <2>2. ListItem(n, t, c, k) \in Lists
    BY <2>1 DEF ListItem, Lists
  <2>3. Found(w, k) = ListItem(n, t, c, k) /\ Found(w, k) \notin {Missing, Odd}
    BY <1>1, <1>3, <2>2, NoValue DEF Found, Item
  <2>4. Found(w, k).of = c[k] /\ (n \notin OneOrMany => Found(w, k).many)
    BY <2>3 DEF ListItem
  <2>5. CASE Found(w, k).many \/ n \in OneOrMany
    BY <1>3, <2>3, <2>4, <2>5 DEF Value
  <2>. QED
    BY <2>4, <2>5
<1>4. CASE ~IsList(n, k)
  <2>1. Found(w, k) = c[k] /\ Found(w, k) \notin {Missing, Odd}
    BY <1>1, <1>2, <1>4, NoValue DEF Found, Item
  <2>. QED
    BY <1>4, <2>1 DEF Value
<1>. QED
  BY <1>3, <1>4

(* A key that was left out is shown at its default, unless an older one is *)
(* there.                                                                  *)
LEMMA ReadLeftOut ==
  ASSUME NEW n \in DOMAIN Tables, NEW t, NEW c \in Config(n), NEW k \in Keys(n),
         ~Written(n, c, k), k \in DOMAIN Legacy => Legacy[k] \notin DOMAIN t
  PROVE  Value(n, WriteTable(n, t, c), k) = Default(n, k)
<1>. DEFINE w == WriteTable(n, t, c)
<1>1. k \notin DOMAIN w
  BY WrittenKey
<1>2. k \in DOMAIN Legacy => Item(w, Legacy[k]) = Missing
  BY LegacyNames, UnmanagedKey DEF Item
<1>3. Found(w, k) = Missing
  BY <1>1, <1>2 DEF Found, Item
<1>. QED
  BY <1>3 DEF Value

(* What a key of a page means.                                             *)
PlainAt(n, c, k) ==
  IF Tables[n][k].out = "blank" /\ c[k] = Empty THEN Missing ELSE c[k]

(* What a page holds for a table means its keys, one by one.               *)
LEMMA PlainIs ==
  ASSUME NEW n \in DOMAIN Tables, NEW c \in Config(n)
  PROVE  /\ Plain(n, c) = [k \in Keys(n) |-> PlainAt(n, c, k)]
         /\ Plain(n, c) # Missing
<1>1. c # Missing /\ DOMAIN c = Keys(n)
  BY NotMissing DEF Config
<1>2. Plain(n, c) = [k \in Keys(n) |-> PlainAt(n, c, k)]
  BY <1>1, Zenon DEF Plain, PlainAt
<1>3. \A k \in Keys(n) : PlainAt(n, c, k) \in Anything
  BY DEF PlainAt, Config, Anything
<1>. QED
  BY <1>2, <1>3, AbsentAssumption

(* A key read back means what was written.                                 *)
LEMMA RoundTripAt ==
  ASSUME NEW n \in DOMAIN Tables, NEW t, NEW c \in Config(n), NEW k \in Keys(n),
         \/ Written(n, c, k)
         \/ k \in DOMAIN Legacy => Legacy[k] \notin DOMAIN t
  PROVE  PlainAt(n, ReadTable(n, WriteTable(n, t, c)), k) = PlainAt(n, c, k)
<1>. DEFINE r == ReadTable(n, WriteTable(n, t, c))
<1>1. r[k] = Value(n, WriteTable(n, t, c), k)
  BY DEF ReadTable
<1>2. CASE Written(n, c, k)
  BY <1>1, <1>2, ReadWritten DEF PlainAt
<1>3. CASE ~Written(n, c, k)
  <2>1. r[k] = Default(n, k)
    BY <1>1, <1>3, ReadLeftOut
  <2>2. CASE Tables[n][k].out = "blank"
    <3>1. c[k] \in {Missing, Empty} /\ r[k] = Missing
      BY <1>3, <2>1, <2>2, KeyFacts DEF Written
    <3>. QED
      BY <2>2, <3>1 DEF PlainAt
  <2>3. CASE Tables[n][k].out # "blank"
    BY <1>3, <2>1, <2>3, KeyFacts DEF Written, PlainAt
  <2>. QED
    BY <2>2, <2>3
<1>. QED
  BY <1>2, <1>3

(* A table read back means what was written, unless a key was left out     *)
(* where an older one is there.                                            *)
LEMMA RoundTrip ==
  ASSUME NEW n \in DOMAIN Tables, NEW t, IsText(n, t), NEW c \in Config(n),
         \A k \in Keys(n) \cap DOMAIN Legacy :
           Legacy[k] \notin DOMAIN t \/ Written(n, c, k)
  PROVE  Plain(n, ReadTable(n, WriteTable(n, t, c))) = Plain(n, c)
<1>1. ReadTable(n, WriteTable(n, t, c)) \in Config(n)
  BY WriteTyped, ReadTyped
<1>2. \A k \in Keys(n) :
        PlainAt(n, ReadTable(n, WriteTable(n, t, c)), k) = PlainAt(n, c, k)
  BY RoundTripAt
<1>. QED
  BY <1>1, <1>2, PlainIs

(* A save that changes nothing leaves what is shown, unless a blank stands *)
(* over an older key.                                                      *)
LEMMA KeptUnder ==
  ASSUME NEW n \in DOMAIN Tables, NEW t, IsText(n, t), NEW c \in Config(n),
         Plain(n, c) = Plain(n, ReadTable(n, t)),
         \A k \in Keys(n) \cap DOMAIN Legacy :
           /\ Tables[n][k].out = "blank"
           /\ ~(Legacy[k] \in DOMAIN t /\ Item(t, k) = Empty)
  PROVE  Plain(n, ReadTable(n, WriteTable(n, t, c))) = Plain(n, c)
<1>. DEFINE w == WriteTable(n, t, c)
<1>1. ReadTable(n, w) \in Config(n) /\ ReadTable(n, t) \in Config(n)
  BY WriteTyped, ReadTyped
<1>2. ASSUME NEW k \in Keys(n)
      PROVE  PlainAt(n, ReadTable(n, w), k) = PlainAt(n, c, k)
  <2>1. CASE \/ Written(n, c, k)
             \/ k \in DOMAIN Legacy => Legacy[k] \notin DOMAIN t
    BY <2>1, RoundTripAt
  <2>2. CASE ~Written(n, c, k) /\ k \in DOMAIN Legacy /\ Legacy[k] \in DOMAIN t
    <3>1. /\ Tables[n][k].out = "blank" /\ Default(n, k) = Missing /\ ~IsList(n, k)
          /\ Item(t, k) # Empty
      BY <2>2, KeyFacts
    <3>2. PlainAt(n, c, k) = Missing
      BY <2>2, <3>1 DEF Written, PlainAt
    <3>3. PlainAt(n, ReadTable(n, t), k) = Missing
      BY <1>1, <3>2, PlainIs
    <3>4. Value(n, t, k) \in {Missing, Empty}
      BY <3>3 DEF PlainAt, ReadTable
    <3>5. Item(t, k) \in {Missing, Odd}
      <4>1. SUFFICES ASSUME Item(t, k) \notin {Missing, Odd} PROVE FALSE
        OBVIOUS
      <4>2. Found(t, k) = Item(t, k)
        BY <4>1 DEF Found
      <4>3. Value(n, t, k) = Item(t, k)
        BY <3>1, <4>1, <4>2 DEF Value
      <4>. QED
        BY <3>1, <3>4, <4>1, <4>3
    <3>6. k # "jsonrpc_tcp_port"
      BY <2>2, <3>1, LegacyNames DEF Renamed
    <3>7. Found(t, k) = Item(t, Legacy[k])
      BY <2>2, <3>5, <3>6 DEF Found
    <3>8. k \notin DOMAIN w
      BY <2>2, WrittenKey
    <3>9. Found(w, k) = Item(w, Legacy[k])
      BY <2>2, <3>6, <3>8 DEF Found, Item
    <3>10. Item(w, Legacy[k]) = Item(t, Legacy[k])
      BY <2>2, LegacyNames, UnmanagedKey DEF Item
    <3>11. Value(n, w, k) = Value(n, t, k)
      BY <3>1, <3>7, <3>9, <3>10 DEF Value
    <3>12. PlainAt(n, ReadTable(n, w), k) = PlainAt(n, ReadTable(n, t), k)
      BY <3>11 DEF PlainAt, ReadTable
    <3>. QED
      BY <3>2, <3>3, <3>12
  <2>. QED
    BY <2>1, <2>2
<1>. QED
  BY <1>1, <1>2, PlainIs

-----------------------------------------------------------------------------
(* What a page holds, and what it was read from.                           *)
Entries(kind) ==
  [source : Nat \cup {Missing}, at : Config(kind),
   knx : {Missing} \cup (IF kind \in DOMAIN GroupOf THEN Config(GroupOf[kind]) ELSE {})]

AnyTable == UNION {Config(n) : n \in DOMAIN Tables}
AnyEntries == UNION {Seq(Entries(kind)) : kind \in Kinds}

IsConfig(c) ==
  /\ c \in [sections : [Sections -> AnyTable],
            options : [Options -> AnyTable \cup {Missing}],
            lists : [Kinds -> AnyEntries]]
  /\ \A n \in Sections : c.sections[n] \in Config(n)
  /\ \A n \in Options : c.options[n] \in Config(n) \cup {Missing}
  /\ c.options["cache"] = Missing <=> c.options["subsonic"] = Missing
  /\ \A kind \in Kinds : c.lists[kind] \in Seq(Entries(kind))

(* Where the entries of a list came from: from different ones of the       *)
(* document, in their order, and the KNX table only from there.            *)
HasGroup(e) == e.knx # <<>> /\ ~e.knx[1].inline

InOrder(l, old) ==
  /\ \A i \in DOMAIN l : l[i].source \in DOMAIN old \cup {Missing}
  /\ \A i \in DOMAIN l : l[i].knx # Missing =>
       l[i].source # Missing /\ HasGroup(old[l[i].source])
  /\ \A i, j \in DOMAIN l :
       i < j /\ l[i].source # Missing /\ l[j].source # Missing
         => l[i].source < l[j].source

Follows(c, d) == \A kind \in Kinds : InOrder(c.lists[kind], Listed(d, kind))

(* The names of the tables.                                                *)
LEMMA Names ==
  /\ DOMAIN Tables = Sections \cup Options \cup Kinds \cup Groups
  /\ Sections \cap (Options \cup Kinds \cup Groups) = {}
  /\ Options \cap (Kinds \cup Groups) = {}
  /\ Kinds \cap Groups = {}
  /\ Kinds = {"zone", "client", "radio"}
  /\ DOMAIN GroupOf = {"zone", "client"}
  /\ GroupOf["zone"] = "zoneKnx" /\ GroupOf["client"] = "clientKnx"
  /\ \A kind \in DOMAIN GroupOf : kind \in Kinds /\ GroupOf[kind] \in Groups
<1>1. DOMAIN Tables = Sections \cup Options \cup Kinds \cup Groups
  BY DEF Tables, Sections, Options, Kinds, Groups
<1>. QED
  BY <1>1 DEF Sections, Options, Kinds, Groups, GroupOf

(* The entries a list shows are those of the document.                     *)
LEMMA ListedFacts ==
  ASSUME NEW d, IsDocument(d), NEW kind \in Kinds
  PROVE  /\ \E m \in Nat : DOMAIN Listed(d, kind) = 1..m
         /\ \A i \in DOMAIN Listed(d, kind) :
              /\ Listed(d, kind)[i] = d[kind][i]
              /\ IsEntry(kind, Listed(d, kind)[i])
<1>1. CASE kind \in d.inline
  <2>1. Listed(d, kind) = <<>>
    BY <1>1 DEF Listed
  <2>2. DOMAIN Listed(d, kind) = 1..0
    BY <2>1
  <2>. QED
    BY <2>2
<1>2. CASE kind \notin d.inline
  BY <1>2 DEF Listed, IsDocument
<1>. QED
  BY <1>1, <1>2

(* An entry that was read is what a page may hold.                         *)
LEMMA ReadEntryTyped ==
  ASSUME NEW kind \in Kinds, NEW e, IsEntry(kind, e), NEW i \in Nat
  PROVE  ReadEntry(kind, e, i) \in Entries(kind)
<1>1. ReadTable(kind, e.at) \in Config(kind)
  BY ReadTyped, Names DEF IsEntry
<1>2. e.knx # <<>> => /\ kind \in DOMAIN GroupOf
                      /\ ReadTable(GroupOf[kind], e.knx[1].at) \in Config(GroupOf[kind])
  BY ReadTyped, Names DEF IsEntry
<1>. QED
  BY <1>1, <1>2 DEF ReadEntry, Entries

(* A function of the first numbers is a sequence.                          *)
LEMMA IndexedSeq == ASSUME NEW S, NEW m \in Nat, NEW f \in [1..m -> S]
               PROVE  f \in Seq(S)
  BY SeqDef

(* What an empty document shows.                                           *)
LEMMA TopEmpty == [name |-> Empty] \in Config("top")
<1>1. /\ Keys("top") = {"name"} /\ Tables["top"]["name"].type = "text"
      /\ "top" \in DOMAIN Tables
  BY DEF Keys, Tables, Top, Text, Key
<1>2. Empty \in Shown("top", "name") /\ Empty \in Anything
  BY <1>1, ValuesAre, TextsAssumption DEF Shown, Anything
<1>. QED
  BY <1>1, <1>2 DEF Config

(* A section that was read is what a page may hold.                        *)
LEMMA ReadSectionTyped ==
  ASSUME NEW d, IsDocument(d), NEW n \in Sections
  PROVE  ReadSection(d, n) \in Config(n)
<1>1. IsTable(d, n) => ReadTable(n, At(d, n)) \in Config(n)
  BY ReadTyped, Names DEF IsTable, At, IsDocument
<1>2. Fresh(n) \in Config(n)
  BY FreshTyped, Names
<1>3. CASE d = EmptyDocument /\ n = "top"
  <2>1. IsTable(d, n)
    BY <1>3 DEF EmptyDocument, IsTable
  <2>. QED
    BY <1>3, <2>1, TopEmpty DEF ReadSection
<1>4. CASE ~(d = EmptyDocument /\ n = "top")
  BY <1>1, <1>2, <1>4 DEF ReadSection
<1>. QED
  BY <1>3, <1>4

(* So is an integration that was read.                                     *)
LEMMA ReadOptionTyped ==
  ASSUME NEW d, IsDocument(d), NEW n \in Options
  PROVE  ReadOption(d, n) \in Config(n) \cup {Missing}
<1>1. IsTable(d, n) => ReadTable(n, At(d, n)) \in Config(n)
  BY ReadTyped, Names DEF IsTable, At, IsDocument
<1>2. Fresh(n) \in Config(n)
  BY FreshTyped, Names
<1>. QED
  BY <1>1, <1>2 DEF ReadOption

(* The cache is shown if Subsonic is.                                      *)
LEMMA CacheWithSubsonic ==
  ASSUME NEW d, IsDocument(d)
  PROVE  ReadOption(d, "cache") = Missing <=> ReadOption(d, "subsonic") = Missing
<1>1. {"cache", "subsonic"} \subseteq Options
  BY DEF Options
<1>2. \A n \in {"cache", "subsonic"} : IsTable(d, n) => ReadTable(n, At(d, n)) # Missing
  BY <1>1, ReadTyped, NotMissing, Names DEF IsTable, At, IsDocument
<1>3. Fresh("cache") # Missing
  BY <1>1, FreshTyped, NotMissing, Names
<1>. QED
  BY <1>2, <1>3 DEF ReadOption

(* A page shows a configuration that follows its document.                 *)
LEMMA ReadConfig ==
  ASSUME NEW d, IsDocument(d)
  PROVE  IsConfig(Read(d)) /\ Follows(Read(d), d)
<1>. DEFINE c == Read(d)
<1>1. ASSUME NEW kind \in Kinds
      PROVE  c.lists[kind] \in Seq(Entries(kind)) /\ InOrder(c.lists[kind], Listed(d, kind))
  <2>. DEFINE l == Listed(d, kind)
  <2>1. PICK m \in Nat : DOMAIN l = 1..m
    BY ListedFacts
  <2>2. c.lists[kind] = [i \in 1..m |-> ReadEntry(kind, l[i], i)]
    BY <2>1 DEF Read
  <2>3. \A i \in 1..m : ReadEntry(kind, l[i], i) \in Entries(kind)
    BY <2>1, ListedFacts, ReadEntryTyped
  <2>4. c.lists[kind] \in [1..m -> Entries(kind)]
    BY <2>2, <2>3
  <2>5. \A i \in 1..m : c.lists[kind][i].source = i
    BY <2>2 DEF ReadEntry
  <2>6. \A i \in 1..m : i # Missing
    BY AbsentAssumption
  <2>7. DOMAIN c.lists[kind] = 1..m
    BY <2>2
  <2>8. \A i \in 1..m : c.lists[kind][i].knx # Missing => HasGroup(l[i])
    BY <2>2 DEF ReadEntry, HasGroup
  <2>9. InOrder(c.lists[kind], l)
    BY <2>1, <2>5, <2>6, <2>7, <2>8 DEF InOrder
  <2>. QED
    BY <2>4, <2>9, IndexedSeq
<1>2. \A n \in Sections : c.sections[n] \in Config(n)
  BY ReadSectionTyped DEF Read
<1>3. \A n \in Options : c.options[n] \in Config(n) \cup {Missing}
  BY ReadOptionTyped DEF Read
<1>4. c.options["cache"] = Missing <=> c.options["subsonic"] = Missing
  BY CacheWithSubsonic DEF Read, Options
<1>5. c \in [sections : [Sections -> AnyTable],
             options : [Options -> AnyTable \cup {Missing}],
             lists : [Kinds -> AnyEntries]]
  <2>1. c.sections \in [Sections -> AnyTable]
    BY <1>2, Names DEF Read, AnyTable
  <2>2. c.options \in [Options -> AnyTable \cup {Missing}]
    BY <1>3, Names DEF Read, AnyTable
  <2>3. c.lists \in [Kinds -> AnyEntries]
    BY <1>1 DEF Read, AnyEntries
  <2>. QED
    BY <2>1, <2>2, <2>3 DEF Read
<1>. QED
  BY <1>1, <1>2, <1>3, <1>4, <1>5 DEF IsConfig, Follows

-----------------------------------------------------------------------------
(* Writing a document.                                                     *)
LEMMA WrittenTables ==
  ASSUME NEW d, NEW c
  PROVE  LET w == Write(d, c).tables
             kept == DOMAIN d.tables \ DOMAIN Tables
         IN /\ \A n \in kept : n \in DOMAIN w /\ w[n] = d.tables[n]
            /\ \A n \in Sections :
                 /\ n \in DOMAIN w <=>
                      \/ n # "network"
                      \/ c.sections[n].bind # <<>>
                      \/ n \in DOMAIN d.tables
                         /\ WriteSection(d, n, c.sections[n]).at # <<>>
                 /\ n \in DOMAIN w => w[n] = WriteSection(d, n, c.sections[n])
            /\ \A n \in Options :
                 /\ n \in DOMAIN w <=> c.options[n] # Missing
                 /\ n \in DOMAIN w => w[n] = WriteOption(d, n, c.options[n])
            /\ DOMAIN w \subseteq kept \cup Sections \cup Options
<1>. DEFINE w == WriteTables(d, c)
            kept == DOMAIN d.tables \ DOMAIN Tables
            set == {n \in Options : c.options[n] # Missing}
            here == {n \in Sections :
                       \/ n # "network"
                       \/ c.sections[n].bind # <<>>
                       \/ n \in DOMAIN d.tables
                          /\ WriteSection(d, n, c.sections[n]).at # <<>>}
<1>1. Write(d, c).tables = w
  BY DEF Write
<1>2. DOMAIN w = kept \cup set \cup here
  BY Zenon DEF WriteTables
<1>3. \A n \in kept \cup set \cup here :
        w[n] = CASE n \in kept -> d.tables[n]
                 [] n \in set -> WriteOption(d, n, c.options[n])
                 [] OTHER -> WriteSection(d, n, c.sections[n])
  BY Zenon DEF WriteTables
<1>4. /\ kept \cap (Sections \cup Options) = {} /\ set \cap Sections = {}
      /\ here \subseteq Sections /\ set \subseteq Options
  BY Names
<1>5. \A n \in kept : w[n] = d.tables[n]
  BY <1>3, <1>4
<1>6. \A n \in set : w[n] = WriteOption(d, n, c.options[n])
  BY <1>3, <1>4
<1>7. \A n \in here : w[n] = WriteSection(d, n, c.sections[n])
  BY <1>3, <1>4
<1>8. \A n \in Sections : n \in DOMAIN w <=> n \in here
  BY <1>2, <1>4
<1>9. \A n \in Options : n \in DOMAIN w <=> n \in set
  BY <1>2, <1>4, Names
<1>10. DOMAIN w \subseteq kept \cup Sections \cup Options
  BY <1>2, <1>4
<1>. HIDE DEF w
<1>11. \A n \in kept : n \in DOMAIN w
  BY <1>2
<1>. QED
  BY <1>1, <1>5, <1>6, <1>7, <1>8, <1>9, <1>10, <1>11

(* The lists of the document written, none of them inline.                 *)
LEMMA WrittenLists ==
  ASSUME NEW d, NEW c, NEW kind \in Kinds
  PROVE  /\ Write(d, c)[kind] = WriteList(d, c, kind)
         /\ Listed(Write(d, c), kind) = WriteList(d, c, kind)
<1>1. Write(d, c)[kind] = WriteList(d, c, kind)
  BY Names DEF Write
<1>2. Write(d, c).inline = {}
  BY DEF Write
<1>. QED
  BY <1>1, <1>2 DEF Listed

(* What a table is written over.                                           *)
Under(d, n) == IF IsTable(d, n) THEN At(d, n) ELSE <<>>

(* A section is written over a table the reader takes.                     *)
LEMMA UnderTyped == ASSUME NEW d, IsDocument(d), NEW n \in DOMAIN Tables
                    PROVE  IsText(n, Under(d, n))
<1>1. IsText(n, <<>>)
  BY DEF IsText
<1>. QED
  BY <1>1 DEF Under, IsTable, At, IsDocument

Group(e) == IF e.knx = <<>> \/ e.knx[1].inline THEN <<>> ELSE e.knx[1].at
Base(old, e) == IF e.source \in DOMAIN old THEN old[e.source]
                ELSE [at |-> <<>>, knx |-> <<>>]

(* An entry is written over one the reader takes.                          *)
LEMMA BaseTyped ==
  ASSUME NEW d, IsDocument(d), NEW kind \in Kinds, NEW e
  PROVE  LET base == Base(Listed(d, kind), e)
         IN /\ IsText(kind, base.at)
            /\ kind \in DOMAIN GroupOf => IsText(GroupOf[kind], Group(base))
<1>1. \A n : IsText(n, <<>>)
  BY DEF IsText
<1>2. CASE e.source \in DOMAIN Listed(d, kind)
  BY <1>1, <1>2, ListedFacts DEF Base, Group, IsEntry
<1>3. CASE e.source \notin DOMAIN Listed(d, kind)
  BY <1>1, <1>3 DEF Base, Group
<1>. QED
  BY <1>2, <1>3

(* What is written for an entry.                                           *)
LEMMA WrittenEntry ==
  ASSUME NEW kind, NEW old, NEW e
  PROVE  LET w == WriteEntry(kind, old, e)
             base == Base(old, e)
         IN /\ w.at = WriteTable(kind, base.at, e.at)
            /\ e.knx = Missing => w.knx = <<>>
            /\ e.knx # Missing =>
                 /\ w.knx # <<>> /\ w.knx = <<w.knx[1]>> /\ ~w.knx[1].inline
                 /\ w.knx[1].inline \in BOOLEAN
                 /\ w.knx[1].at = WriteTable(GroupOf[kind], Group(base), e.knx)
  BY DEF WriteEntry, Base, Group

(* An entry that was written is one the reader takes.                      *)
LEMMA WriteEntryTyped ==
  ASSUME NEW d, IsDocument(d), NEW kind \in Kinds, NEW e \in Entries(kind)
  PROVE  IsEntry(kind, WriteEntry(kind, Listed(d, kind), e))
<1>1. e.at \in Config(kind)
      /\ (e.knx # Missing => kind \in DOMAIN GroupOf /\ e.knx \in Config(GroupOf[kind]))
  BY DEF Entries
<1>. QED
  BY <1>1, WrittenEntry, BaseTyped, WriteTyped, Names DEF IsEntry

(* So is every entry of a list that was written.                           *)
LEMMA WriteListTyped ==
  ASSUME NEW d, IsDocument(d), NEW c, IsConfig(c), NEW kind \in Kinds
  PROVE  /\ DOMAIN WriteList(d, c, kind) = DOMAIN c.lists[kind]
         /\ Len(WriteList(d, c, kind)) \in Nat
         /\ DOMAIN WriteList(d, c, kind) = 1..Len(WriteList(d, c, kind))
         /\ \A i \in DOMAIN c.lists[kind] : IsEntry(kind, WriteList(d, c, kind)[i])
<1>. DEFINE l == c.lists[kind]
            w == WriteList(d, c, kind)
<1>1. l \in Seq(Entries(kind))
  BY DEF IsConfig
<1>2. Len(l) \in Nat /\ DOMAIN l = 1..Len(l) /\ \A i \in DOMAIN l : l[i] \in Entries(kind)
  BY <1>1, LenProperties
<1>3. w = [i \in 1..Len(l) |-> WriteEntry(kind, Listed(d, kind), l[i])]
  BY <1>2 DEF WriteList
<1>4. w \in Seq({w[i] : i \in 1..Len(l)})
  BY <1>2, <1>3, IndexedSeq
<1>5. Len(w) \in Nat /\ DOMAIN w = 1..Len(w)
  BY <1>4, LenProperties
<1>. QED
  BY <1>2, <1>3, <1>5, WriteEntryTyped

(* A save of a form writes a document.                                     *)
LEMMA WriteTyping ==
  ASSUME NEW d, IsDocument(d), NEW c, IsConfig(c)
  PROVE  IsDocument(Write(d, c))
<1>. DEFINE w == Write(d, c)
<1>1. ASSUME NEW n \in DOMAIN w.tables
      PROVE  /\ n \notin Kinds \cup Groups
             /\ w.tables[n].inline \in BOOLEAN
             /\ n = "top" => ~w.tables[n].inline
             /\ n \in DOMAIN Tables => IsText(n, w.tables[n].at)
  <2>1. CASE n \in DOMAIN d.tables \ DOMAIN Tables
    BY <2>1, WrittenTables, Names DEF IsDocument
  <2>2. CASE n \in Sections
    <3>1. w.tables[n] = WriteSection(d, n, c.sections[n])
      BY <1>1, <2>2, WrittenTables
    <3>2. IsText(n, WriteTable(n, Under(d, n), c.sections[n]))
      BY <2>2, UnderTyped, WriteTyped, Names DEF IsConfig
    <3>3. n \notin Kinds \cup Groups
      BY <2>2, Names
    <3>4. CASE Frozen(d, n)
      BY <3>1, <3>3, <3>4 DEF WriteSection, Frozen, IsDocument
    <3>5. CASE ~Frozen(d, n)
      <4>1. w.tables[n] = [inline |-> FALSE,
                           at |-> WriteTable(n, Under(d, n), c.sections[n])]
        BY <3>1, <3>5 DEF WriteSection, Frozen, Under
      <4>. QED
        BY <3>2, <3>3, <4>1
    <3>. QED
      BY <3>4, <3>5
  <2>3. CASE n \in Options
    <3>1. w.tables[n] = WriteOption(d, n, c.options[n]) /\ c.options[n] # Missing
      BY <1>1, <2>3, WrittenTables
    <3>2. IsText(n, WriteTable(n, Under(d, n), c.options[n]))
      BY <2>3, <3>1, UnderTyped, WriteTyped, Names DEF IsConfig
    <3>3. n # "top"
      BY <2>3 DEF Options
    <3>. QED
      BY <2>3, <3>1, <3>2, <3>3, Names DEF WriteOption, Under
  <2>. QED
    BY <1>1, <2>1, <2>2, <2>3, WrittenTables
<1>2. ASSUME NEW kind \in Kinds
      PROVE  /\ Len(w[kind]) \in Nat /\ DOMAIN w[kind] = 1..Len(w[kind])
             /\ \A i \in DOMAIN w[kind] : IsEntry(kind, w[kind][i])
  BY WrittenLists, WriteListTyped
<1>. QED
  BY <1>1, <1>2 DEF IsDocument

-----------------------------------------------------------------------------
(* What a form saved is what the next page shows.                          *)
LEMMA SectionTakes ==
  ASSUME NEW d, IsDocument(d), NEW c, IsConfig(c), NEW n \in Sections
  PROVE  LET w == Write(d, c)
         IN \/ Plain(n, ReadSection(w, n)) = Plain(n, c.sections[n])
            \/ Frozen(d, n) /\ Frozen(w, n)
<1>. DEFINE w == Write(d, c)
<1>1. c.sections[n] \in Config(n) /\ n \in DOMAIN Tables
  BY Names DEF IsConfig
<1>2. CASE n \notin DOMAIN w.tables
  <2>1. n = "network" /\ c.sections[n].bind = <<>>
    BY <1>2, WrittenTables
  <2>2. Keys(n) = {"bind"} /\ Default(n, "bind") = <<>>
    BY <2>1 DEF Keys, Default, Tables, Network, Several, Key
  <2>3. Fresh(n) = [k \in Keys(n) |-> Default(n, k)]
    BY <2>1 DEF Fresh
  <2>4. c.sections[n] = Fresh(n)
    BY <1>1, <2>1, <2>2, <2>3 DEF Config
  <2>5. ReadSection(w, n) = Fresh(n)
    BY <1>2, <2>1 DEF ReadSection, IsTable
  <2>. QED
    BY <2>4, <2>5
<1>3. CASE n \in DOMAIN w.tables /\ Frozen(d, n)
  <2>1. w.tables[n] = d.tables[n]
    BY <1>3, WrittenTables DEF WriteSection, Frozen
  <2>. QED
    BY <1>3, <2>1 DEF Frozen
<1>4. CASE n \in DOMAIN w.tables /\ ~Frozen(d, n)
  <2>1. w.tables[n] = WriteSection(d, n, c.sections[n])
    BY <1>4, WrittenTables
  <2>2. w.tables[n] = [inline |-> FALSE, at |-> WriteTable(n, Under(d, n), c.sections[n])]
    BY <1>4, <2>1 DEF WriteSection, Frozen, Under
  <2>3. "http" \in DOMAIN w.tables
    BY WrittenTables DEF Sections
  <2>4. w # EmptyDocument
    BY <2>3 DEF EmptyDocument
  <2>5. ReadSection(w, n) = ReadTable(n, WriteTable(n, Under(d, n), c.sections[n]))
    BY <1>4, <2>2, <2>4 DEF ReadSection, IsTable, At
  <2>6. \A k \in Keys(n) \cap DOMAIN Legacy : Written(n, c.sections[n], k)
    BY <1>1, LegacyNames, Names DEF Written, Groups
  <2>. QED
    BY <1>1, <2>5, <2>6, UnderTyped, RoundTrip
<1>. QED
  BY <1>2, <1>3, <1>4

(* An integration is shown as it was saved.                                *)
LEMMA OptionTakes ==
  ASSUME NEW d, IsDocument(d), NEW c, IsConfig(c), NEW n \in Options
  PROVE  Plain(n, ReadOption(Write(d, c), n)) = Plain(n, c.options[n])
<1>. DEFINE w == Write(d, c)
<1>1. n \in DOMAIN Tables /\ c.options[n] \in Config(n) \cup {Missing}
  BY Names DEF IsConfig
<1>2. ASSUME NEW m \in Options
      PROVE  /\ IsTable(w, m) <=> c.options[m] # Missing
             /\ IsTable(w, m) => At(w, m) = WriteTable(m, Under(d, m), c.options[m])
  <2>1. m \in DOMAIN w.tables <=> c.options[m] # Missing
    BY WrittenTables
  <2>2. m \in DOMAIN w.tables => w.tables[m] = WriteOption(d, m, c.options[m])
    BY WrittenTables
  <2>3. WriteOption(d, m, c.options[m])
          = [inline |-> FALSE, at |-> WriteTable(m, Under(d, m), c.options[m])]
    BY DEF WriteOption, Under
  <2>. QED
    BY <2>1, <2>2, <2>3 DEF IsTable, At
<1>3. CASE c.options[n] = Missing
  <2>1. n = "cache" => c.options["subsonic"] = Missing
    BY <1>3 DEF IsConfig
  <2>2. "subsonic" \in Options
    BY DEF Options
  <2>3. ReadOption(w, n) = Missing
    BY <1>2, <1>3, <2>1, <2>2 DEF ReadOption
  <2>. QED
    BY <1>3, <2>3
<1>4. CASE c.options[n] # Missing
  <2>1. n = "cache" => c.options["subsonic"] # Missing
    BY <1>4 DEF IsConfig
  <2>2. "subsonic" \in Options
    BY DEF Options
  <2>3. ReadOption(w, n) = ReadTable(n, At(w, n))
    BY <1>2, <1>4, <2>1, <2>2 DEF ReadOption
  <2>4. At(w, n) = WriteTable(n, Under(d, n), c.options[n])
    BY <1>2, <1>4
  <2>5. Keys(n) \cap DOMAIN Legacy = {}
    BY <1>1, LegacyNames, Names DEF Groups, Sections
  <2>. QED
    BY <1>1, <1>4, <2>3, <2>4, <2>5, UnderTyped, RoundTrip
<1>. QED
  BY <1>3, <1>4

(* What an entry means.                                                    *)
EntryMeaning(kind, e) ==
  [at |-> Plain(kind, e.at),
   knx |-> IF e.knx = Missing THEN Missing ELSE Plain(GroupOf[kind], e.knx)]

(* A list means its entries, one by one.                                   *)
LEMMA ListMeaning ==
  ASSUME NEW c, NEW kind \in Kinds
  PROVE  Meaning(c).lists[kind]
           = [i \in DOMAIN c.lists[kind] |-> EntryMeaning(kind, c.lists[kind][i])]
  BY Zenon DEF Meaning, EntryMeaning

(* A list is read entry by entry.                                          *)
LEMMA ListRead ==
  ASSUME NEW d, NEW kind \in Kinds
  PROVE  Read(d).lists[kind]
           = [i \in DOMAIN Listed(d, kind) |-> ReadEntry(kind, Listed(d, kind)[i], i)]
  BY Zenon DEF Read

(* An entry is shown as it was saved, up to what an older key names.       *)
LEMMA EntryTakes ==
  ASSUME NEW d, IsDocument(d), NEW kind \in Kinds, NEW e \in Entries(kind), NEW i \in Nat
  PROVE  LET r == ReadEntry(kind, WriteEntry(kind, Listed(d, kind), e), i)
             group == Group(Base(Listed(d, kind), e))
         IN /\ Plain(kind, r.at) = Plain(kind, e.at)
            /\ e.knx = Missing => r.knx = Missing
            /\ e.knx # Missing =>
                 /\ kind \in DOMAIN GroupOf
                 /\ r.knx = ReadTable(GroupOf[kind],
                                      WriteTable(GroupOf[kind], group, e.knx))
                 /\ r.knx # Missing
<1>. DEFINE w == WriteEntry(kind, Listed(d, kind), e)
            r == ReadEntry(kind, w, i)
            base == Base(Listed(d, kind), e)
<1>1. e.at \in Config(kind) /\ kind \in DOMAIN Tables
      /\ (e.knx # Missing => kind \in DOMAIN GroupOf /\ e.knx \in Config(GroupOf[kind]))
  BY Names DEF Entries
<1>2. r.at = ReadTable(kind, WriteTable(kind, base.at, e.at))
  BY WrittenEntry DEF ReadEntry
<1>3. Keys(kind) \cap DOMAIN Legacy = {}
  BY <1>1, LegacyNames, Names DEF Kinds
<1>4. Plain(kind, r.at) = Plain(kind, e.at)
  BY <1>1, <1>2, <1>3, BaseTyped, RoundTrip
<1>5. e.knx = Missing => r.knx = Missing
  BY WrittenEntry DEF ReadEntry
<1>6. ASSUME e.knx # Missing
      PROVE  /\ r.knx = ReadTable(GroupOf[kind],
                            WriteTable(GroupOf[kind], Group(base), e.knx))
             /\ r.knx # Missing
  <2>1. r.knx = ReadTable(GroupOf[kind], WriteTable(GroupOf[kind], Group(base), e.knx))
    BY <1>6, WrittenEntry DEF ReadEntry
  <2>2. GroupOf[kind] \in DOMAIN Tables
    BY <1>1, <1>6, Names
  <2>. QED
    BY <1>1, <1>6, <2>1, <2>2, BaseTyped, WriteTyped, ReadTyped, NotMissing
<1>. QED
  BY <1>1, <1>4, <1>5, <1>6

(* A list is shown as it was saved, but for an address only an older key   *)
(* names.                                                                  *)
LEMMA ListTakes ==
  ASSUME NEW d, IsDocument(d), NEW c, IsConfig(c), NEW kind \in Kinds
  PROVE  LET w == Write(d, c)
         IN \/ Meaning(Read(w)).lists[kind] = Meaning(c).lists[kind]
            \/ kind = "zone" /\ Shadowed(w)
<1>. DEFINE w == Write(d, c)
            l == c.lists[kind]
            old == Listed(d, kind)
            r == Read(w).lists[kind]
<1>1. SUFFICES ASSUME ~(kind = "zone" /\ Shadowed(w))
               PROVE  Meaning(Read(w)).lists[kind] = Meaning(c).lists[kind]
  OBVIOUS
<1>2. /\ DOMAIN l = 1..Len(l) /\ Len(l) \in Nat
      /\ \A i \in DOMAIN l : l[i] \in Entries(kind)
  <2>1. l \in Seq(Entries(kind))
    BY DEF IsConfig
  <2>. QED
    BY <2>1, LenProperties
<1>3. Listed(w, kind) = [i \in DOMAIN l |-> WriteEntry(kind, old, l[i])]
  <2>1. Listed(w, kind) = WriteList(d, c, kind)
    BY WrittenLists
  <2>. QED
    BY <2>1 DEF WriteList
<1>4. r = [i \in DOMAIN l |-> ReadEntry(kind, WriteEntry(kind, old, l[i]), i)]
  BY <1>3, ListRead
<1>5. ASSUME NEW i \in DOMAIN l
      PROVE  EntryMeaning(kind, r[i]) = EntryMeaning(kind, l[i])
  <2>. DEFINE g == GroupOf[kind]
              t == Group(Base(old, l[i]))
  <2>1. i \in Nat /\ l[i] \in Entries(kind)
        /\ r[i] = ReadEntry(kind, WriteEntry(kind, old, l[i]), i)
    BY <1>2, <1>4
  <2>2. CASE l[i].knx = Missing
    BY <2>1, <2>2, EntryTakes DEF EntryMeaning
  <2>3. CASE l[i].knx # Missing
    <3>1. /\ kind \in DOMAIN GroupOf
          /\ r[i].knx = ReadTable(g, WriteTable(g, t, l[i].knx)) /\ r[i].knx # Missing
          /\ Plain(kind, r[i].at) = Plain(kind, l[i].at)
      BY <2>1, <2>3, EntryTakes
    <3>2. l[i].knx \in Config(g) /\ g \in DOMAIN Tables
      BY <2>1, <2>3, <3>1, Names DEF Entries
    <3>3. IsText(g, t)
      BY <3>1, BaseTyped
    <3>4. ASSUME NEW k \in Keys(g) \cap DOMAIN Legacy
          PROVE  Legacy[k] \notin DOMAIN t \/ Written(g, l[i].knx, k)
      <4>1. kind = "zone" /\ k \in Renamed
        BY <3>1, <3>2, LegacyNames, Names
      <4>2. w["zone"][i] = WriteEntry(kind, old, l[i]) /\ i \in DOMAIN w["zone"]
        BY <1>3, <4>1, WrittenLists
      <4>3. /\ w["zone"][i].knx # <<>>
            /\ w["zone"][i].knx[1].at = WriteTable(g, t, l[i].knx)
        BY <2>3, <4>2, WrittenEntry
      <4>4. ~(Legacy[k] \in DOMAIN WriteTable(g, t, l[i].knx)
              /\ k \notin DOMAIN WriteTable(g, t, l[i].knx))
        BY <1>1, <4>1, <4>2, <4>3 DEF Shadowed, Older
      <4>5. Legacy[k] \notin Keys(g) \cup Dropped(g)
        BY <3>2, LegacyNames
      <4>. QED
        BY <4>4, <4>5, UnmanagedKey, WrittenKey
    <3>5. Plain(g, r[i].knx) = Plain(g, l[i].knx)
      BY <3>1, <3>2, <3>3, <3>4, RoundTrip
    <3>. QED
      BY <2>3, <3>1, <3>5 DEF EntryMeaning
  <2>. QED
    BY <2>2, <2>3
<1>6. DOMAIN r = DOMAIN l
  BY <1>4
<1>7. /\ Meaning(Read(w)).lists[kind] = [i \in DOMAIN r |-> EntryMeaning(kind, r[i])]
      /\ Meaning(c).lists[kind] = [i \in DOMAIN l |-> EntryMeaning(kind, l[i])]
  BY ListMeaning
<1>. QED
  BY <1>5, <1>6, <1>7

(* EditsTake as a fact about one save.                                     *)
LEMMA SaveTakes ==
  ASSUME NEW d, IsDocument(d), NEW c, IsConfig(c)
  PROVE  LET w == Write(d, c)
             shown == Meaning(Read(w))
             meant == Meaning(c)
         IN /\ \A n \in Sections :
                 shown.sections[n] = meant.sections[n] \/ Frozen(w, n)
            /\ shown.options = meant.options
            /\ \A kind \in Kinds :
                 \/ shown.lists[kind] = meant.lists[kind]
                 \/ kind = "zone" /\ Shadowed(w)
<1>. DEFINE w == Write(d, c)
<1>1. ASSUME NEW n \in Sections
      PROVE  Meaning(Read(w)).sections[n] = Meaning(c).sections[n] \/ Frozen(w, n)
  <2>1. /\ Meaning(Read(w)).sections[n] = Plain(n, ReadSection(w, n))
        /\ Meaning(c).sections[n] = Plain(n, c.sections[n])
    BY DEF Meaning, Read
  <2>. QED
    BY <2>1, SectionTakes
<1>2. Meaning(Read(w)).options = Meaning(c).options
  <2>1. /\ Meaning(Read(w)).options = [n \in Options |-> Plain(n, ReadOption(w, n))]
        /\ Meaning(c).options = [n \in Options |-> Plain(n, c.options[n])]
    BY DEF Meaning, Read
  <2>. QED
    BY <2>1, OptionTakes
<1>. QED
  BY <1>1, <1>2, ListTakes

-----------------------------------------------------------------------------
(* A save changes only what was edited.                                    *)
(* An increasing map of a finite set of numbers to itself is the identity. *)
LEMMA SelfMap ==
  ASSUME NEW m \in Nat, NEW S \in SUBSET (1..m), NEW f \in [S -> S],
         \A i, j \in S : i < j => f[i] < f[j]
  PROVE  \A i \in S : f[i] = i
<1>1. IsFiniteSet(S)
  <2>1. IsFiniteSet(1..m)
    BY FS_Interval
  <2>. QED
    BY <2>1, FS_Subset
<1>2. \A i \in S : i \in Int /\ f[i] \in S /\ f[i] \in Int
  <2>1. \A i \in S : i \in Int
    OBVIOUS
  <2>2. \A i \in S : f[i] \in S
    OBVIOUS
  <2>. QED
    BY <2>1, <2>2
<1>3. ASSUME NEW A \in SUBSET S, NEW i \in A, \A j \in A : f[j] \in A \ {i}
      PROVE  FALSE
  <2>1. IsFiniteSet(A)
    BY <1>1, FS_Subset
  <2>2. IsFiniteSet(A \ {i}) /\ Cardinality(A \ {i}) = Cardinality(A) - 1
    BY <2>1, FS_RemoveElement
  <2>3. Cardinality(A) \in Nat
    BY <2>1, FS_CardinalityType
  <2>4. PICK g \in [A -> A \ {i}] : \A j \in A : g[j] = f[j]
    <3>1. [j \in A |-> f[j]] \in [A -> A \ {i}]
      BY <1>3
    <3>. QED
      BY <3>1
  <2>5. \E x, y \in A : x # y /\ g[x] = g[y]
    <3>. Cardinality(A \ {i}) < Cardinality(A)
      BY <2>2, <2>3
    <3>. QED
      BY <2>1, <2>2, FS_PigeonHole
  <2>6. PICK x, y \in A : x # y /\ f[x] = f[y]
    BY <2>4, <2>5
  <2>7. x < y \/ y < x
    BY <1>2, <2>6
  <2>8. f[x] < f[y] \/ f[y] < f[x]
    BY <2>7
  <2>9. f[x] \in Int
    BY <1>2
  <2>. QED
    BY <2>6, <2>8, <2>9
<1>4. ASSUME NEW i \in S, f[i] > i PROVE FALSE
  <2>. DEFINE A == {j \in S : j >= i}
  <2>1. A \in SUBSET S /\ i \in A
    BY <1>2
  <2>2. ASSUME NEW j \in A PROVE f[j] \in A \ {i}
    <3>1. f[j] > i
      <4>1. j \in S /\ (j = i \/ i < j)
        BY <1>2
      <4>2. j = i \/ f[i] < f[j]
        BY <4>1
      <4>. QED
        BY <1>2, <1>4, <4>1, <4>2
    <3>. QED
      BY <1>2, <3>1
  <2>. QED
    BY <1>3, <2>1, <2>2
<1>5. ASSUME NEW i \in S, f[i] < i PROVE FALSE
  <2>. DEFINE A == {j \in S : j <= i}
  <2>1. A \in SUBSET S /\ i \in A
    BY <1>2
  <2>2. ASSUME NEW j \in A PROVE f[j] \in A \ {i}
    <3>1. f[j] < i
      <4>1. j \in S /\ (j = i \/ j < i)
        BY <1>2
      <4>2. j = i \/ f[j] < f[i]
        BY <4>1
      <4>. QED
        BY <1>2, <1>5, <4>1, <4>2
    <3>. QED
      BY <1>2, <3>1
  <2>. QED
    BY <1>3, <2>1, <2>2
<1>. QED
  BY <1>2, <1>4, <1>5

(* An entry has a KNX table if it means one.                               *)
LEMMA EntryMeaningMissing ==
  ASSUME NEW kind \in Kinds, NEW e \in Entries(kind)
  PROVE  EntryMeaning(kind, e).knx = Missing <=> e.knx = Missing
<1>1. e.knx # Missing => e.knx \in Config(GroupOf[kind]) /\ GroupOf[kind] \in DOMAIN Tables
  BY Names DEF Entries
<1>. QED
  BY <1>1, PlainIs DEF EntryMeaning

(* A list that was not edited is shown as before, but for a blank address  *)
(* over an older one.                                                      *)
LEMMA ListKept ==
  ASSUME NEW d, IsDocument(d), NEW c, IsConfig(c), NEW kind \in Kinds,
         InOrder(c.lists[kind], Listed(d, kind)),
         Meaning(c).lists[kind] = Meaning(Read(d)).lists[kind],
         ~(kind = "zone" /\ Overruled(d))
  PROVE  Meaning(Read(Write(d, c))).lists[kind] = Meaning(Read(d)).lists[kind]
<1>. DEFINE w == Write(d, c)
            l == c.lists[kind]
            old == Listed(d, kind)
            b == Read(d).lists[kind]
            r == Read(w).lists[kind]
<1>1. /\ DOMAIN l = 1..Len(l) /\ Len(l) \in Nat
      /\ \A i \in DOMAIN l : l[i] \in Entries(kind)
  <2>1. l \in Seq(Entries(kind))
    BY DEF IsConfig
  <2>. QED
    BY <2>1, LenProperties
<1>2. /\ Meaning(c).lists[kind] = [i \in DOMAIN l |-> EntryMeaning(kind, l[i])]
      /\ Meaning(Read(d)).lists[kind] = [i \in DOMAIN b |-> EntryMeaning(kind, b[i])]
      /\ Meaning(Read(w)).lists[kind] = [i \in DOMAIN r |-> EntryMeaning(kind, r[i])]
  BY ListMeaning
<1>3. b = [i \in DOMAIN old |-> ReadEntry(kind, old[i], i)]
  BY ListRead
<1>4. r = [i \in DOMAIN l |-> ReadEntry(kind, WriteEntry(kind, old, l[i]), i)]
  <2>1. Listed(w, kind) = WriteList(d, c, kind)
    BY WrittenLists
  <2>2. Listed(w, kind) = [i \in DOMAIN l |-> WriteEntry(kind, old, l[i])]
    BY <2>1 DEF WriteList
  <2>. QED
    BY <2>2, ListRead
<1>5. /\ DOMAIN l = DOMAIN b /\ DOMAIN old = DOMAIN l /\ DOMAIN r = DOMAIN l
      /\ \A i \in DOMAIN l : EntryMeaning(kind, l[i]) = EntryMeaning(kind, b[i])
  <2>1. DOMAIN l = DOMAIN b
    BY <1>2
  <2>2. ASSUME NEW i \in DOMAIN l
        PROVE  EntryMeaning(kind, l[i]) = EntryMeaning(kind, b[i])
    <3>1. Meaning(c).lists[kind][i] = EntryMeaning(kind, l[i])
      BY <1>2
    <3>2. Meaning(Read(d)).lists[kind][i] = EntryMeaning(kind, b[i])
      BY <1>2, <2>1
    <3>. QED
      BY <3>1, <3>2
  <2>. QED
    BY <1>3, <1>4, <2>1, <2>2
<1>6. \A i \in DOMAIN l : b[i] \in Entries(kind) /\ IsEntry(kind, old[i])
  BY <1>1, <1>3, <1>5, ListedFacts, ReadEntryTyped
<1>7. \A i \in DOMAIN l :
        /\ l[i].knx = Missing <=> b[i].knx = Missing
        /\ HasGroup(old[i]) <=> l[i].knx # Missing
  <2>1. \A i \in DOMAIN l : l[i].knx = Missing <=> b[i].knx = Missing
    BY <1>1, <1>5, <1>6, EntryMeaningMissing
  <2>2. ASSUME NEW i \in DOMAIN l PROVE HasGroup(old[i]) <=> b[i].knx # Missing
    <3>1. b[i].knx = IF old[i].knx = <<>> \/ old[i].knx[1].inline THEN Missing
                     ELSE ReadTable(GroupOf[kind], old[i].knx[1].at)
      BY <1>3, <1>5 DEF ReadEntry
    <3>2. HasGroup(old[i]) => ReadTable(GroupOf[kind], old[i].knx[1].at) # Missing
      BY <1>6, ReadTyped, NotMissing, Names DEF HasGroup, IsEntry
    <3>. QED
      BY <3>1, <3>2 DEF HasGroup
  <2>. QED
    BY <2>1, <2>2
<1>8. \A i \in DOMAIN l : l[i].knx # Missing => l[i].source = i
  <2>. DEFINE S == {i \in DOMAIN l : l[i].knx # Missing}
              f == [i \in S |-> l[i].source]
  <2>1. \A i \in S : l[i].source \in S /\ l[i].source # Missing
    BY <1>5, <1>7 DEF InOrder
  <2>2. S \in SUBSET (1..Len(l)) /\ f \in [S -> S]
    BY <1>1, <2>1
  <2>3. \A i, j \in S : i < j => f[i] < f[j]
    BY <2>1 DEF InOrder
  <2>. HIDE DEF f
  <2>4. \A i \in S : f[i] = i
    BY <1>1, <2>2, <2>3, SelfMap
  <2>. QED
    BY <2>4 DEF f
<1>9. ASSUME NEW i \in DOMAIN l PROVE EntryMeaning(kind, r[i]) = EntryMeaning(kind, l[i])
  <2>. DEFINE g == GroupOf[kind]
              t == Group(Base(old, l[i]))
  <2>1. i \in Nat /\ l[i] \in Entries(kind)
        /\ r[i] = ReadEntry(kind, WriteEntry(kind, old, l[i]), i)
    BY <1>1, <1>4
  <2>2. CASE l[i].knx = Missing
    BY <2>1, <2>2, EntryTakes DEF EntryMeaning
  <2>3. CASE l[i].knx # Missing
    <3>1. /\ kind \in DOMAIN GroupOf
          /\ r[i].knx = ReadTable(g, WriteTable(g, t, l[i].knx)) /\ r[i].knx # Missing
          /\ Plain(kind, r[i].at) = Plain(kind, l[i].at)
      BY <2>1, <2>3, EntryTakes
    <3>2. l[i].knx \in Config(g) /\ g \in DOMAIN Tables
      BY <2>1, <2>3, <3>1, Names DEF Entries
    <3>3. IsText(g, t)
      BY <3>1, BaseTyped
    <3>4. Base(old, l[i]) = old[i] /\ t = old[i].knx[1].at /\ HasGroup(old[i])
      BY <1>5, <1>7, <1>8, <2>3 DEF Base, Group, HasGroup
    <3>5. b[i].knx = ReadTable(g, t) /\ b[i].knx # Missing
      BY <1>3, <1>5, <1>7, <2>3, <3>4 DEF ReadEntry, HasGroup
    <3>6. Plain(g, l[i].knx) = Plain(g, ReadTable(g, t))
      BY <1>5, <2>3, <3>5 DEF EntryMeaning
    <3>7. ASSUME NEW k \in Keys(g) \cap DOMAIN Legacy
          PROVE  /\ Tables[g][k].out = "blank"
                 /\ ~(Legacy[k] \in DOMAIN t /\ Item(t, k) = Empty)
      <4>1. kind = "zone" /\ k \in Renamed
        BY <3>1, <3>2, LegacyNames, Names
      <4>2. Tables[g][k] = Optional
        BY <4>1, Names DEF Tables, Keys
      <4>3. d["zone"][i] = old[i] /\ i \in DOMAIN d["zone"]
        BY <1>5, <4>1, ListedFacts DEF Listed
      <4>4. ~(Older(old[i], k) /\ Item(t, k) = Empty)
        BY <3>4, <4>1, <4>3 DEF Overruled
      <4>. QED
        BY <3>4, <4>2, <4>4 DEF Optional, Key, Older, HasGroup
    <3>8. Plain(g, r[i].knx) = Plain(g, l[i].knx)
      BY <3>1, <3>2, <3>3, <3>6, <3>7, KeptUnder
    <3>. QED
      BY <2>3, <3>1, <3>8 DEF EntryMeaning
  <2>. QED
    BY <2>2, <2>3
<1>. QED
  BY <1>2, <1>5, <1>9

(* OnlyEditsChange as a fact about one save.                               *)
LEMMA SaveChanges ==
  ASSUME NEW d, IsDocument(d), NEW c, IsConfig(c), Follows(c, d)
  PROVE  LET before == Meaning(Read(d))
             after == Meaning(Read(Write(d, c)))
             meant == Meaning(c)
         IN /\ \A n \in Sections :
                 \/ after.sections[n] = meant.sections[n]
                 \/ after.sections[n] = before.sections[n]
            /\ after.options = meant.options
            /\ \A kind \in Kinds :
                 after.lists[kind] # before.lists[kind]
                   => \/ meant.lists[kind] # before.lists[kind]
                      \/ kind = "zone" /\ Overruled(d)
<1>. DEFINE w == Write(d, c)
<1>1. ASSUME NEW n \in Sections, Frozen(d, n), Frozen(w, n)
      PROVE  Meaning(Read(w)).sections[n] = Meaning(Read(d)).sections[n]
  <2>1. n # "top"
    BY <1>1 DEF Frozen, IsDocument
  <2>2. ReadSection(w, n) = Fresh(n) /\ ReadSection(d, n) = Fresh(n)
    BY <1>1, <2>1 DEF ReadSection, IsTable, Frozen
  <2>. QED
    BY <2>2 DEF Meaning, Read
<1>2. ASSUME NEW n \in Sections
      PROVE  \/ Meaning(Read(w)).sections[n] = Meaning(c).sections[n]
             \/ Meaning(Read(w)).sections[n] = Meaning(Read(d)).sections[n]
  <2>1. /\ Meaning(Read(w)).sections[n] = Plain(n, ReadSection(w, n))
        /\ Meaning(c).sections[n] = Plain(n, c.sections[n])
    BY DEF Meaning, Read
  <2>. QED
    BY <1>1, <2>1, SectionTakes
<1>3. Meaning(Read(w)).options = Meaning(c).options
  BY SaveTakes
<1>4. \A kind \in Kinds :
        Meaning(Read(w)).lists[kind] # Meaning(Read(d)).lists[kind]
          => \/ Meaning(c).lists[kind] # Meaning(Read(d)).lists[kind]
             \/ kind = "zone" /\ Overruled(d)
  BY ListKept DEF Follows
<1>. QED
  BY <1>2, <1>3, <1>4

-----------------------------------------------------------------------------
(* A table keeps what the editor does not know.                            *)
LEMMA TablesKeep ==
  ASSUME NEW d, IsDocument(d), NEW c, IsConfig(c), NEW n \in DOMAIN d.tables,
         ~(n \in Options /\ c.options[n] = Missing),
         n \in Options => ~d.tables[n].inline,
         NEW k \in DOMAIN d.tables[n].at
                     \ (IF n \in DOMAIN Tables THEN Keys(n) \cup Dropped(n) ELSE {})
  PROVE  LET w == Write(d, c)
         IN n \in DOMAIN w.tables /\ Item(w.tables[n].at, k) = d.tables[n].at[k]
<1>. DEFINE w == Write(d, c)
            t == d.tables[n].at
<1>1. CASE n \notin DOMAIN Tables
  BY <1>1, WrittenTables DEF Item
<1>2. CASE n \in Sections /\ d.tables[n].inline
  <2>1. WriteSection(d, n, c.sections[n]) = d.tables[n]
    BY <1>2 DEF WriteSection
  <2>2. WriteSection(d, n, c.sections[n]).at # <<>>
    BY <2>1
  <2>3. n \in DOMAIN w.tables /\ w.tables[n] = WriteSection(d, n, c.sections[n])
    BY <1>2, <2>2, WrittenTables
  <2>. QED
    BY <2>1, <2>3 DEF Item
<1>4. CASE n \in Sections /\ ~d.tables[n].inline
  <2>1. Under(d, n) = t
    BY <1>4 DEF Under, IsTable, At
  <2>2. WriteSection(d, n, c.sections[n])
          = [inline |-> FALSE, at |-> WriteTable(n, t, c.sections[n])]
    BY <1>4, <2>1 DEF WriteSection, Under
  <2>3. k \notin Keys(n) \cup Dropped(n)
    BY <1>4, Names
  <2>4. /\ k \in DOMAIN WriteTable(n, t, c.sections[n])
        /\ WriteTable(n, t, c.sections[n])[k] = t[k]
    BY <2>3, UnmanagedKey
  <2>5. WriteSection(d, n, c.sections[n]).at # <<>>
    BY <2>2, <2>4
  <2>6. n \in DOMAIN w.tables /\ w.tables[n] = WriteSection(d, n, c.sections[n])
    BY <1>4, <2>5, WrittenTables
  <2>. QED
    BY <2>2, <2>4, <2>6 DEF Item
<1>3. CASE n \in Options
  <2>1. Under(d, n) = t
    BY <1>3 DEF Under, IsTable, At
  <2>2. WriteOption(d, n, c.options[n])
          = [inline |-> FALSE, at |-> WriteTable(n, t, c.options[n])]
    BY <2>1 DEF WriteOption, Under
  <2>3. k \notin Keys(n) \cup Dropped(n)
    BY <1>3, Names
  <2>4. /\ k \in DOMAIN WriteTable(n, t, c.options[n])
        /\ WriteTable(n, t, c.options[n])[k] = t[k]
    BY <2>3, UnmanagedKey
  <2>5. n \in DOMAIN w.tables /\ w.tables[n] = WriteOption(d, n, c.options[n])
    BY <1>3, WrittenTables
  <2>. QED
    BY <2>2, <2>4, <2>5 DEF Item
<1>. QED
  BY <1>1, <1>2, <1>3, <1>4, Names DEF IsDocument

(* The entry of the list kind that went on from was as now: its unknown    *)
(* keys, and those of its KNX table if it keeps one, are there unchanged.  *)
EntryKept(kind, was, e, now) ==
  /\ \A k \in DOMAIN was.at \ Keys(kind) : Item(now.at, k) = was.at[k]
  /\ was.knx # <<>> /\ ~was.knx[1].inline /\ e.knx # Missing =>
       \A k \in DOMAIN was.knx[1].at \ Keys(GroupOf[kind]) :
         Item(now.knx[1].at, k) = was.knx[1].at[k]

(* So does an entry that goes on from one of the document.                 *)
LEMMA EntriesKeep ==
  ASSUME NEW d, IsDocument(d), NEW c, IsConfig(c), Follows(c, d), NEW kind \in Kinds,
         NEW i \in DOMAIN c.lists[kind], c.lists[kind][i].source # Missing
  PROVE  EntryKept(kind, d[kind][c.lists[kind][i].source], c.lists[kind][i],
                   Write(d, c)[kind][i])
<1>. DEFINE e == c.lists[kind][i]
            old == Listed(d, kind)
            was == d[kind][e.source]
            now == Write(d, c)[kind][i]
<1>1. e.source \in DOMAIN old
  BY DEF Follows, InOrder
<1>2. old[e.source] = was /\ Base(old, e) = was
  BY <1>1, ListedFacts DEF Base
<1>3. now = WriteEntry(kind, old, e)
  <2>1. Write(d, c)[kind] = WriteList(d, c, kind)
    BY WrittenLists
  <2>2. WriteList(d, c, kind)[i] = WriteEntry(kind, old, e)
    BY DEF WriteList
  <2>. QED
    BY <2>1, <2>2
<1>4. now.at = WriteTable(kind, was.at, e.at)
  BY <1>2, <1>3, WrittenEntry
<1>5. Dropped(kind) = {} /\ (kind \in DOMAIN GroupOf => Dropped(GroupOf[kind]) = {})
  BY Names DEF Dropped
<1>6. ASSUME NEW k \in DOMAIN was.at \ Keys(kind) PROVE Item(now.at, k) = was.at[k]
  BY <1>4, <1>5, UnmanagedKey DEF Item
<1>7. ASSUME was.knx # <<>>, ~was.knx[1].inline, e.knx # Missing,
             NEW k \in DOMAIN was.knx[1].at \ Keys(GroupOf[kind])
      PROVE  Item(now.knx[1].at, k) = was.knx[1].at[k]
  <2>0. IsEntry(kind, was)
    BY <1>1, <1>2, ListedFacts, Zenon
  <2>1. kind \in DOMAIN GroupOf
    BY ONLY <1>7, <2>0, Zenon DEF IsEntry
  <2>2. Group(was) = was.knx[1].at
    BY <1>7 DEF Group
  <2>3. WriteEntry(kind, old, e).knx[1].at
          = WriteTable(GroupOf[kind], Group(Base(old, e)), e.knx)
    BY <1>7, WrittenEntry
  <2>4. now.knx[1].at = WriteTable(GroupOf[kind], was.knx[1].at, e.knx)
    BY <1>2, <1>3, <2>2, <2>3
  <2>5. k \notin Keys(GroupOf[kind]) \cup Dropped(GroupOf[kind])
    BY <1>5, <1>7, <2>1
  <2>6. \A t : k \in DOMAIN t => /\ k \in DOMAIN WriteTable(GroupOf[kind], t, e.knx)
                                /\ WriteTable(GroupOf[kind], t, e.knx)[k] = t[k]
    BY <2>5, UnmanagedKey
  <2>. QED
    BY <1>7, <2>4, <2>6 DEF Item
<1>. QED
  BY <1>6, <1>7 DEF EntryKept

-----------------------------------------------------------------------------
(* What is typed on a page.                                                *)
LEMMA ConfigExcept ==
  ASSUME NEW n \in DOMAIN Tables, NEW c \in Config(n), NEW k \in Keys(n),
         NEW v \in Shown(n, k)
  PROVE  [c EXCEPT ![k] = v] \in Config(n)
  BY ShownFacts DEF Config

(* A field of a section.                                                   *)
LEMMA SectionEdited ==
  ASSUME NEW c, IsConfig(c), NEW d, Follows(c, d), NEW n \in Sections, NEW k \in Keys(n),
         NEW v \in Shown(n, k)
  PROVE  LET e == [c EXCEPT !.sections[n][k] = v]
         IN IsConfig(e) /\ Follows(e, d)
<1>. DEFINE e == [c EXCEPT !.sections[n][k] = v]
<1>1. /\ c.sections \in [Sections -> AnyTable] /\ c.sections[n] \in Config(n)
      /\ n \in DOMAIN Tables
  BY Names DEF IsConfig
<1>2. [c.sections[n] EXCEPT ![k] = v] \in Config(n)
  BY <1>1, ConfigExcept
<1>3. [c.sections[n] EXCEPT ![k] = v] \in AnyTable
  BY <1>1, <1>2 DEF AnyTable
<1>4. /\ e = [c EXCEPT !.sections =
                   [c.sections EXCEPT ![n] = [c.sections[n] EXCEPT ![k] = v]]]
      /\ e.options = c.options /\ e.lists = c.lists
      /\ e.sections = [c.sections EXCEPT ![n] = [c.sections[n] EXCEPT ![k] = v]]
  BY DEF IsConfig
<1>5. /\ e.sections \in [Sections -> AnyTable]
      /\ \A m \in Sections : e.sections[m] \in Config(m)
  BY <1>1, <1>2, <1>3, <1>4 DEF IsConfig
<1>. QED
  BY <1>4, <1>5 DEF IsConfig, Follows

(* The switch of an integration.                                           *)
LEMMA OptionsEdited ==
  ASSUME NEW c, IsConfig(c), NEW d, Follows(c, d),
         NEW o \in [Options -> AnyTable \cup {Missing}],
         \A n \in Options : o[n] \in Config(n) \cup {Missing},
         o["cache"] = Missing <=> o["subsonic"] = Missing
  PROVE  LET e == [c EXCEPT !.options = o]
         IN IsConfig(e) /\ Follows(e, d)
<1>. DEFINE e == [c EXCEPT !.options = o]
<1>1. e.options = o /\ e.sections = c.sections /\ e.lists = c.lists
  BY DEF IsConfig
<1>. QED
  BY <1>1 DEF IsConfig, Follows

(* A field of an integration.                                              *)
LEMMA OptionEdited ==
  ASSUME NEW c, IsConfig(c), NEW d, Follows(c, d),
         NEW n \in Options, c.options[n] # Missing,
         NEW k \in Keys(n), NEW v \in Shown(n, k)
  PROVE  LET e == [c EXCEPT !.options[n][k] = v]
         IN IsConfig(e) /\ Follows(e, d)
<1>. DEFINE t == [c.options[n] EXCEPT ![k] = v]
            o == [c.options EXCEPT ![n] = t]
<1>1. /\ c.options \in [Options -> AnyTable \cup {Missing}]
      /\ c.options[n] \in Config(n) /\ n \in DOMAIN Tables
  BY Names DEF IsConfig
<1>2. t \in Config(n) /\ t \in AnyTable /\ t # Missing
  BY <1>1, ConfigExcept, NotMissing DEF AnyTable
<1>3. [c EXCEPT !.options[n][k] = v] = [c EXCEPT !.options = o]
  BY DEF IsConfig
<1>4. o \in [Options -> AnyTable \cup {Missing}]
  BY <1>1, <1>2
<1>5. \A m \in Options : o[m] = IF m = n THEN t ELSE c.options[m]
  BY <1>1
<1>6. \A m \in Options : o[m] \in Config(m) \cup {Missing}
  BY <1>2, <1>5 DEF IsConfig
<1>7. {"cache", "subsonic"} \subseteq Options
  BY DEF Options
<1>8. o["cache"] = Missing <=> o["subsonic"] = Missing
  BY <1>2, <1>5, <1>7 DEF IsConfig
<1>. HIDE DEF o
<1>. QED
  BY <1>3, <1>4, <1>6, <1>8, OptionsEdited

(* Any edit of a list that keeps its entries in order.                     *)
LEMMA ListEdited ==
  ASSUME NEW c, IsConfig(c), NEW d, Follows(c, d), NEW kind \in Kinds,
         NEW l \in Seq(Entries(kind)), InOrder(l, Listed(d, kind))
  PROVE  LET e == [c EXCEPT !.lists[kind] = l]
         IN IsConfig(e) /\ Follows(e, d)
<1>. DEFINE e == [c EXCEPT !.lists[kind] = l]
<1>1. /\ e.options = c.options /\ e.sections = c.sections
      /\ e.lists = [c.lists EXCEPT ![kind] = l]
      /\ DOMAIN c.lists = Kinds
  BY DEF IsConfig
<1>2. l \in AnyEntries
  BY DEF AnyEntries
<1>3. \A m \in Kinds : e.lists[m] = IF m = kind THEN l ELSE c.lists[m]
  BY <1>1
<1>4. e.lists \in [Kinds -> AnyEntries]
  BY <1>1, <1>2 DEF IsConfig
<1>5. e \in [sections : [Sections -> AnyTable],
             options : [Options -> AnyTable \cup {Missing}],
             lists : [Kinds -> AnyEntries]]
  BY <1>1, <1>4 DEF IsConfig
<1>6. IsConfig(e)
  BY <1>1, <1>3, <1>5 DEF IsConfig
<1>7. Follows(e, d)
  BY <1>3 DEF Follows
<1>. QED
  BY <1>6, <1>7

(* An entry that keeps its source and has a KNX table if it had one.       *)
LEMMA EntryEdited ==
  ASSUME NEW c, IsConfig(c), NEW d, Follows(c, d), NEW kind \in Kinds,
         NEW i \in DOMAIN c.lists[kind], NEW x \in Entries(kind),
         x.source = c.lists[kind][i].source,
         c.lists[kind][i].knx = Missing => x.knx = Missing
  PROVE  LET e == [c EXCEPT !.lists[kind][i] = x]
         IN IsConfig(e) /\ Follows(e, d)
<1>. DEFINE l == c.lists[kind]
            m == [l EXCEPT ![i] = x]
            old == Listed(d, kind)
<1>1. l \in Seq(Entries(kind)) /\ InOrder(l, old)
  BY DEF IsConfig, Follows
<1>2. Len(l) \in Nat /\ DOMAIN l = 1..Len(l) /\ l \in [1..Len(l) -> Entries(kind)]
  BY <1>1, LenProperties
<1>3. m \in [1..Len(l) -> Entries(kind)] /\ DOMAIN m = DOMAIN l
  BY <1>2
<1>4. m \in Seq(Entries(kind))
  BY <1>2, <1>3, IndexedSeq
<1>5. \A j \in DOMAIN l : /\ m[j].source = l[j].source
                          /\ l[j].knx = Missing => m[j].knx = Missing
  BY <1>2
<1>6. InOrder(m, old)
  BY <1>1, <1>3, <1>5 DEF InOrder
<1>7. [c EXCEPT !.lists[kind][i] = x] = [c EXCEPT !.lists[kind] = m]
  BY DEF IsConfig
<1>. HIDE DEF m
<1>. QED
  BY <1>4, <1>6, <1>7, ListEdited

(* A field of an entry.                                                    *)
LEMMA EntryKeyEdited ==
  ASSUME NEW c, IsConfig(c), NEW d, Follows(c, d), NEW kind \in Kinds,
         NEW i \in DOMAIN c.lists[kind], NEW k \in Keys(kind), NEW v \in Shown(kind, k)
  PROVE  LET e == [c EXCEPT !.lists[kind][i].at[k] = v]
         IN IsConfig(e) /\ Follows(e, d)
<1>. DEFINE x == [c.lists[kind][i] EXCEPT !.at[k] = v]
<1>1. c.lists[kind][i] \in Entries(kind)
  <2>1. c.lists[kind] \in Seq(Entries(kind))
    BY DEF IsConfig
  <2>. QED
    BY <2>1
<1>2. [c.lists[kind][i].at EXCEPT ![k] = v] \in Config(kind)
  BY <1>1, ConfigExcept, Names DEF Entries
<1>3. /\ x \in Entries(kind) /\ x.source = c.lists[kind][i].source
      /\ x.knx = c.lists[kind][i].knx
  BY <1>1, <1>2 DEF Entries
<1>4. [c EXCEPT !.lists[kind][i].at[k] = v] = [c EXCEPT !.lists[kind][i] = x]
  BY DEF IsConfig
<1>. HIDE DEF x
<1>. QED
  BY <1>3, <1>4, EntryEdited

(* A field of the KNX table of an entry.                                   *)
LEMMA GroupKeyEdited ==
  ASSUME NEW c, IsConfig(c), NEW d, Follows(c, d), NEW kind \in DOMAIN GroupOf,
         NEW i \in DOMAIN c.lists[kind], c.lists[kind][i].knx # Missing,
         NEW k \in Keys(GroupOf[kind]), NEW v \in Shown(GroupOf[kind], k)
  PROVE  LET e == [c EXCEPT !.lists[kind][i].knx[k] = v]
         IN IsConfig(e) /\ Follows(e, d)
<1>. DEFINE x == [c.lists[kind][i] EXCEPT !.knx[k] = v]
<1>1. kind \in Kinds /\ GroupOf[kind] \in DOMAIN Tables
  BY Names
<1>2. c.lists[kind][i] \in Entries(kind)
  <2>1. c.lists[kind] \in Seq(Entries(kind))
    BY <1>1 DEF IsConfig
  <2>. QED
    BY <2>1
<1>3. [c.lists[kind][i].knx EXCEPT ![k] = v] \in Config(GroupOf[kind])
  BY <1>1, <1>2, ConfigExcept DEF Entries
<1>4. x \in Entries(kind) /\ x.source = c.lists[kind][i].source
  BY <1>2, <1>3 DEF Entries
<1>5. [c EXCEPT !.lists[kind][i].knx[k] = v] = [c EXCEPT !.lists[kind][i] = x]
  BY DEF IsConfig
<1>. HIDE DEF x
<1>. QED
  BY <1>1, <1>4, <1>5, EntryEdited

(* A new entry.                                                            *)
LEMMA EntryAdded ==
  ASSUME NEW c, IsConfig(c), NEW d, Follows(c, d), NEW kind \in Kinds,
         NEW x \in Entries(kind), x.source = Missing, x.knx = Missing
  PROVE  LET e == [c EXCEPT !.lists[kind] = Append(@, x)]
         IN IsConfig(e) /\ Follows(e, d)
<1>. DEFINE l == c.lists[kind]
            m == Append(l, x)
            old == Listed(d, kind)
<1>1. l \in Seq(Entries(kind)) /\ InOrder(l, old)
  BY DEF IsConfig, Follows
<1>2. Len(l) \in Nat /\ DOMAIN l = 1..Len(l)
  BY <1>1, LenProperties
<1>3. /\ m \in Seq(Entries(kind)) /\ Len(m) = Len(l) + 1
      /\ \A j \in 1..Len(l) : m[j] = l[j]
      /\ m[Len(l) + 1] = x
  BY <1>1, AppendProperties
<1>4. DOMAIN m = 1..(Len(l) + 1)
  BY <1>3, LenProperties
<1>5. \A j \in DOMAIN m : (j \in DOMAIN l /\ m[j] = l[j]) \/ m[j] = x
  BY <1>2, <1>3, <1>4
<1>6. InOrder(m, old)
  BY <1>1, <1>5 DEF InOrder
<1>7. [c EXCEPT !.lists[kind] = Append(@, x)] = [c EXCEPT !.lists[kind] = m]
  BY DEF IsConfig
<1>. HIDE DEF m
<1>. QED
  BY <1>3, <1>6, <1>7, ListEdited

(* What RemoveAt leaves.                                                   *)
LEMMA RemoveAtProperties ==
  ASSUME NEW S, NEW s \in Seq(S), NEW i \in DOMAIN s
  PROVE  /\ RemoveAt(s, i) \in Seq(S)
         /\ DOMAIN RemoveAt(s, i) = 1..(Len(s) - 1)
         /\ \A j \in 1..(Len(s) - 1) :
              RemoveAt(s, i)[j] = IF j < i THEN s[j] ELSE s[j + 1]
<1>. DEFINE a == SubSeq(s, 1, i - 1)
            b == SubSeq(s, i + 1, Len(s))
<1>1. Len(s) \in Nat /\ i \in 1..Len(s) /\ \A j \in 1..Len(s) : s[j] \in S
  BY LenProperties
<1>2. /\ a \in Seq(S) /\ Len(a) = i - 1
      /\ \A j \in 1..(i - 1) : a[j] = s[j]
  <2>1. /\ 1 \in Int /\ i - 1 \in Int /\ \A j \in 1..(i - 1) : s[j] \in S
        /\ (IF 1 <= i - 1 THEN i - 1 - 1 + 1 ELSE 0) = i - 1
        /\ i - 1 - 1 + 1 = i - 1 /\ \A j \in 1..(i - 1) : 1 + j - 1 = j
    BY <1>1
  <2>. QED
    BY <2>1, SubSeqProperties
<1>3. /\ b \in Seq(S) /\ Len(b) = Len(s) - i
      /\ \A j \in 1..(Len(s) - i) : b[j] = s[i + j]
  <2>1. i + 1 \in Int /\ Len(s) \in Int /\ \A j \in (i + 1)..Len(s) : s[j] \in S
    BY <1>1
  <2>2. /\ b \in Seq(S)
        /\ Len(b) = IF i + 1 <= Len(s) THEN Len(s) - (i + 1) + 1 ELSE 0
        /\ \A j \in 1..(Len(s) - (i + 1) + 1) : b[j] = s[i + 1 + j - 1]
    BY <2>1, SubSeqProperties
  <2>3. Len(b) = Len(s) - i
    BY <1>1, <2>2
  <2>4. /\ Len(s) - (i + 1) + 1 = Len(s) - i
        /\ \A j \in 1..(Len(s) - i) : i + 1 + j - 1 = i + j
    BY <1>1
  <2>. QED
    BY <2>2, <2>3, <2>4
<1>. HIDE DEF a, b
<1>4. RemoveAt(s, i) = a \o b
  BY DEF RemoveAt, a, b
<1>5. /\ a \o b \in Seq(S) /\ Len(a \o b) = Len(a) + Len(b)
      /\ \A j \in 1..(Len(a) + Len(b)) :
           (a \o b)[j] = IF j <= Len(a) THEN a[j] ELSE b[j - Len(a)]
  BY <1>2, <1>3, ConcatProperties
<1>6. DOMAIN (a \o b) = 1..Len(a \o b)
  BY <1>5, LenProperties
<1>7. Len(a) + Len(b) = Len(s) - 1
  BY <1>1, <1>2, <1>3
<1>8. ASSUME NEW j \in 1..(Len(s) - 1)
      PROVE  (a \o b)[j] = IF j < i THEN s[j] ELSE s[j + 1]
  <2>1. CASE j < i
    BY <1>1, <1>2, <1>5, <1>7, <2>1
  <2>2. CASE j >= i
    <3>1. j - (i - 1) \in 1..(Len(s) - i) /\ i + (j - (i - 1)) = j + 1
      BY <1>1, <2>2
    <3>2. (a \o b)[j] = b[j - (i - 1)]
      BY <1>1, <1>2, <1>5, <1>7, <2>2
    <3>3. b[j - (i - 1)] = s[i + (j - (i - 1))]
      BY <1>3, <3>1
    <3>. QED
      BY <1>1, <2>2, <3>1, <3>2, <3>3
  <2>3. j < i \/ j >= i
    BY <1>1
  <2>. QED
    BY <2>1, <2>2, <2>3
<1>. QED
  BY <1>4, <1>5, <1>6, <1>7, <1>8

(* An entry taken out.                                                     *)
LEMMA EntryRemoved ==
  ASSUME NEW c, IsConfig(c), NEW d, Follows(c, d), NEW kind \in Kinds,
         NEW i \in DOMAIN c.lists[kind]
  PROVE  LET e == [c EXCEPT !.lists[kind] = RemoveAt(@, i)]
         IN IsConfig(e) /\ Follows(e, d)
<1>. DEFINE l == c.lists[kind]
            m == RemoveAt(l, i)
            old == Listed(d, kind)
            from(j) == IF j < i THEN j ELSE j + 1
<1>1. l \in Seq(Entries(kind)) /\ InOrder(l, old)
  BY DEF IsConfig, Follows
<1>2. Len(l) \in Nat /\ DOMAIN l = 1..Len(l)
  BY <1>1, LenProperties
<1>3. /\ m \in Seq(Entries(kind)) /\ DOMAIN m = 1..(Len(l) - 1)
      /\ \A j \in DOMAIN m : m[j] = l[from(j)]
  BY <1>1, RemoveAtProperties
<1>4. /\ \A j \in DOMAIN m : from(j) \in DOMAIN l
      /\ \A j, n \in DOMAIN m : j < n => from(j) < from(n)
  BY <1>2, <1>3
<1>. HIDE DEF m, from
<1>5. InOrder(m, old)
  BY <1>1, <1>3, <1>4 DEF InOrder
<1>6. [c EXCEPT !.lists[kind] = RemoveAt(@, i)] = [c EXCEPT !.lists[kind] = m]
  BY DEF IsConfig, m
<1>. QED
  BY <1>3, <1>5, <1>6, ListEdited

(* What the page fills in when an integration is switched on.              *)
LEMMA FilledTyped == ASSUME NEW n \in Options PROVE Filled(n) \in Config(n)
<1>1. n \in DOMAIN Tables /\ Fresh(n) \in Config(n)
  BY FreshTyped, Names
<1>2. CASE n = "mqtt"
  <2>1. "base_topic" \in Keys(n) /\ Tables[n]["base_topic"].type = "text"
    BY <1>2 DEF Keys, Tables, Mqtt, Text, Key
  <2>2. "snapdog/" \in Shown(n, "base_topic")
    BY <2>1, ValuesAre, TextsAssumption DEF Shown
  <2>. QED
    BY <1>1, <1>2, <2>1, <2>2, ConfigExcept DEF Filled
<1>3. CASE n # "mqtt"
  BY <1>1, <1>3 DEF Filled
<1>. QED
  BY <1>2, <1>3

(* What the page fills in for a new entry.                                 *)
LEMMA NewEntryTyped ==
  ASSUME NEW c, IsConfig(c), NEW kind \in Kinds
  PROVE  /\ NewEntry(c, kind) \in Entries(kind)
         /\ NewEntry(c, kind).source = Missing /\ NewEntry(c, kind).knx = Missing
<1>. DEFINE zones == c.lists.zone
            at == CASE kind = "zone" -> [Fresh(kind) EXCEPT !.icon = "speaker"]
                    [] kind = "client" /\ zones # <<>> ->
                         [Fresh(kind) EXCEPT !.zone = zones[1].at.name]
                    [] OTHER -> Fresh(kind)
<1>1. kind \in DOMAIN Tables /\ Fresh(kind) \in Config(kind)
  BY FreshTyped, Names
<1>2. CASE kind = "zone"
  <2>1. "icon" \in Keys(kind) /\ Tables[kind]["icon"].type = "text"
    BY <1>2 DEF Keys, Tables, Zone, Text, Key
  <2>2. "speaker" \in Shown(kind, "icon")
    BY <2>1, ValuesAre, TextsAssumption DEF Shown
  <2>. QED
    BY <1>1, <1>2, <2>1, <2>2, ConfigExcept DEF NewEntry, Entries
<1>3. CASE kind = "client" /\ zones # <<>>
  <2>1. "zone" \in Keys(kind) /\ Tables[kind]["zone"].type = "text"
    BY <1>3 DEF Keys, Tables, Client, Text, Key
  <2>2. "name" \in Keys("zone") /\ Tables["zone"]["name"] = Text(Empty)
        /\ "zone" \in Kinds /\ "zone" \in DOMAIN Tables
    BY Names DEF Keys, Tables, Zone
  <2>3. zones \in Seq(Entries("zone"))
    BY <2>2 DEF IsConfig
  <2>4. zones[1] \in Entries("zone")
    BY <1>3, <2>3, LenProperties, EmptySeq
  <2>5. zones[1].at \in Config("zone")
    BY <2>4 DEF Entries
  <2>6. zones[1].at["name"] \in Shown("zone", "name")
    BY <2>2, <2>5 DEF Config
  <2>7. Shown("zone", "name") = STRING
    BY <2>2, ValuesAre, TextsAssumption DEF Shown, Default, Text, Key
  <2>8. zones[1].at.name \in Shown(kind, "zone")
    BY <2>1, <2>6, <2>7, ValuesAre DEF Shown
  <2>9. [Fresh(kind) EXCEPT !.zone = zones[1].at.name] \in Config(kind)
    BY <1>1, <2>1, <2>8, ConfigExcept
  <2>10. at = [Fresh(kind) EXCEPT !.zone = zones[1].at.name]
    BY <1>3
  <2>. QED
    BY <2>9, <2>10 DEF NewEntry, Entries
<1>4. CASE ~(kind = "zone") /\ ~(kind = "client" /\ zones # <<>>)
  <2>1. at = Fresh(kind)
    BY <1>4
  <2>. QED
    BY <1>1, <2>1 DEF NewEntry, Entries
<1>. QED
  BY <1>2, <1>3, <1>4

-----------------------------------------------------------------------------
(* The inductive invariant: the file is a document, and every open page    *)
(* holds a configuration that follows the document it was read from.       *)
PageSound(p) ==
  \/ p = Closed
  \/ IsDocument(p.source) /\ IsConfig(p.config) /\ Follows(p.config, p.source)

PagesSound ==
  /\ spot \in Spots
  /\ IsDocument(file)
  /\ DOMAIN pages = Users /\ DOMAIN saves = Users
  /\ \A u \in Users :
       DOMAIN pages[u] = {"source", "config"} /\ PageSound(pages[u])

IInv == PagesSound /\ EditsTake

(* The invariant holds at first.                                           *)
LEMMA InitSound == Init => IInv
<1>. SUFFICES ASSUME Init PROVE IInv
  OBVIOUS
<1>1. EditsTake
  BY DEF Init, EditsTake
<1>2. IsDocument(file)
  BY DocumentsAssumption DEF Init
<1>3. \A u \in Users : pages[u] = Closed
  BY DEF Init
<1>. QED
  BY <1>1, <1>2, <1>3 DEF IInv, PagesSound, PageSound, Init, Closed

(* An edit keeps it if what the page then holds still follows its          *)
(* document.                                                               *)
LEMMA EditKeeps ==
  ASSUME PagesSound, NEW u \in Users, NEW e, Edit(u, e), Open(u),
         IsConfig(e) /\ Follows(e, pages[u].source)
  PROVE  PagesSound'
<1>1. pages' = [pages EXCEPT ![u].config = e] /\ UNCHANGED <<file, spot, saves>>
  BY DEF Edit
<1>2. DOMAIN pages' = Users /\ \A v \in Users : v # u => pages'[v] = pages[v]
  BY <1>1 DEF PagesSound
<1>3. /\ DOMAIN pages'[u] = {"source", "config"}
      /\ pages'[u].source = pages[u].source /\ pages'[u].config = e
  BY <1>1 DEF PagesSound
<1>4. IsDocument(pages[u].source)
  BY DEF PagesSound, PageSound, Open
<1>5. PageSound(pages'[u])
  BY <1>3, <1>4 DEF PageSound
<1>. QED
  BY <1>1, <1>2, <1>3, <1>5 DEF PagesSound

(* What the invariant says of an open page.                                *)
LEMMA OpenPage ==
  ASSUME PagesSound, NEW u \in Users, Open(u)
  PROVE  /\ IsDocument(pages[u].source) /\ IsConfig(pages[u].config)
         /\ Follows(pages[u].config, pages[u].source)
  BY DEF PagesSound, PageSound, Open

(* Typing keeps it.                                                        *)
LEMMA EditFieldKeeps ==
  ASSUME PagesSound, NEW u \in Users, Open(u), EditField(u)
  PROVE  PagesSound'
<1>. DEFINE n == spot[1]
            k == spot[2]
            c == pages[u].config
            d == pages[u].source
<1>1. n \in DOMAIN Tables /\ k \in Keys(n) /\ Typed[spot] \subseteq Shown(n, k)
  BY TypedAssumption DEF PagesSound
<1>2. IsConfig(c) /\ Follows(c, d)
  BY OpenPage
<1>3. PICK v \in Typed[spot] :
        \/ n \in Sections /\ Edit(u, [c EXCEPT !.sections[n][k] = v])
        \/ /\ n \in Options
           /\ c.options[n] # Missing
           /\ Edit(u, [c EXCEPT !.options[n][k] = v])
        \/ /\ n \in Kinds
           /\ \E i \in DOMAIN c.lists[n] :
                Edit(u, [c EXCEPT !.lists[n][i].at[k] = v])
        \/ \E kind \in DOMAIN GroupOf :
             /\ n = GroupOf[kind]
             /\ \E i \in DOMAIN c.lists[kind] :
                  /\ c.lists[kind][i].knx # Missing
                  /\ Edit(u, [c EXCEPT !.lists[kind][i].knx[k] = v])
  BY Zenon DEF EditField
<1>4. v \in Shown(n, k)
  BY <1>1
<1>. HIDE DEF n, k, c
<1>5. CASE n \in Sections /\ Edit(u, [c EXCEPT !.sections[n][k] = v])
  <2>1. LET e == [c EXCEPT !.sections[n][k] = v] IN IsConfig(e) /\ Follows(e, d)
    BY <1>1, <1>2, <1>4, <1>5, SectionEdited
  <2>. QED
    BY <1>5, <2>1, EditKeeps
<1>6. CASE /\ n \in Options
           /\ c.options[n] # Missing
           /\ Edit(u, [c EXCEPT !.options[n][k] = v])
  <2>1. LET e == [c EXCEPT !.options[n][k] = v] IN IsConfig(e) /\ Follows(e, d)
    BY <1>1, <1>2, <1>4, <1>6, OptionEdited
  <2>. QED
    BY <1>6, <2>1, EditKeeps
<1>7. CASE /\ n \in Kinds
           /\ \E i \in DOMAIN c.lists[n] :
                Edit(u, [c EXCEPT !.lists[n][i].at[k] = v])
  <2>1. PICK i \in DOMAIN c.lists[n] : Edit(u, [c EXCEPT !.lists[n][i].at[k] = v])
    BY <1>7
  <2>2. LET e == [c EXCEPT !.lists[n][i].at[k] = v] IN IsConfig(e) /\ Follows(e, d)
    BY <1>1, <1>2, <1>4, <1>7, EntryKeyEdited
  <2>. QED
    BY <2>1, <2>2, EditKeeps
<1>8. CASE \E kind \in DOMAIN GroupOf :
             /\ n = GroupOf[kind]
             /\ \E i \in DOMAIN c.lists[kind] :
                  /\ c.lists[kind][i].knx # Missing
                  /\ Edit(u, [c EXCEPT !.lists[kind][i].knx[k] = v])
  <2>0. PICK kind \in DOMAIN GroupOf :
          /\ n = GroupOf[kind]
          /\ \E i \in DOMAIN c.lists[kind] :
               /\ c.lists[kind][i].knx # Missing
               /\ Edit(u, [c EXCEPT !.lists[kind][i].knx[k] = v])
    BY <1>8
  <2>1. PICK i \in DOMAIN c.lists[kind] :
          /\ c.lists[kind][i].knx # Missing
          /\ Edit(u, [c EXCEPT !.lists[kind][i].knx[k] = v])
    BY <2>0
  <2>2. LET e == [c EXCEPT !.lists[kind][i].knx[k] = v] IN IsConfig(e) /\ Follows(e, d)
    BY <1>1, <1>2, <1>4, <2>0, <2>1, GroupKeyEdited
  <2>. QED
    BY <2>1, <2>2, EditKeeps
<1>. QED
  BY <1>3, <1>5, <1>6, <1>7, <1>8

(* So does a switch,                                                       *)
LEMMA ToggleKeeps ==
  ASSUME PagesSound, NEW u \in Users, Open(u), Toggle(u)
  PROVE  PagesSound'
<1>. DEFINE n == IF spot[1] = "cache" THEN "subsonic" ELSE spot[1]
            both == IF n = "subsonic" THEN {n, "cache"} ELSE {n}
            c == pages[u].config
            d == pages[u].source
            o == [m \in Options |->
                    CASE m \notin both -> c.options[m]
                      [] m \in both /\ c.options[n] = Missing -> Filled(m)
                      [] OTHER -> Missing]
<1>1. n \in Options /\ Edit(u, [c EXCEPT !.options = o])
  BY DEF Toggle
<1>2. IsConfig(c) /\ Follows(c, d)
  BY OpenPage
<1>3. \A m \in Options : Filled(m) \in Config(m) /\ Filled(m) # Missing
                         /\ Config(m) \subseteq AnyTable
  BY FilledTyped, NotMissing, Names DEF AnyTable
<1>4. \A m \in Options : o[m] \in Config(m) \cup {Missing}
  BY <1>2, <1>3 DEF IsConfig
<1>5. o \in [Options -> AnyTable \cup {Missing}]
  BY <1>3, <1>4
<1>6. {"cache", "subsonic"} \subseteq Options /\ n # "cache"
  BY DEF Options
<1>7. "cache" \in both <=> "subsonic" \in both
  BY <1>6
<1>8. o["cache"] = Missing <=> o["subsonic"] = Missing
  BY <1>2, <1>3, <1>6, <1>7 DEF IsConfig
<1>. HIDE DEF o
<1>. QED
  BY <1>1, <1>2, <1>4, <1>5, <1>8, OptionsEdited, EditKeeps

(* an entry added or removed,                                              *)
LEMMA EntriesKept ==
  ASSUME PagesSound, NEW u \in Users, Open(u), NEW kind \in Kinds,
         AddEntry(u, kind) \/ RemoveEntry(u, kind)
  PROVE  PagesSound'
<1>. DEFINE c == pages[u].config
            d == pages[u].source
<1>1. IsConfig(c) /\ Follows(c, d)
  BY OpenPage
<1>2. CASE AddEntry(u, kind)
  <2>1. LET e == [c EXCEPT !.lists[kind] = Append(@, NewEntry(c, kind))]
        IN IsConfig(e) /\ Follows(e, d)
    BY <1>1, NewEntryTyped, EntryAdded
  <2>. QED
    BY <1>2, <2>1, EditKeeps DEF AddEntry
<1>3. CASE RemoveEntry(u, kind)
  <2>1. PICK i \in DOMAIN c.lists[kind] :
          Edit(u, [c EXCEPT !.lists[kind] = RemoveAt(@, i)])
    BY <1>3 DEF RemoveEntry
  <2>2. LET e == [c EXCEPT !.lists[kind] = RemoveAt(@, i)]
        IN IsConfig(e) /\ Follows(e, d)
    BY <1>1, EntryRemoved
  <2>. QED
    BY <2>1, <2>2, EditKeeps
<1>. QED
  BY <1>2, <1>3

(* a page loaded,                                                          *)
LEMMA LoadKeeps ==
  ASSUME PagesSound, NEW u \in Users, Load(u)
  PROVE  PagesSound'
<1>. DEFINE p == [source |-> file, config |-> Read(file)]
<1>1. pages' = [pages EXCEPT ![u] = p] /\ UNCHANGED <<file, spot, saves>>
  BY DEF Load
<1>2. PageSound(p) /\ DOMAIN p = {"source", "config"}
  BY ReadConfig DEF PagesSound, PageSound
<1>. QED
  BY <1>1, <1>2 DEF PagesSound

(* a form saved, which the next page then shows,                           *)
LEMMA SaveKeeps ==
  ASSUME PagesSound, NEW u \in Users, Open(u), Save(u)
  PROVE  PagesSound' /\ EditsTake'
<1>. DEFINE c == pages[u].config
<1>1. /\ pages[u].source = file /\ file' = Write(file, c) /\ wrote' = c
      /\ saves' = [saves EXCEPT ![u] = @ + 1]
      /\ UNCHANGED <<pages, spot>>
  BY DEF Save, Replace, Accepted
<1>2. IsDocument(file) /\ IsConfig(c) /\ Follows(c, file)
  BY <1>1, OpenPage
<1>3. IsDocument(file')
  BY <1>1, <1>2, WriteTyping
<1>4. PagesSound'
  BY <1>1, <1>3 DEF PagesSound
<1>. HIDE DEF c
<1>5. EditsTake'
  BY <1>1, <1>2, SaveTakes DEF EditsTake
<1>. QED
  BY <1>4, <1>5

(* and a document from the advanced editor.                                *)
LEMMA SaveRawKeeps ==
  ASSUME PagesSound, NEW u \in Users, SaveRaw(u)
  PROVE  PagesSound' /\ EditsTake'
<1>1. PICK d \in Raw : Replace(u, d)
  BY DEF SaveRaw
<1>2. IsDocument(d)
  BY DocumentsAssumption
<1>3. /\ file' = d /\ saves' = [saves EXCEPT ![u] = @ + 1]
      /\ UNCHANGED <<pages, spot>> /\ wrote' = Missing
  BY <1>1 DEF Replace, SaveRaw
<1>. QED
  BY <1>2, <1>3 DEF PagesSound, EditsTake

(* Loads and edits leave the file and what was saved alone.                *)
LEMMA OthersTake ==
  ASSUME NEW u \in Users,
         \/ Load(u) \/ EditField(u) \/ Toggle(u)
         \/ \E kind \in Kinds : AddEntry(u, kind) \/ RemoveEntry(u, kind)
  PROVE  file' = file /\ wrote' = wrote /\ saves' = saves
  BY DEF Load, EditField, Toggle, AddEntry, RemoveEntry, Edit

(* The invariant is inductive.                                             *)
LEMMA StepSound == IInv /\ [Next]_vars => IInv'
<1>. SUFFICES ASSUME IInv, [Next]_vars PROVE IInv'
  OBVIOUS
<1>1. CASE UNCHANGED vars
  <2>1. PagesSound'
    BY <1>1 DEF IInv, PagesSound, vars
  <2>2. EditsTake'
    BY <1>1 DEF IInv, EditsTake, vars
  <2>. QED
    BY <2>1, <2>2 DEF IInv
<1>2. CASE Next
  <2>1. PICK u \in Users :
          \/ Load(u)
          \/ /\ Open(u)
             /\ \/ EditField(u) \/ Toggle(u) \/ Save(u) \/ SaveRaw(u)
                \/ \E kind \in Kinds : AddEntry(u, kind) \/ RemoveEntry(u, kind)
    BY <1>2 DEF Next
  <2>2. ASSUME file' = file, wrote' = wrote PROVE EditsTake'
    BY <2>2 DEF IInv, EditsTake
  <2>3. CASE Load(u)
    BY <2>2, <2>3, LoadKeeps, OthersTake DEF IInv
  <2>4. CASE Open(u) /\ EditField(u)
    BY <2>2, <2>4, EditFieldKeeps, OthersTake DEF IInv
  <2>5. CASE Open(u) /\ Toggle(u)
    BY <2>2, <2>5, ToggleKeeps, OthersTake DEF IInv
  <2>6. CASE Open(u) /\ Save(u)
    BY <2>6, SaveKeeps DEF IInv
  <2>7. CASE SaveRaw(u)
    BY <2>7, SaveRawKeeps DEF IInv
  <2>8. ASSUME Open(u), NEW kind \in Kinds, AddEntry(u, kind) \/ RemoveEntry(u, kind)
        PROVE  IInv'
    BY <2>2, <2>8, EntriesKept, OthersTake DEF IInv
  <2>. QED
    BY <2>1, <2>3, <2>4, <2>5, <2>6, <2>7, <2>8
<1>. QED
  BY <1>1, <1>2

(* What the reader finds in the file it can take, whatever pages saved     *)
(* before, and an open page holds values of the right types whose entries  *)
(* come, in order, from the document the page was read from                *)
(* (parse_document, apply_config).                                         *)
THEOREM DocumentInvariant == Spec => []IInv
<1>1. Init => IInv
  BY InitSound
<1>2. IInv /\ [Next]_vars => IInv'
  BY StepSound
<1>. QED
  BY <1>1, <1>2, PTL DEF Spec

(* What a form saved is what the next page shows (parse_document after     *)
(* apply_config), for every document and every edit: sections that are not *)
(* inline, integrations, zones, clients and radios.  Exceptions: a zone    *)
(* KNX address that only an older key names.                               *)
THEOREM SavedIsShown == Spec => []EditsTake
<1>1. IInv => EditsTake
  BY DEF IInv
<1>. QED
  BY <1>1, DocumentInvariant, PTL

(* What a save of a form did, from the invariant.                          *)
LEMMA FormSaves ==
  ASSUME PagesSound, [Next]_vars, NEW u \in Users, FormSave(u)
  PROVE  LET c == pages[u].config
         IN /\ pages[u].source = file /\ file' = Write(file, c)
            /\ IsDocument(file) /\ IsConfig(c) /\ Follows(c, file)
<1>1. Next /\ saves'[u] # saves[u] /\ wrote' # Missing
  BY DEF FormSave, vars
<1>2. PICK v \in Users :
        \/ Load(v)
        \/ /\ Open(v)
           /\ \/ EditField(v) \/ Toggle(v) \/ Save(v) \/ SaveRaw(v)
              \/ \E kind \in Kinds : AddEntry(v, kind) \/ RemoveEntry(v, kind)
  BY <1>1 DEF Next
<1>3. Open(v) /\ Save(v)
  <2>1. ~(SaveRaw(v))
    BY <1>1 DEF SaveRaw
  <2>. QED
    BY <1>1, <1>2, <2>1, OthersTake
<1>4. saves' = [saves EXCEPT ![v] = @ + 1] /\ DOMAIN saves = Users
  BY <1>3 DEF Save, Replace, PagesSound
<1>5. v = u
  BY <1>1, <1>4
<1>6. pages[u].source = file /\ file' = Write(file, pages[u].config)
  BY <1>3, <1>5 DEF Save, Replace, Accepted
<1>. QED
  BY <1>3, <1>5, <1>6, OpenPage

(* A save changes nothing its user did not change on the page              *)
(* (server_config.rs:21): what another page saved meanwhile stays, because *)
(* the revision refuses a page that was read before, and so does what the  *)
(* page only showed because the document left it out.  The one exception   *)
(* is a blank KNX address over an older name of it.                        *)
THEOREM SavesChangeEdits == Spec => OnlyEditsChange
<1>. DEFINE Changes(u) ==
       LET before == Meaning(Read(file))
           after == Meaning(Read(file'))
           shown == Meaning(Read(pages[u].source))
           meant == Meaning(pages[u].config)
       IN /\ \A n \in Sections : \A k \in Keys(n) :
               after.sections[n][k] # before.sections[n][k]
                 => meant.sections[n][k] # shown.sections[n][k]
          /\ \A n \in Options :
               after.options[n] # before.options[n]
                 => meant.options[n] # shown.options[n]
          /\ \A kind \in Kinds :
               after.lists[kind] # before.lists[kind]
                 => \/ meant.lists[kind] # shown.lists[kind]
                    \/ kind = "zone" /\ Overruled(file)
<1>1. ASSUME IInv, [Next]_vars, NEW u \in Users, FormSave(u) PROVE Changes(u)
  <2>. DEFINE c == pages[u].config
  <2>1. /\ pages[u].source = file /\ file' = Write(file, c)
        /\ IsDocument(file) /\ IsConfig(c) /\ Follows(c, file)
    BY <1>1, FormSaves DEF IInv
  <2>. HIDE DEF c
  <2>2. LET before == Meaning(Read(file))
            after == Meaning(Read(file'))
            meant == Meaning(c)
        IN /\ \A n \in Sections :
                \/ after.sections[n] = meant.sections[n]
                \/ after.sections[n] = before.sections[n]
           /\ after.options = meant.options
           /\ \A kind \in Kinds :
                after.lists[kind] # before.lists[kind]
                  => \/ meant.lists[kind] # before.lists[kind]
                     \/ kind = "zone" /\ Overruled(file)
    BY <2>1, SaveChanges
  <2>. QED
    BY <2>1, <2>2 DEF c
<1>2. IInv /\ [Next]_vars => (\A u \in Users : FormSave(u) => Changes(u))
  BY <1>1
<1>. QED
  BY <1>2, DocumentInvariant, PTL DEF OnlyEditsChange, Spec

(* What UnknownFollows says of a save of c over d, as w.                   *)
TablesKept(d, c, w) ==
  \A n \in DOMAIN d.tables :
    LET t == d.tables[n]
    IN \/ n \in Options /\ c.options[n] = Missing
       \/ n \in Options /\ t.inline
       \/ \A k \in DOMAIN t.at \ (IF n \in DOMAIN Tables
                                THEN Keys(n) \cup Dropped(n) ELSE {}) :
            n \in DOMAIN w.tables /\ Item(w.tables[n].at, k) = t.at[k]

ListsKept(inline, d, c, w) ==
  \A kind \in Kinds \ inline : \A i \in DOMAIN c.lists[kind] :
    LET e == c.lists[kind][i]
    IN e.source # Missing => EntryKept(kind, d[kind][e.source], e, w[kind][i])

(* UnknownFollows as a fact about one save.                                *)
LEMMA SaveKeepsUnknown ==
  ASSUME NEW d, IsDocument(d), NEW c, IsConfig(c), Follows(c, d)
  PROVE  TablesKept(d, c, Write(d, c)) /\ ListsKept(d.inline, d, c, Write(d, c))
<1>1. TablesKept(d, c, Write(d, c))
  BY TablesKeep DEF TablesKept
<1>2. ListsKept(d.inline, d, c, Write(d, c))
  BY EntriesKeep DEF ListsKept
<1>. QED
  BY <1>1, <1>2

(* Keys and tables the editor does not know survive the save of a form     *)
(* (server_config.rs:239), and in a list they stay with their entry when   *)
(* others are added and removed before it; all but what is in an           *)
(* integration, a list or a KNX table written inline, which a save drops.  *)
THEOREM UnknownKept == Spec => UnknownFollows
<1>. DEFINE Follow(u) == /\ TablesKept(file, pages[u].config, file')
                         /\ ListsKept(file.inline, pages[u].source, pages[u].config, file')
<1>1. ASSUME IInv, [Next]_vars, NEW u \in Users, FormSave(u) PROVE Follow(u)
  <2>. DEFINE c == pages[u].config
  <2>1. /\ pages[u].source = file /\ file' = Write(file, c)
        /\ IsDocument(file) /\ IsConfig(c) /\ Follows(c, file)
    BY <1>1, FormSaves DEF IInv
  <2>. QED
    BY <2>1, SaveKeepsUnknown
<1>2. IInv /\ [Next]_vars => (\A u \in Users : FormSave(u) => Follow(u))
  BY <1>1
<1>3. Spec => [][\A u \in Users : FormSave(u) => Follow(u)]_vars
  BY <1>2, DocumentInvariant, PTL DEF Spec
<1>. QED
  BY <1>3 DEF UnknownFollows, TablesKept, ListsKept, EntryKept
=============================================================================
