--------------------------- MODULE ServerDocument ---------------------------
(***************************************************************************)
(* The server configuration snapdog.toml and the pages that edit it        *)
(* (server_config.rs, the server card of page.tsx): what a page shows of a *)
(* document, what a save writes back into it, what a save refuses, and the *)
(* revision that keeps two pages from overwriting each other.  How a save  *)
(* is staged, activated and rolled back is ServerApply; here it either     *)
(* replaces the document or leaves it alone.                               *)
(* Simplifications:                                                        *)
(*   - a document is what its tables hold; comments, order and white space *)
(*     are left out, and a text that is blank is the empty text;           *)
(*   - the revision, a hash of the text, is the document itself;           *)
(*   - Odd stands for a value of the wrong type or out of range;           *)
(*   - an inline table (http = { port = 80 }) holds what a table holds, in *)
(*     a form that toml_edit's as_table does not accept.                   *)
(***************************************************************************)
EXTENDS Integers, SequencesExt

CONSTANTS
  Users,       \* the open pages
  Missing,     \* no such key, table or entry
  Odd,         \* a value the reader cannot take
  Parts,       \* the numbers a KNX address is written with, by its text
  Mac,         \* a MAC address in lower case, by its text; Missing if malformed
  Start,       \* documents the file may hold at first
  Raw,         \* documents written in the advanced editor
  Spots,       \* keys the pages edit, as <<table, key>>
  Typed,       \* what may be typed there, by spot
  MaxEdits,    \* bounds: edits of all pages,
  MaxSaves     \* and saves

ASSUME LimitsAssumption == MaxEdits \in Nat /\ MaxSaves \in Nat
-----------------------------------------------------------------------------
(* How a key is read and written: what it holds (get_str, get_u32,         *)
(* get_bool, get_bind), what a page shows when it is missing, and when it  *)
(* is left out: never, at that value, or when blank as well.               *)
Empty == ""
Key(type, default, out) == [type |-> type, default |-> default, out |-> out]

Values == [text |-> STRING, number |-> Int, switch |-> BOOLEAN, list |-> Seq(STRING)]

Text(v) == Key("text", v, "never")
Number(v) == Key("number", v, "never")
On == Key("switch", TRUE, "never")
Off == Key("switch", FALSE, "never")
Elided(type, v) == Key(type, v, "default")
Kept(type) == Key(type, Missing, "default")
Optional == Key("text", Missing, "blank")
Several == Key("list", <<>>, "default")

Top == [name |-> Text("SnapDog")]
Network == [bind |-> Several]
Http == [
  port |-> Number(5555), base_url |-> Text("http://localhost:5555"),
  api_docs |-> On, tls_cert |-> Optional, tls_key |-> Optional,
  bind |-> Several, api_keys |-> Several]
System == [
  log_level |-> Text("info"), state_dir |-> Text("/var/lib/snapdog"),
  log_file |-> Optional]
Audio == [
  sample_rate |-> Number(48000), bit_depth |-> Number(16),
  channels |-> Number(2), source_conflict |-> Text("last_wins"),
  zone_switch_fade_ms |-> Number(300), source_switch_fade_ms |-> Number(300)]
Snapcast == [
  address |-> Text("127.0.0.1"), jsonrpc_tcp_port |-> Number(1705),
  streaming_port |-> Number(1704), managed |-> On,
  verbose |-> Off, codec |-> Text("flac"),
  group_volume_mode |-> Text("relative"), unknown_clients |-> Text("accept"),
  streaming_bind |-> Optional, default_zone |-> Optional,
  encryption_psk |-> Kept("text")]
Mdns == [enabled |-> On, advertise_snapcast |-> Off]
Dbus == [enabled |-> On]

Subsonic == [
  url |-> Text(Empty), username |-> Text(Empty), password |-> Text(Empty),
  tls_skip_verify |-> Off, format |-> Elided("text", "raw")]
Cache == [max_size_mb |-> Number(2048), path |-> Elided("text", Empty)]
Spotify == [name |-> Text("SnapDog"), bitrate |-> Number(320)]
Airplay == [
  mode |-> Elided("text", "airplay2"), password |-> Kept("text"),
  bind |-> Several]
Mqtt == [
  broker |-> Text(Empty), client_id |-> Text("snapdog"),
  base_topic |-> Text("snapdog"), username |-> Kept("text"),
  password |-> Kept("text")]
Knx == [
  role |-> Text("client"), start_prog_mode |-> Off,
  heartbeat_minutes |-> Number(5), sync_system_clock |-> Off,
  individual_address |-> Optional, server_online |-> Optional,
  all_stop |-> Optional, all_mute |-> Optional,
  all_mute_status |-> Optional, system_fault |-> Optional,
  knx_time |-> Optional, url |-> Kept("text"),
  persist_ets_config |-> Kept("switch"), restart_after_ets |-> Kept("switch")]

Zone == [
  name |-> Text(Empty), icon |-> Text("house"), sink |-> Optional,
  airplay_name |-> Optional, spotify_name |-> Optional,
  group_volume_mode |-> Optional]
Client == [
  name |-> Text(Empty), mac |-> Text(Empty), zone |-> Text(Empty),
  icon |-> Text("speaker"), max_volume |-> Elided("number", 100),
  default_volume |-> Elided("number", 50), default_latency |-> Elided("number", 0)]
Radio == [name |-> Text(Empty), url |-> Text(Empty), cover |-> Kept("text")]

ZoneKnxKeys ==
  {"play", "play_pause", "pause", "stop", "track_next", "track_previous",
   "track_step", "track_step_updown", "control_status", "volume",
   "volume_status", "volume_dim", "mute", "mute_status", "mute_toggle",
   "track_title_status", "track_artist_status", "track_album_status",
   "track_progress_status", "track_number", "track_number_status",
   "track_playing_status", "track_repeat", "track_repeat_status",
   "track_repeat_toggle", "playlist", "playlist_status", "playlist_next",
   "playlist_previous", "playlist_step", "playlist_step_updown",
   "playlist_name_status", "shuffle", "shuffle_status", "shuffle_toggle",
   "repeat", "repeat_status", "repeat_toggle", "presence", "presence_enable",
   "presence_enable_status", "presence_timer_status"}

ClientKnxKeys ==
  {"volume", "volume_status", "volume_dim", "mute", "mute_status",
   "mute_toggle", "latency", "latency_status", "zone", "zone_status",
   "connected_status"}

Tables == [
  top |-> Top, network |-> Network, http |-> Http, system |-> System,
  audio |-> Audio, snapcast |-> Snapcast, mdns |-> Mdns, dbus |-> Dbus,
  subsonic |-> Subsonic, cache |-> Cache, spotify |-> Spotify,
  airplay |-> Airplay, mqtt |-> Mqtt, knx |-> Knx,
  zone |-> Zone, client |-> Client, radio |-> Radio,
  zoneKnx |-> [k \in ZoneKnxKeys |-> Optional],
  clientKnx |-> [k \in ClientKnxKeys |-> Optional]]

Sections == {"top", "network", "http", "system", "audio", "snapcast", "mdns", "dbus"}
Options == {"subsonic", "cache", "spotify", "airplay", "mqtt", "knx"}
Kinds == {"zone", "client", "radio"}
Groups == {"zoneKnx", "clientKnx"}
GroupOf == [zone |-> "zoneKnx", client |-> "clientKnx"]

Keys(n) == DOMAIN Tables[n]
IsList(n, k) == Tables[n][k].type = "list"
Default(n, k) == Tables[n][k].default

(* What a page holds for a key, and a document.  Missing and Odd are no    *)
(* values, and Missing is no table.                                        *)
Shown(n, k) == Values[Tables[n][k].type] \cup {Default(n, k)}
Lists == [many : BOOLEAN, of : Seq(STRING)]
Stored(n, k) == (IF IsList(n, k) THEN Lists ELSE Values[Tables[n][k].type]) \cup {Odd}
Anything == STRING \cup Int \cup BOOLEAN \cup Seq(STRING) \cup {Missing}

ASSUME AbsentAssumption ==
  /\ Missing # Odd
  /\ \A x \in {Missing, Odd} :
       /\ x \notin STRING /\ x \notin Int /\ x \notin BOOLEAN
       /\ x \notin Seq(STRING) /\ x \notin Lists
  /\ \A n \in DOMAIN Tables : Missing \notin [Keys(n) -> Anything]

(* The texts quoted in this module are texts.                              *)
ASSUME TextsAssumption ==
  {Empty, "SnapDog", "http://localhost:5555", "info", "/var/lib/snapdog",
   "last_wins", "127.0.0.1", "flac", "f32lz4", "relative", "compressed",
   "accept", "raw", "airplay2", "snapdog", "snapdog/", "client", "house",
   "speaker"} \subseteq STRING

ASSUME TypedAssumption ==
  \A s \in Spots :
    /\ s[1] \in DOMAIN Tables /\ s[2] \in Keys(s[1])
    /\ Typed[s] \subseteq Shown(s[1], s[2])

(* The value shown when the whole table is missing is another one for      *)
(* these.                                                                  *)
Fresh(n) ==
  LET shown == [k \in Keys(n) |-> Default(n, k)]
  IN CASE n = "audio" -> [shown EXCEPT !.bit_depth = 32]
       [] n = "snapcast" -> [shown EXCEPT !.codec = "f32lz4",
                                          !.group_volume_mode = "compressed"]
       [] OTHER -> shown
-----------------------------------------------------------------------------
(* Reading.  A table is a function of the keys it has; a document holds its *)
(* tables and its three lists of entries, each of which may be inline; a    *)
(* KNX table of an entry is there or not.                                  *)
Item(t, k) == IF k \in DOMAIN t THEN t[k] ELSE Missing

(* Older names of three keys, read where the present one is not there.     *)
Legacy == [jsonrpc_tcp_port |-> "jsonrpc_port",
           track_title_status |-> "track_title",
           track_artist_status |-> "track_artist"]

Found(t, k) ==
  IF \/ k \notin DOMAIN Legacy
     \/ k = "jsonrpc_tcp_port" /\ k \in DOMAIN t
     \/ Item(t, k) \notin {Missing, Odd}
  THEN Item(t, k) ELSE Item(t, Legacy[k])

(* Only these tables take a single text for a list.                        *)
OneOrMany == {"network", "http"}

Value(n, t, k) ==
  CASE Found(t, k) \in {Missing, Odd} -> Default(n, k)
    [] Found(t, k) \notin {Missing, Odd} /\ IsList(n, k) ->
         IF Found(t, k).many \/ n \in OneOrMany THEN Found(t, k).of ELSE <<>>
    [] OTHER -> Found(t, k)

ReadTable(n, t) == [k \in Keys(n) |-> Value(n, t, k)]

IsTable(d, n) == n \in DOMAIN d.tables /\ ~d.tables[n].inline
At(d, n) == d.tables[n].at
EmptyDocument == [tables |-> [top |-> [inline |-> FALSE, at |-> <<>>]],
                  zone |-> <<>>, client |-> <<>>, radio |-> <<>>, inline |-> {}]

Listed(d, kind) == IF kind \in d.inline THEN <<>> ELSE d[kind]

ReadEntry(kind, t, i) ==
  [source |-> i, at |-> ReadTable(kind, t.at),
   knx |-> IF t.knx = <<>> \/ t.knx[1].inline THEN Missing
           ELSE ReadTable(GroupOf[kind], t.knx[1].at)]

ReadOption(d, n) ==
  CASE n = "cache" /\ IsTable(d, "subsonic") ->
         IF IsTable(d, n) THEN ReadTable(n, At(d, n)) ELSE Fresh(n)
    [] n # "cache" /\ IsTable(d, n) -> ReadTable(n, At(d, n))
    [] OTHER -> Missing

ReadSection(d, n) ==
  CASE d = EmptyDocument /\ n = "top" -> [name |-> Empty]
    [] ~IsTable(d, n) -> Fresh(n)
    [] OTHER -> ReadTable(n, At(d, n))

(* parse_document, and read_config for a file that is missing or empty.    *)
Read(d) ==
  [sections |-> [n \in Sections |-> ReadSection(d, n)],
   options |-> [n \in Options |-> ReadOption(d, n)],
   lists |-> [kind \in Kinds |->
     [i \in DOMAIN Listed(d, kind) |-> ReadEntry(kind, Listed(d, kind)[i], i)]]]
-----------------------------------------------------------------------------
(* Writing.  Keys the reader does not know stay, except for one that early *)
(* versions wrote; an array stays an array.                                *)
Written(n, c, k) ==
  LET out == Tables[n][k].out
  IN /\ out \in {"default", "blank"} => c[k] # Default(n, k)
     /\ out = "blank" => c[k] # Empty

ListItem(n, t, c, k) ==
  [many |-> \/ n \notin OneOrMany
            \/ Len(c[k]) > 1
            \/ Item(t, k) \notin {Missing, Odd} /\ t[k].many,
   of |-> c[k]]

Dropped(n) == IF n = "snapcast" THEN {"mdns_name"} ELSE {}
Unmanaged(n, t) == DOMAIN t \ (Keys(n) \cup Dropped(n))

(* Mutant: a key that is not written keeps what it had. *)
WriteTable_KeepsCleared(n, t, c) ==
  [k \in DOMAIN t \cup {k \in Keys(n) : Written(n, c, k)} |->
     IF k \notin Keys(n) \/ ~Written(n, c, k) THEN t[k]
     ELSE IF IsList(n, k) THEN ListItem(n, t, c, k) ELSE c[k]]

WriteTable(n, t, c) ==
  [k \in Unmanaged(n, t) \cup {k \in Keys(n) : Written(n, c, k)} |->
     IF k \notin Keys(n) THEN t[k]
     ELSE IF IsList(n, k) THEN ListItem(n, t, c, k) ELSE c[k]]

(* set_table_str and its kin: an inline table is left as it is.            *)
WriteSection(d, n, c) ==
  IF n \in DOMAIN d.tables /\ d.tables[n].inline THEN d.tables[n]
  ELSE [inline |-> FALSE,
        at |-> WriteTable(n, IF IsTable(d, n) THEN At(d, n) ELSE <<>>, c)]

(* set_optional_section: an inline table is replaced.                      *)
WriteOption(d, n, c) ==
  [inline |-> FALSE,
   at |-> WriteTable(n, IF IsTable(d, n) THEN At(d, n) ELSE <<>>, c)]

WriteTables(d, c) ==
  LET kept == DOMAIN d.tables \ DOMAIN Tables
      set == {n \in Options : c.options[n] # Missing}
      here == {n \in Sections :
                 \/ n # "network"
                 \/ c.sections[n].bind # <<>>
                 \/ n \in DOMAIN d.tables /\ WriteSection(d, n, c.sections[n]).at # <<>>}
  IN [n \in kept \cup set \cup here |->
        CASE n \in kept -> d.tables[n]
          [] n \in set -> WriteOption(d, n, c.options[n])
          [] OTHER -> WriteSection(d, n, c.sections[n])]

(* An entry goes on from the one it was read from; a KNX table that the    *)
(* page does not have is removed.                                          *)
WriteEntry(kind, old, e) ==
  LET base == IF e.source \in DOMAIN old THEN old[e.source]
              ELSE [at |-> <<>>, knx |-> <<>>]
      group == IF base.knx = <<>> \/ base.knx[1].inline THEN <<>>
               ELSE base.knx[1].at
  IN [at |-> WriteTable(kind, base.at, e.at),
      knx |-> IF e.knx = Missing THEN <<>>
              ELSE <<[inline |-> FALSE,
                      at |-> WriteTable(GroupOf[kind], group, e.knx)]>>]

(* Mutant: the list is removed before its entries are read. *)
WriteList_RemovedFirst(d, c, kind) ==
  [i \in DOMAIN c.lists[kind] |-> WriteEntry(kind, <<>>, c.lists[kind][i])]

WriteList(d, c, kind) ==
  [i \in DOMAIN c.lists[kind] |->
     WriteEntry(kind, Listed(d, kind), c.lists[kind][i])]

(* apply_config.  The three lists are removed and built anew.              *)
Write(d, c) ==
  [tables |-> WriteTables(d, c), zone |-> WriteList(d, c, "zone"),
   client |-> WriteList(d, c, "client"), radio |-> WriteList(d, c, "radio"),
   inline |-> {}]
-----------------------------------------------------------------------------
(* Refusing: validate.                                                     *)
ValidScalars(c) ==
  LET a == c.sections.audio s == c.sections.snapcast h == c.sections.http
  IN /\ a.sample_rate \in {44100, 48000, 88200, 96000, 176400, 192000}
     /\ a.bit_depth \in {16, 24, 32}
     /\ s.codec \in {"pcm", "flac", "f32lz4", "f32lz4e"}
     /\ a.channels \in 1..8
     /\ a.source_conflict \in {"last_wins", "receiver_wins"}
     /\ s.group_volume_mode \in {"relative", "absolute", "compressed"}
     /\ s.unknown_clients \in {"accept", "ignore", "reject"}
     /\ a.zone_switch_fade_ms <= 1000 /\ a.source_switch_fade_ms <= 1000
     /\ c.sections.system.log_level \in {"trace", "debug", "info", "warn", "error"}
     /\ h.port # s.streaming_port
     /\ (h.tls_cert = Missing) = (h.tls_key = Missing)

ValidIntegrations(c) ==
  /\ c.options.knx # Missing =>
       /\ c.options.knx.role \in {"client", "device"}
       /\ c.options.knx.role = "client" => c.options.knx.url \notin {Missing, Empty}
  /\ \A r \in ToSet(c.lists.radio) : r.at.name # Empty /\ r.at.url # Empty

(* validate_knx_group_address: main/sub or main/middle/sub.                *)
ValidAddress(a) ==
  a \notin {Missing, Empty} =>
    LET p == Parts[a]
    IN \/ Len(p) = 2 /\ p[1] \in 0..31 /\ p[2] \in 0..2047
       \/ Len(p) = 3 /\ p[1] \in 0..31 /\ p[2] \in 0..7 /\ p[3] \in 0..255

ValidKnx(e) == e.knx # Missing => \A k \in DOMAIN e.knx : ValidAddress(e.knx[k])

Distinct(list, Of(_)) ==
  \A i, j \in DOMAIN list : Of(list[i]) = Of(list[j]) => i = j

ValidTopology(c) ==
  LET zones == {e.at.name : e \in ToSet(c.lists.zone)}
      clients == c.lists.client
      home == c.sections.snapcast.default_zone
  IN /\ zones # {} /\ Empty \notin zones
     /\ Distinct(c.lists.zone, LAMBDA e : e.at.name)
     /\ \A e \in ToSet(c.lists.zone) :
          /\ ValidKnx(e)
          /\ e.at.group_volume_mode \in
               {Missing, "relative", "absolute", "compressed"}
     /\ Distinct(clients, LAMBDA e : e.at.name)
     /\ Distinct(clients, LAMBDA e : Mac[e.at.mac])
     /\ \A e \in ToSet(clients) :
          /\ e.at.name # Empty /\ Mac[e.at.mac] # Missing
          /\ e.at.max_volume <= 100 /\ e.at.default_volume <= 100
          /\ e.at.zone \in zones
          /\ ValidKnx(e)
     /\ c.sections.snapcast.unknown_clients # "accept" => clients # <<>>
     /\ home \in zones \cup {Missing}

Valid(c) == ValidScalars(c) /\ ValidIntegrations(c) /\ ValidTopology(c)
-----------------------------------------------------------------------------
(* default_config_toml, written when the server is enabled for the first   *)
(* time.                                                                   *)
Table(t) == [inline |-> FALSE, at |-> t]

Template ==
  [tables |-> [
     top |-> Table(<<>>),
     system |-> Table([log_level |-> "info"]),
     audio |-> Table([sample_rate |-> 48000, bit_depth |-> 32, channels |-> 2,
                      source_conflict |-> "last_wins",
                      zone_switch_fade_ms |-> 300, source_switch_fade_ms |-> 300]),
     snapcast |-> Table([streaming_port |-> 1704, codec |-> "f32lz4",
                         group_volume_mode |-> "relative",
                         unknown_clients |-> "accept"]),
     mdns |-> Table([enabled |-> TRUE, advertise_snapcast |-> FALSE])],
   zone |-> <<[at |-> [name |-> "Default Zone", icon |-> "speaker"],
               knx |-> <<>>]>>,
   client |-> <<>>, radio |-> <<>>, inline |-> {}]

(* What the file may hold: every key a value of its type, or an odd one.   *)
IsText(n, t) ==
  /\ \A k \in Keys(n) \cap DOMAIN t : t[k] \in Stored(n, k)
  /\ \A k \in Keys(n) \cap DOMAIN Legacy :
       Legacy[k] \in DOMAIN t => t[Legacy[k]] \in Stored(n, k)

IsEntry(kind, e) ==
  /\ IsText(kind, e.at)
  /\ \/ e.knx = <<>>
     \/ /\ kind \in DOMAIN GroupOf
        /\ e.knx = <<e.knx[1]>>
        /\ e.knx[1].inline \in BOOLEAN
        /\ IsText(GroupOf[kind], e.knx[1].at)

IsDocument(d) ==
  /\ \A n \in DOMAIN d.tables :
       /\ n \notin Kinds \cup Groups
       /\ d.tables[n].inline \in BOOLEAN
       /\ n = "top" => ~d.tables[n].inline
       /\ n \in DOMAIN Tables => IsText(n, d.tables[n].at)
  /\ \A kind \in Kinds :
       /\ Len(d[kind]) \in Nat /\ DOMAIN d[kind] = 1..Len(d[kind])
       /\ \A i \in DOMAIN d[kind] : IsEntry(kind, d[kind][i])

ASSUME DocumentsAssumption ==
  /\ \A s \in Spots : \A d \in Start[s] : IsDocument(d)
  /\ \A d \in Raw : IsDocument(d)
-----------------------------------------------------------------------------
VARIABLES
  file,    \* the document on disk
  pages,   \* by user: the document the page was loaded from, what it holds
  wrote,   \* what the last save of a form held, unless the editor was used
  spot,    \* the key this behaviour edits
  edits, saves

vars == <<file, pages, wrote, spot, edits, saves>>

Closed == [source |-> Missing, config |-> Missing]
Open(u) == pages[u] # Closed
Active(u) == saves[u] < MaxSaves   \* who has no save left does nothing more

Init ==
  /\ spot \in Spots
  /\ file \in Start[spot]
  /\ pages = [u \in Users |-> Closed]
  /\ wrote = Missing
  /\ edits = 0
  /\ saves = [u \in Users |-> 0]

(* GET /server, when a page is opened and again on server_changed: edits   *)
(* that were not saved are gone.                                           *)
Load(u) ==
  /\ Active(u)
  /\ pages' = [pages EXCEPT ![u] = [source |-> file, config |-> Read(file)]]
  /\ UNCHANGED <<file, wrote, spot, edits, saves>>

Edit(u, c) ==
  /\ Active(u) /\ edits < MaxEdits
  /\ pages' = [pages EXCEPT ![u].config = c]
  /\ edits' = edits + 1
  /\ UNCHANGED <<file, wrote, spot, saves>>

(* A field of the form.                                                    *)
EditField(u) ==
  LET n == spot[1] k == spot[2] c == pages[u].config
  IN \E v \in Typed[spot] :
       \/ n \in Sections /\ Edit(u, [c EXCEPT !.sections[n][k] = v])
       \/ /\ n \in Options
          /\ c.options[n] # Missing
          /\ Edit(u, [c EXCEPT !.options[n][k] = v])
       \/ /\ n \in Kinds
          /\ \E i \in DOMAIN c.lists[n] :
               Edit(u, [c EXCEPT !.lists[n][i].at[k] = v])
       \/ \E kind \in DOMAIN GroupOf :
            /\ n = GroupOf[kind]
            /\ \E i \in DOMAIN c.lists[kind] :
                 /\ c.lists[kind][i].knx # Missing
                 /\ Edit(u, [c EXCEPT !.lists[kind][i].knx[k] = v])

(* The switch of an integration: off, or on with what the page fills in.   *)
Filled(n) == IF n = "mqtt" THEN [Fresh(n) EXCEPT !.base_topic = "snapdog/"]
             ELSE Fresh(n)

Toggle(u) ==
  LET n == IF spot[1] = "cache" THEN "subsonic" ELSE spot[1]
      both == IF n = "subsonic" THEN {n, "cache"} ELSE {n}
      c == pages[u].config
  IN /\ n \in Options
     /\ Edit(u, [c EXCEPT !.options = [m \in Options |->
          CASE m \notin both -> c.options[m]
            [] m \in both /\ c.options[n] = Missing -> Filled(m)
            [] OTHER -> Missing]])

(* The add and remove buttons of the list the edited key is in.            *)
Edits(kind) == \/ spot[1] = kind
               \/ kind \in DOMAIN GroupOf /\ spot[1] = GroupOf[kind]

(* A new zone has the icon of a client; a new client is put in the first   *)
(* zone.                                                                   *)
NewEntry(c, kind) ==
  LET zones == c.lists.zone
      at == CASE kind = "zone" -> [Fresh(kind) EXCEPT !.icon = "speaker"]
              [] kind = "client" /\ zones # <<>> ->
                   [Fresh(kind) EXCEPT !.zone = zones[1].at.name]
              [] OTHER -> Fresh(kind)
  IN [source |-> Missing, at |-> at, knx |-> Missing]

AddEntry(u, kind) ==
  LET c == pages[u].config
  IN /\ Edits(kind)
     /\ Edit(u, [c EXCEPT !.lists[kind] = Append(@, NewEntry(c, kind))])

RemoveEntry(u, kind) ==
  /\ Edits(kind)
  /\ \E i \in DOMAIN pages[u].config.lists[kind] :
      Edit(u, [pages[u].config EXCEPT !.lists[kind] = RemoveAt(@, i)])

(* PUT /server from the form: refused unless valid and based on the        *)
(* document on disk.                                                       *)
(* Mutant: no revision. *)
Accepted_Loaded(u) == pages[u].source # Missing
Accepted(u) == pages[u].source = file

Replace(u, d) ==
  /\ Active(u)
  /\ Accepted(u)
  /\ file' = d
  /\ saves' = [saves EXCEPT ![u] = @ + 1]
  /\ UNCHANGED <<pages, spot, edits>>

Save(u) ==
  /\ Valid(pages[u].config)
  /\ Replace(u, Write(file, pages[u].config))
  /\ wrote' = pages[u].config

(* PUT /server from the advanced editor: the text as it is.                *)
SaveRaw(u) ==
  /\ \E d \in Raw : Replace(u, d)
  /\ wrote' = Missing

Next ==
  \E u \in Users :
    \/ Load(u)
    \/ /\ Open(u)
       /\ \/ EditField(u) \/ Toggle(u) \/ Save(u) \/ SaveRaw(u)
          \/ \E kind \in Kinds : AddEntry(u, kind) \/ RemoveEntry(u, kind)

Spec == Init /\ [][Next]_vars
-----------------------------------------------------------------------------
(* What a configuration means: a blank optional text is none, and where an *)
(* entry came from does not matter.                                        *)
Plain(n, c) ==
  IF c = Missing THEN Missing
  ELSE [k \in DOMAIN c |->
          IF Tables[n][k].out = "blank" /\ c[k] = Empty THEN Missing ELSE c[k]]

Meaning(c) ==
  [sections |-> [n \in Sections |-> Plain(n, c.sections[n])],
   options |-> [n \in Options |-> Plain(n, c.options[n])],
   lists |-> [kind \in Kinds |-> [i \in DOMAIN c.lists[kind] |->
     LET e == c.lists[kind][i]
     IN [at |-> Plain(kind, e.at),
         knx |-> IF e.knx = Missing THEN Missing
                 ELSE Plain(GroupOf[kind], e.knx)]]]]

FormSave(u) == saves'[u] # saves[u] /\ wrote' # Missing

(* A KNX address of a zone that an older key names, alone or beside a      *)
(* blank newer one.                                                        *)
Older(e, k) == e.knx # <<>> /\ Legacy[k] \in DOMAIN e.knx[1].at
Renamed == {"track_title_status", "track_artist_status"}

Shadowed(d) ==
  \E i \in DOMAIN d.zone : \E k \in Renamed :
    Older(d.zone[i], k) /\ k \notin DOMAIN d.zone[i].knx[1].at

Overruled(d) ==
  \E i \in DOMAIN d.zone : \E k \in Renamed :
    Older(d.zone[i], k) /\ Item(d.zone[i].knx[1].at, k) = Empty

(* A section that takes no edit.                                           *)
Frozen(d, n) == n \in DOMAIN d.tables /\ d.tables[n].inline

(* What a form saved is what the next page shows (parse_document after     *)
(* apply_config), whatever the document held before.  Not so for a section *)
(* written inline, which no save changes, and for an address that only an  *)
(* older key names: clearing it does not take.                             *)
EditsTake ==
  wrote # Missing =>
    LET shown == Meaning(Read(file))
        meant == Meaning(wrote)
    IN /\ \A n \in Sections :
            shown.sections[n] = meant.sections[n] \/ Frozen(file, n)
       /\ shown.options = meant.options
       /\ \A kind \in Kinds :
            \/ shown.lists[kind] = meant.lists[kind]
            \/ kind = "zone" /\ Shadowed(file)

(* server_config.rs:21: a save changes nothing its user did not change on  *)
(* the page: neither what another page saved meanwhile, nor a value that   *)
(* is only shown because the document leaves it out.  Not so for a blank    *)
(* address over an older one: any save removes the blank, and the older    *)
(* one is shown.                                                           *)
OnlyEditsChange ==
  [][\A u \in Users : FormSave(u) =>
       LET before == Meaning(Read(file))
           after == Meaning(Read(file'))
           shown == Meaning(Read(pages[u].source))
           meant == Meaning(pages[u].config)
       IN /\ \A n \in Sections : \A k \in Keys(n) :
               after.sections[n][k] # before.sections[n][k]
                 => meant.sections[n][k] # shown.sections[n][k]
          /\ \A n \in Options :
               after.options[n] # before.options[n]
                 => meant.options[n] # shown.options[n]
          /\ \A kind \in Kinds :
               after.lists[kind] # before.lists[kind]
                 => \/ meant.lists[kind] # shown.lists[kind]
                    \/ kind = "zone" /\ Overruled(file)]_vars

(* server_config.rs:239: what the editor does not know stays, and in a     *)
(* list it stays with its entry when others are added and removed; a       *)
(* section written inline stays whole.  Three things do not stay, although *)
(* README.md:183-186 says that they do: an integration written inline, a   *)
(* list written inline, all its entries included, and an inline KNX table. *)
(* The page shows them as absent, and a save replaces or removes them.     *)
UnknownFollows ==
  [][\A u \in Users : FormSave(u) =>
       /\ \A n \in DOMAIN file.tables :
            LET t == file.tables[n]
            IN \/ n \in Options /\ pages[u].config.options[n] = Missing
               \/ n \in Options /\ t.inline
               \/ \A k \in DOMAIN t.at \ (IF n \in DOMAIN Tables
                                        THEN Keys(n) \cup Dropped(n) ELSE {}) :
                    n \in DOMAIN file'.tables /\ Item(file'.tables[n].at, k) = t.at[k]
       /\ \A kind \in Kinds \ file.inline :
          \A i \in DOMAIN pages[u].config.lists[kind] :
            LET e == pages[u].config.lists[kind][i]
                was == pages[u].source[kind][e.source]
                now == file'[kind][i]
            IN e.source # Missing =>
                 /\ \A k \in DOMAIN was.at \ Keys(kind) :
                      Item(now.at, k) = was.at[k]
                 /\ was.knx # <<>> /\ ~was.knx[1].inline /\ e.knx # Missing =>
                      \A k \in DOMAIN was.knx[1].at \ Keys(GroupOf[kind]) :
                        Item(now.knx[1].at, k) = was.knx[1].at[k]]_vars
=============================================================================
