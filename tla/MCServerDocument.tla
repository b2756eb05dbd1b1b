-------------------------- MODULE MCServerDocument --------------------------
(* Documents that name every key once, with one key after the other        *)
(* missing, mistyped or set, and two pages that edit that key and the list *)
(* it is in.                                                               *)
EXTENDS ServerDocument

One(v) == [many |-> FALSE, of |-> <<v>>]
Many(s) == [many |-> TRUE, of |-> s]
Addresses(t) == <<Table(t)>>

(* A document with a value for everything, most of them not the default.   *)
Full ==
  [tables |-> [
     top |-> Table([name |-> "House", future |-> "f"]),
     network |-> Table([bind |-> One("lan")]),
     http |-> Table([port |-> 80, base_url |-> "u", api_docs |-> FALSE,
       tls_cert |-> "c", tls_key |-> "k", bind |-> Many(<<"lan">>),
       api_keys |-> Many(<<"a", "b">>), future |-> "f"]),
     system |-> Table([log_level |-> "warn", state_dir |-> "d", log_file |-> "l"]),
     audio |-> Table([sample_rate |-> 96000, bit_depth |-> 24, channels |-> 1,
       source_conflict |-> "receiver_wins", zone_switch_fade_ms |-> 0,
       source_switch_fade_ms |-> 1000]),
     snapcast |-> Table([address |-> "h", jsonrpc_port |-> 7, streaming_port |-> 8,
       managed |-> FALSE, verbose |-> TRUE, codec |-> "pcm",
       group_volume_mode |-> "absolute", unknown_clients |-> "ignore",
       streaming_bind |-> "lan", default_zone |-> "Living",
       encryption_psk |-> "", mdns_name |-> "m", future |-> "f"]),
     mdns |-> Table([enabled |-> FALSE, advertise_snapcast |-> TRUE]),
     dbus |-> Table([enabled |-> FALSE]),
     subsonic |-> Table([url |-> "u", username |-> "n", password |-> "p",
       tls_skip_verify |-> TRUE, format |-> "mp3", future |-> "f"]),
     cache |-> Table([max_size_mb |-> 1, path |-> "p", future |-> "f"]),
     spotify |-> Table([name |-> "s", bitrate |-> 96]),
     airplay |-> Table([mode |-> "airplay1", password |-> "p",
       bind |-> Many(<<"lan">>), future |-> "f"]),
     mqtt |-> Table([broker |-> "b", client_id |-> "i", username |-> "u",
       password |-> "", base_topic |-> "t"]),
     knx |-> Table([role |-> "device", start_prog_mode |-> TRUE,
       heartbeat_minutes |-> 1, sync_system_clock |-> TRUE, url |-> "g",
       persist_ets_config |-> FALSE, all_stop |-> "good"]),
     plugin |-> Table([future |-> "f"])],
   zone |-> <<
     [at |-> [name |-> "Living", icon |-> "i", sink |-> "s", future |-> "a"],
      knx |-> Addresses([volume |-> "good", track_title_status |-> "good",
                   future |-> "f"])],
     [at |-> [name |-> "Kitchen", future |-> "b"], knx |-> <<>>]>>,
   client |-> <<
     [at |-> [name |-> "One", mac |-> "AA", zone |-> "Living", max_volume |-> 90,
              default_volume |-> 40, default_latency |-> -5, future |-> "c"],
      knx |-> Addresses([latency |-> "two"])],
     [at |-> [name |-> "Two", mac |-> "bb", zone |-> "Living"],
      knx |-> <<>>]>>,
   radio |-> <<[at |-> [name |-> "R", url |-> "u", cover |-> "", future |-> "d"],
                knx |-> <<>>]>>,
   inline |-> {}]

MCParts == [good |-> <<1, 2, 3>>, two |-> <<31, 2047>>, high |-> <<1, 8, 3>>,
            four |-> <<1, 2, 3, 4>>]
MCMac == [AA |-> "aa", aa |-> "aa", bb |-> "bb", bad |-> Missing] @@ ("" :> Missing)

(* For every key: what is typed into its field.                            *)
Texts == {"", "x"}
MCTyped ==
  LET of(n, ks, vs) == [s \in {n} \X ks |-> vs]
  IN of("top", {"name"}, Texts)
     @@ of("network", {"bind"}, {<<>>, <<"x">>, <<"x", "y">>})
     @@ of("http", {"bind", "api_keys"}, {<<>>, <<"x">>, <<"x", "y">>})
     @@ of("http", {"port"}, {8, 9}) @@ of("http", {"base_url"}, Texts)
     @@ of("http", {"tls_cert", "tls_key"}, {"", "x", Missing})
     @@ of("http", {"api_docs"}, BOOLEAN)
     @@ of("system", {"log_level"}, {"info", "x"})
     @@ of("system", {"state_dir", "log_file"}, Texts)
     @@ of("audio", {"sample_rate"}, {44100, 1}) @@ of("audio", {"bit_depth"}, {16, 20})
     @@ of("audio", {"channels"}, {2, 9})
     @@ of("audio", {"source_conflict"}, {"last_wins", "x"})
     @@ of("audio", {"zone_switch_fade_ms", "source_switch_fade_ms"}, {1000, 1001})
     @@ of("snapcast", {"address", "streaming_bind", "encryption_psk"}, Texts)
     @@ of("snapcast", {"jsonrpc_tcp_port", "streaming_port"}, {80, 81})
     @@ of("snapcast", {"managed", "verbose"}, BOOLEAN)
     @@ of("snapcast", {"codec"}, {"flac", "x"})
     @@ of("snapcast", {"group_volume_mode"}, {"relative", "x"})
     @@ of("snapcast", {"unknown_clients"}, {"accept", "reject"})
     @@ of("snapcast", {"default_zone"}, {"", "Living", "Kitchen", Missing})
     @@ of("mdns", {"enabled", "advertise_snapcast"}, BOOLEAN)
     @@ of("dbus", {"enabled"}, BOOLEAN)
     @@ of("subsonic", {"url", "username", "password"}, Texts)
     @@ of("subsonic", {"format"}, {"raw", "x"})
     @@ of("subsonic", {"tls_skip_verify"}, BOOLEAN)
     @@ of("cache", {"path"}, Texts) @@ of("cache", {"max_size_mb"}, {1, 2048})
     @@ of("spotify", {"name"}, Texts) @@ of("spotify", {"bitrate"}, {96, 320})
     @@ of("airplay", {"mode"}, {"airplay2", "x"})
     @@ of("airplay", {"password"}, {"", "x", Missing})
     @@ of("airplay", {"bind"}, {<<>>, <<"x">>})
     @@ of("mqtt", {"broker", "client_id", "base_topic"}, Texts)
     @@ of("mqtt", {"username", "password"}, {"", "x", Missing})
     @@ of("knx", {"role"}, {"client", "device", "x"})
     @@ of("knx", {"url", "knx_time", "all_stop"}, {"", "x", Missing})
     @@ of("knx", {"persist_ets_config"}, {TRUE, FALSE, Missing})
     @@ of("knx", {"start_prog_mode"}, BOOLEAN)
     @@ of("knx", {"heartbeat_minutes"}, {1, 5})
     @@ of("zone", {"name"}, {"", "Living", "Attic"})
     @@ of("zone", {"icon", "sink"}, Texts)
     @@ of("zone", {"group_volume_mode"}, {"", "relative", "x", Missing})
     @@ of("client", {"name"}, {"", "One", "Three"})
     @@ of("client", {"mac"}, {"aa", "bb", "bad"})
     @@ of("client", {"zone"}, {"Kitchen", "Attic"})
     @@ of("client", {"max_volume"}, {0, 100, 101})
     @@ of("client", {"default_volume"}, {50, 100})
     @@ of("client", {"default_latency"}, {-1, 0})
     @@ of("radio", {"name", "url"}, Texts)
     @@ of("radio", {"cover"}, {"", "x", Missing})
     @@ of("zoneKnx", {"volume", "track_title_status"}, {"", "good", "high", Missing})
     @@ of("clientKnx", {"latency"}, {"", "two", "four", Missing})

MCSpots == DOMAIN MCTyped

(* The document with another item for the key, or without it.              *)
Set(t, k, v) == IF v = Missing THEN Restrict(t, DOMAIN t \ {k}) ELSE (k :> v) @@ t

With(d, s, v) ==
  LET n == s[1] k == s[2]
  IN CASE n \in DOMAIN d.tables -> [d EXCEPT !.tables[n].at = Set(@, k, v)]
       [] n \in Kinds -> [d EXCEPT ![n][1].at = Set(@, k, v)]
       [] n = "zoneKnx" -> [d EXCEPT !.zone[1].knx[1].at = Set(@, k, v)]
       [] n = "clientKnx" -> [d EXCEPT !.client[1].knx[1].at = Set(@, k, v)]

AsItem(s, v) == IF IsList(s[1], s[2]) THEN Many(v) ELSE v
OldKeys == With(With(Full, <<"zoneKnx", "track_title_status">>, Missing),
                <<"zoneKnx", "track_title">>, "good")
BothKeys == With(OldKeys, <<"zoneKnx", "track_title_status">>, "")

(* The same sections written as inline tables and inline lists.            *)
Inline == [Full EXCEPT
  !.tables.mqtt.inline = TRUE, !.tables.mdns.inline = TRUE, !.inline = {"client"},
  !.tables.snapcast.at = Set(@, "unknown_clients", "accept")]
MCStart == [s \in MCSpots |->
  {With(Full, s, v) : v \in {Missing, Odd}}
  \cup {With(Full, s, AsItem(s, v)) : v \in MCTyped[s] \ {Missing}}
  \cup (IF IsList(s[1], s[2]) THEN {With(Full, s, One("x"))} ELSE {})
  \cup (IF s[1] = "zoneKnx" THEN {OldKeys, BothKeys} ELSE {})
  \cup (IF s \in {<<"top", "name">>, <<"mqtt", "broker">>, <<"mdns", "enabled">>} THEN {Inline} ELSE {})
  \cup (IF s[1] \in Kinds THEN {Template}
        ELSE IF s[1] \in Groups THEN {} ELSE {Template, EmptyDocument})]
MCRaw == {With(Full, <<"zone", "sink">>, "raw")}

UserSymmetry == Permutations(Users)
=============================================================================
