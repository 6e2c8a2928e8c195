---------------------------------- MODULE Nvs ----------------------------------
(***************************************************************************)
(* The variables the node keeps over a restart                             *)
(* (components/sys/nvs_mgmt.c) and the two ways to change them: the BLE    *)
(* server, to which a phone writes the Wi-Fi credentials                   *)
(* (components/ble/ble_srv.c, gatt_srv.c), and the REST handlers.          *)
(*                                                                         *)
(* Both run in tasks of their own.  A variable is set and then committed;  *)
(* power may go between any two steps, and what was set and not committed  *)
(* may be there after the restart or not.  Results of the flash are not    *)
(* looked at: a variable that cannot be read leaves memory nobody has      *)
(* written, and the length given to nvs_get_blob is such memory, so a      *)
(* string that is stored may not be read.                                  *)
(***************************************************************************)
EXTENDS Integers, FiniteSets

CONSTANTS missing,    \* a variable that is not in flash
          Nets,       \* credentials a phone may send
          MaxFps,     \* CONFIG_MAX_FPS
          TargetFps,  \* CONFIG_TARGET_FPS
          Raw,        \* numbers in flash, in memory and in requests
          MaxWrites, MaxCrashes   \* bounds

ASSUME NvsAssumption ==
    /\ MaxFps \in Nat \ {0} /\ TargetFps \in 1..MaxFps /\ Raw \subseteq Int
    /\ MaxWrites \in Nat /\ MaxCrashes \in Nat
    /\ missing \notin Nets \cup {"", "default"} \cup Int
    /\ Nets \cap {"", "default", "garbage"} = {}

\* g_mcu_vars, one for each way it is loaded; the host stands for the three.
Credentials == {"wifi_ssid", "wifi_psk"}
Strings == Credentials \cup {"data_host"}
Numbers == {"seq", "target_fps"}
Vars == Strings \cup Numbers
Texts == Nets \cup {""}

VARIABLES
  up,            \* the node runs
  g_mcu,         \* the values in use
  stored,        \* what nvs_get returns
  durable,       \* what has been committed
  ble,           \* the BLE server: "off", "starting", "up"
  advertising, connected,
  gap,           \* the event the BLE host has yet to handle
  bpc, net,      \* the write callback, and the credentials it has
  rpc, value,    \* the REST handler, and the number it has
  writes, crashes,
  unread,        \* history: a stored string was not read at the last boot
  last, clean,   \* history: the last provisioning, and nothing beside it
  mute           \* history: advertising could not be started

flash == <<stored, durable>>
server == <<ble, advertising, connected, gap, mute>>
rest == <<rpc, value>>
phone == <<bpc, net>>
vars == <<up, g_mcu, flash, server, phone, rest, writes, crashes, unread, last, clean>>

Nothing == [v \in Vars |-> IF v \in Strings THEN "default" ELSE 0]

\* A node before its first boot: any numbers may be in its flash.
Init ==
    /\ up = FALSE /\ g_mcu = Nothing
    /\ \E raw \in [Numbers -> Raw \cup {missing}] :
           stored = [v \in Vars |-> IF v \in Numbers THEN raw[v] ELSE missing]
    /\ durable = stored
    /\ ble = "off" /\ advertising = FALSE /\ connected = FALSE /\ gap = "none"
    /\ bpc = "idle" /\ net = "" /\ rpc = "idle" /\ value = 0
    /\ writes = 0 /\ crashes = 0
    /\ unread = FALSE /\ last = "none" /\ clean = FALSE /\ mute = FALSE

Lesser(a, b) == IF a < b THEN a ELSE b
Greater(a, b) == IF a > b THEN a ELSE b
-----------------------------------------------------------------------------
(* sys_load_nvs_configuration.                                             *)

\* A slip: the workaround is dropped, the buffer still holds the stack.
BufferUntouched(garbage) == garbage

\* A first load, of a variable nobody uses, leaves the buffer empty.
Buffer(garbage) == ""

\* sys_load_str_conf: an empty string stands for the default.
LoadString(v, long, buffer) ==
    LET read == IF stored[v] # missing /\ long[v] THEN stored[v] ELSE buffer
    IN  IF read # "" THEN read ELSE "default"

\* sys_load_int32_conf: a number that is missing is whatever was there.
LoadNumber(v, garbage) == IF stored[v] # missing THEN stored[v] ELSE garbage[v]

ClampSeq(n) == Greater(Lesser(n, 255), 0)

\* A slip: the frame rate is only kept in its limits.
ClampFpsOnly(n) == Lesser(Greater(n, 0), MaxFps)

ClampFps(n) ==
    LET m == Greater(n, 0)
    IN  IF m > MaxFps \/ m <= 0 THEN TargetFps ELSE Lesser(m, MaxFps)

Load(long, buffer, garbage) ==
    [v \in Vars |-> CASE v = "seq" -> ClampSeq(LoadNumber(v, garbage))
                      [] v = "target_fps" -> ClampFps(LoadNumber(v, garbage))
                      [] OTHER -> LoadString(v, long, buffer)]

\* sys_init_nvs, on a flash that can be read.
Boot ==
    /\ ~up /\ up' = TRUE
    /\ \E long \in [Strings -> BOOLEAN], garbage \in [Numbers -> Raw],
          buffer \in {"", "garbage"} :
          /\ g_mcu' = Load(long, Buffer(buffer), garbage)
          /\ unread' = \E v \in Strings : stored[v] # missing /\ ~long[v]
    /\ UNCHANGED <<flash, server, phone, rest, writes, crashes, last, clean>>

\* A flash that cannot be read is erased first.
Erase ==
    /\ ~up /\ crashes < MaxCrashes /\ crashes' = crashes + 1
    /\ stored' = [v \in Vars |-> missing] /\ durable' = stored'
    /\ last' = "none"
    /\ UNCHANGED <<up, g_mcu, server, phone, rest, writes, unread, clean>>

\* The power goes: of what was not committed, any part may survive.
Crash ==
    /\ up /\ crashes < MaxCrashes /\ crashes' = crashes + 1
    /\ up' = FALSE
    /\ \E kept \in SUBSET Vars :
          stored' = [v \in Vars |-> IF v \in kept THEN stored[v] ELSE durable[v]]
    /\ durable' = stored'
    /\ ble' = "off" /\ advertising' = FALSE /\ connected' = FALSE /\ gap' = "none"
    /\ mute' = FALSE
    /\ bpc' = "idle" /\ net' = "" /\ rpc' = "idle" /\ value' = 0
    /\ last' = IF bpc = "idle" THEN last ELSE "none"
    /\ g_mcu' = Nothing
    /\ UNCHANGED <<writes, unread, clean>>
-----------------------------------------------------------------------------
(* sys_set_nvs_var: nvs_set and nvs_commit; if one fails, nobody sees it.  *)

Set(v, x) == stored' = [stored EXCEPT ![v] = x] /\ UNCHANGED durable
Commit(v) == durable' = [durable EXCEPT ![v] = stored[v]] /\ UNCHANGED stored
-----------------------------------------------------------------------------
(* The BLE server.                                                         *)

ServerStep == up /\ UNCHANGED <<up, g_mcu, flash, phone, rest, writes, crashes,
                                unread, last, clean>>

\* blehr_advertise may fail, and is then not tried again.
Advertise ==
    \/ advertising' = TRUE /\ mute' = FALSE
    \/ advertising' = FALSE /\ mute' = TRUE

\* blehr_start_srv; the stack comes up later and calls blehr_on_sync.
StartServer ==
    /\ ble = "off" /\ ble' = "starting" /\ mute' = FALSE
    /\ ServerStep /\ UNCHANGED <<advertising, connected, gap>>

OnSync ==
    /\ ble = "starting" /\ ble' = "up" /\ Advertise
    /\ ServerStep /\ UNCHANGED <<connected, gap>>

\* blehr_stop_srv: the host task ends what it is doing first.
StopServer ==
    /\ ble # "off" /\ bpc = "idle" /\ ble' = "off"
    /\ advertising' = FALSE /\ connected' = FALSE /\ gap' = "none" /\ mute' = FALSE
    /\ ServerStep

\* blehr_on_reset: the host has lost its controller and will sync again.
HostResets ==
    /\ ble = "up" /\ bpc = "idle" /\ ble' = "starting"
    /\ advertising' = FALSE /\ connected' = FALSE /\ gap' = "none" /\ mute' = FALSE
    /\ ServerStep

\* A phone connects, or fails to; it goes; the advertising ends by itself.
GapEvent ==
    /\ gap = "none" /\ bpc = "idle"
    /\ \/ /\ advertising /\ advertising' = FALSE
          /\ \/ gap' = "connect" /\ connected' = TRUE
             \/ gap' \in {"failed", "complete"} /\ UNCHANGED connected
       \/ connected /\ connected' = FALSE /\ gap' = "disconnect" /\ UNCHANGED advertising
    /\ ServerStep /\ UNCHANGED <<ble, mute>>

\* A slip: advertising is not resumed after a failed connection.
OnGapEventConnects ==
    /\ gap # "none" /\ gap' = "none"
    /\ IF gap \in {"connect", "failed"} THEN UNCHANGED <<advertising, mute>> ELSE Advertise
    /\ ServerStep /\ UNCHANGED <<ble, connected>>

\* blehr_gap_event: everything but a connection resumes the advertising.
OnGapEvent ==
    /\ gap # "none" /\ gap' = "none"
    /\ IF gap = "connect" THEN UNCHANGED <<advertising, mute>> ELSE Advertise
    /\ ServerStep /\ UNCHANGED <<ble, connected>>
-----------------------------------------------------------------------------
(* gatt_svr_chr_wifi_info: a phone writes "<ssid> <psk>".                  *)

Go(from, to) == bpc = from /\ bpc' = to
PhoneStep == up /\ UNCHANGED <<up, server, rest, crashes, unread>>

\* Text without both parts changes nothing.
WriteReceived ==
    /\ connected /\ gap = "none" /\ Go("idle", "memory")
    /\ writes < MaxWrites /\ writes' = writes + 1
    /\ net' \in Nets /\ clean' = TRUE
    /\ PhoneStep /\ UNCHANGED <<g_mcu, flash, last>>

\* The values in use: both are cleared, then both are written.
Use(from, v, x, to) ==
    /\ Go(from, to) /\ g_mcu' = [g_mcu EXCEPT ![v] = x]
    /\ PhoneStep /\ UNCHANGED <<flash, net, writes, last, clean>>

Apply ==
    \/ Use("memory", "wifi_ssid", "", "clear_psk")
    \/ Use("clear_psk", "wifi_psk", "", "use_ssid")
    \/ Use("use_ssid", "wifi_ssid", net, "use_psk")
    \/ Use("use_psk", "wifi_psk", net, "set_ssid")

\* The name first, then the key; each may fail.
Save(from, v, to) ==
    /\ Go(from, to)
    /\ \/ Set(v, net) /\ UNCHANGED clean
       \/ UNCHANGED flash /\ clean' = FALSE
    /\ PhoneStep /\ UNCHANGED <<g_mcu, net, writes, last>>

SaveSsid == Save("set_ssid", "wifi_ssid", "commit_ssid")
SavePsk == Save("set_psk", "wifi_psk", "commit_psk")

Saved(from, v, to) ==
    /\ Go(from, to)
    /\ \/ Commit(v) /\ UNCHANGED clean
       \/ UNCHANGED flash /\ clean' = FALSE
    /\ PhoneStep /\ UNCHANGED <<g_mcu, net, writes, last>>

CommitSsid == Saved("commit_ssid", "wifi_ssid", "set_psk")

\* A slip: the key is set, but not committed.
CommitPskForgotten ==
    /\ Go("commit_psk", "notify")
    /\ PhoneStep /\ UNCHANGED <<g_mcu, flash, net, writes, last, clean>>

CommitPsk == Saved("commit_psk", "wifi_psk", "notify")

\* EV_SYS_WIFI_CONFIG_UPDATED: the reconnect is the matter of Wifi.
NotifyUpdated ==
    /\ Go("notify", "idle") /\ net' = ""
    /\ last' = IF clean THEN net ELSE "none"
    /\ PhoneStep /\ UNCHANGED <<g_mcu, flash, writes, clean>>
-----------------------------------------------------------------------------
(* The REST handlers.  A variable is only stored; the values in use stay.  *)

RestStep == up /\ UNCHANGED <<up, server, phone, crashes, unread>>

\* nvs_variable_handler, POST.
RestSet(v, x) ==
    /\ rpc = "idle" /\ rpc' = v /\ value' = 0
    /\ writes < MaxWrites /\ writes' = writes + 1
    /\ Set(v, x) \/ UNCHANGED flash
    /\ IF v \in Credentials THEN last' = "none" /\ clean' = FALSE ELSE UNCHANGED <<last, clean>>
    /\ RestStep /\ UNCHANGED g_mcu

\* The remainder of C has the sign of the dividend.
Remainder(x) == IF x < 0 THEN -((-x) % 256) ELSE x % 256

\* blink_configure_handler: the sequence number is stored and used at once.
RestSeq(x) ==
    /\ rpc = "idle" /\ rpc' = "use" /\ value' = Remainder(x)
    /\ writes < MaxWrites /\ writes' = writes + 1
    /\ Set("seq", Remainder(x)) \/ UNCHANGED flash
    /\ RestStep /\ UNCHANGED <<g_mcu, last, clean>>

RestCommit ==
    /\ rpc \in Vars /\ rpc' = "idle"
    /\ Commit(rpc) \/ UNCHANGED flash
    /\ RestStep /\ UNCHANGED <<g_mcu, value, writes, last, clean>>

RestUses ==
    /\ rpc = "use" /\ rpc' = "idle"
    /\ Commit("seq") \/ UNCHANGED flash
    /\ g_mcu' = [g_mcu EXCEPT !["seq"] = value] /\ value' = 0
    /\ RestStep /\ UNCHANGED <<writes, last, clean>>

Server == StartServer \/ OnSync \/ StopServer \/ HostResets \/ GapEvent \/ OnGapEvent
Phone == WriteReceived \/ Apply \/ SaveSsid \/ SavePsk \/ CommitSsid \/ CommitPsk \/ NotifyUpdated
Rest == \/ (\E v \in Strings, x \in Texts : RestSet(v, x))
        \/ (\E v \in Numbers, x \in Raw : RestSet(v, x))
        \/ (\E x \in Raw : RestSeq(x)) \/ RestCommit \/ RestUses

Next == Boot \/ Erase \/ Crash \/ Server \/ Phone \/ Rest

Spec == Init /\ [][Next]_vars
-----------------------------------------------------------------------------
(* Properties.                                                             *)

\* Every variable keeps its type, whatever is in flash or sent.
TypeOK ==
    /\ up \in BOOLEAN /\ advertising \in BOOLEAN /\ connected \in BOOLEAN
    /\ \A f \in {g_mcu, stored, durable} : DOMAIN f = Vars
    /\ \A v \in Strings : /\ g_mcu[v] \in Texts \cup {"default"}
                          /\ {stored[v], durable[v]} \subseteq Texts \cup {missing}
    /\ \A v \in Numbers : /\ g_mcu[v] \in Int
                          /\ stored[v] = missing \/ stored[v] \in Int
                          /\ durable[v] = missing \/ durable[v] \in Int
    /\ ble \in {"off", "starting", "up"}
    /\ gap \in {"none", "connect", "failed", "complete", "disconnect"}
    /\ bpc \in {"idle", "memory", "clear_psk", "use_ssid", "use_psk",
                "set_ssid", "commit_ssid", "set_psk", "commit_psk", "notify"}
    /\ net \in Texts /\ rpc \in Vars \cup {"idle", "use"} /\ value \in Int
    /\ last \in Nets \cup {"none"} /\ clean \in BOOLEAN /\ mute \in BOOLEAN

\* Credentials a phone was told are taken stay in use, through any number of
\* power losses, until somebody writes others; the restart forgets none.
\* Except if the length handed to the flash happens to be too short.
ProvisioningSurvives ==
    up /\ bpc = "idle" /\ last # "none" /\ ~unread =>
        \A v \in Credentials : g_mcu[v] = last

\* Whatever is stored, missing or not readable: a boot ends with a sequence
\* number that fits its byte, a frame rate the monitor can divide by, and
\* strings that were stored or configured.
BootIsSane ==
    [][Boot => /\ g_mcu'["seq"] \in 0..255 /\ g_mcu'["target_fps"] \in 1..MaxFps
               /\ \A v \in Strings : g_mcu'[v] \in {"default", stored[v]}]_vars

\* A node nobody is connected to can be found, whatever has happened to
\* earlier connections, unless advertising itself could not be started.
CanBeFound == ble = "up" /\ ~connected /\ gap = "none" => advertising \/ mute
=============================================================================
