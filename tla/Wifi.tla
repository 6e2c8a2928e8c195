-------------------------------- MODULE Wifi --------------------------------
(***************************************************************************)
(* How the node gets and keeps its Wi-Fi link: components/sys/wifi.c and   *)
(* the Wi-Fi branch of components/apps/system_loop.c.  Three tasks take    *)
(* part besides the driver.  The system loop takes all bits of             *)
(* sys_event_group at once and, unless EV_TASK_WIFI_RECONNECT says that a  *)
(* reconnect is under way, posts one.  The event-loop task runs            *)
(* sys_wifi_reconnect_event_handler, which tears the link down, starts it  *)
(* again and waits for the outcome.  The driver's own event task runs      *)
(* wifi_event_handler on its events, whenever they arrive.  BLE or REST    *)
(* provisioning rewrites the credentials under all of them.                *)
(***************************************************************************)
EXTENDS Integers, Sequences

CONSTANTS MaxRetry,    \* CONFIG_WIFI_MAX_RETRY
          MaxApFlips,  \* bound: times the access point goes away or returns
          MaxUpdates,  \* bound: credentials written
          MaxEvents    \* bound: driver events not handled yet

ASSUME ConstantsAssumption ==
    /\ MaxRetry \in Nat /\ MaxApFlips \in Nat /\ MaxUpdates \in Nat
    /\ MaxEvents \in Nat \ {0}

VARIABLES
  sysBits,       \* the Wi-Fi bits of sys_event_group
  reconnecting,  \* EV_TASK_WIFI_RECONNECT
  queued,        \* WIFI_RECONNECT events posted and not yet handled
  lpc, taken,    \* the system loop and the bits it took
  hpc, used,     \* the reconnect handler and the credentials it copied
  wbits,         \* wifi_event_group
  connected,     \* g_mcu.state.wifi_connected
  retry,         \* s_wifi_retry_num
  ppc, creds,    \* provisioning, and g_mcu.wifi_ssid / wifi_psk
  started, link, \* the driver: started by esp_wifi_start; state of the link
  events,        \* driver events posted and not yet handled
  ap,            \* the access point is in reach
  attempts,      \* history: connects issued since STA_START was last handled
  flips, updates \* history: how often ap and creds changed

driver == <<started, link, events, attempts>>
handler == <<hpc, used, connected>>
loop == <<lpc, taken, queued>>
environment == <<ppc, creds, ap, flips, updates>>
vars == <<sysBits, reconnecting, loop, handler, wbits, retry, environment, driver>>

WifiBits == {"CONNECTED", "DISCONNECTED", "FAIL", "CONFIG_UPDATED"}
ReconnectBits == {"DISCONNECTED", "FAIL", "CONFIG_UPDATED"}

\* "torn" stands for a name or key that provisioning has half rewritten.
Credentials == {"good", "bad", "torn"}

\* sys_init_events raises DISCONNECTED so that the first connect happens.
Init ==
    /\ sysBits = {"DISCONNECTED"} /\ reconnecting = FALSE /\ queued = 0
    /\ lpc = "wait" /\ taken = {}
    /\ hpc = "idle" /\ used = "bad" /\ connected = FALSE
    /\ wbits = {} /\ retry = MaxRetry
    /\ ppc = "idle" /\ creds \in {"good", "bad"} /\ ap \in BOOLEAN
    /\ flips = 0 /\ updates = 0
    /\ started = FALSE /\ link = "down" /\ events = <<>> /\ attempts = 0
-----------------------------------------------------------------------------
(* app_system_loop, Wi-Fi branch.                                          *)

\* xEventGroupWaitBits clears what it returns.
LoopTake ==
    /\ lpc = "wait" /\ sysBits # {}
    /\ lpc' = "check" /\ taken' = sysBits /\ sysBits' = {}
    /\ UNCHANGED <<reconnecting, queued, handler, wbits, retry, environment, driver>>

NeedsReconnect == taken \cap ReconnectBits # {}

\* Nothing to do, or a reconnect is under way: the bits are forgotten.
LoopIgnore ==
    /\ lpc = "check" /\ (NeedsReconnect => reconnecting)
    /\ lpc' = "wait" /\ taken' = {}
    /\ UNCHANGED <<sysBits, reconnecting, queued, handler, wbits, retry, environment, driver>>

LoopClaim ==
    /\ lpc = "check" /\ NeedsReconnect /\ ~reconnecting
    /\ reconnecting' = TRUE
    /\ lpc' = "post" /\ taken' = {}
    /\ UNCHANGED <<sysBits, queued, handler, wbits, retry, environment, driver>>

LoopPost ==
    /\ lpc = "post"
    /\ queued' = queued + 1
    /\ lpc' = "wait"
    /\ UNCHANGED <<sysBits, taken, reconnecting, handler, wbits, retry, environment, driver>>
-----------------------------------------------------------------------------
(* The driver, as the code relies on it: esp_wifi_start posts STA_START, a *)
(* connect issued while it is stopped or already connecting is refused,    *)
(* and every attempt and every established link ends in an event.          *)

\* The driver waits until the event has room.
DriverPosts(e) == Len(events) < MaxEvents /\ events' = Append(events, e)

EspConnect(lk) ==
    IF started /\ lk = "down"
    THEN link' = "connecting" /\ attempts' = attempts + 1
    ELSE link' = lk /\ UNCHANGED attempts

DriverAssociates ==
    /\ link = "connecting" /\ ap /\ used = "good"
    /\ link' = "up" /\ DriverPosts("GOT_IP")
    /\ UNCHANGED <<started, attempts>>
    /\ UNCHANGED <<sysBits, reconnecting, loop, handler, wbits, retry, environment>>

DriverLosesLink ==
    /\ \/ link = "connecting" /\ ~(ap /\ used = "good")
       \/ link = "up" /\ ~ap
    /\ link' = "down" /\ DriverPosts("STA_DISCONNECTED")
    /\ UNCHANGED <<started, attempts>>
    /\ UNCHANGED <<sysBits, reconnecting, loop, handler, wbits, retry, environment>>
-----------------------------------------------------------------------------
(* wifi_event_handler, run by the default event loop.                      *)

Event(e) == events # <<>> /\ Head(events) = e /\ events' = Tail(events)

OnStaStart ==
    /\ Event("STA_START")
    /\ retry' = MaxRetry
    /\ IF started /\ link = "down" THEN link' = "connecting" /\ attempts' = 1
                                   ELSE attempts' = 0 /\ UNCHANGED link
    /\ UNCHANGED <<started, sysBits, reconnecting, loop, handler, wbits, environment>>

\* Slips: the counter not decremented, or the connect forgotten.
OnDisconnectedEndless ==
    /\ Event("STA_DISCONNECTED") /\ retry > 0
    /\ EspConnect(link)
    /\ UNCHANGED <<retry, started, sysBits, reconnecting, loop, handler, wbits, environment>>

OnDisconnectedSilent ==
    /\ Event("STA_DISCONNECTED") /\ retry > 0
    /\ retry' = retry - 1
    /\ UNCHANGED <<link, attempts>>
    /\ UNCHANGED <<started, sysBits, reconnecting, loop, handler, wbits, environment>>

OnDisconnectedRetry ==
    /\ Event("STA_DISCONNECTED") /\ retry > 0
    /\ retry' = retry - 1
    /\ EspConnect(link)
    /\ UNCHANGED <<started, sysBits, reconnecting, loop, handler, wbits, environment>>

\* A slip: the last failure is not reported.
OnDisconnectedGivesUp ==
    /\ Event("STA_DISCONNECTED") /\ retry = 0
    /\ UNCHANGED <<started, link, attempts, retry, wbits>>
    /\ UNCHANGED <<sysBits, reconnecting, loop, handler, environment>>

OnDisconnectedFail ==
    /\ Event("STA_DISCONNECTED") /\ retry = 0
    /\ wbits' = wbits \cup {"FAIL"}
    /\ UNCHANGED <<started, link, attempts, retry>>
    /\ UNCHANGED <<sysBits, reconnecting, loop, handler, environment>>

OnGotIp ==
    /\ Event("GOT_IP")
    /\ wbits' = wbits \cup {"CONNECTED"}
    /\ UNCHANGED <<started, link, attempts, retry>>
    /\ UNCHANGED <<sysBits, reconnecting, loop, handler, environment>>
-----------------------------------------------------------------------------
(* sys_wifi_reconnect_event_handler.                                       *)

HandlerStep(from, to) ==
    /\ hpc = from /\ hpc' = to
    /\ UNCHANGED <<lpc, taken, retry, environment>>

\* Leaving a link, or giving up an attempt, costs one STA_DISCONNECTED.
LinkDown ==
    /\ link' = "down"
    /\ IF link = "down" THEN UNCHANGED events ELSE DriverPosts("STA_DISCONNECTED")
    /\ UNCHANGED attempts

\* sys_wifi_try_disconnect, its four statements.  Between the first two the
\* driver's event task may already try again.
HandlerDisconnect ==
    /\ queued > 0 /\ queued' = queued - 1
    /\ HandlerStep("idle", "stop") /\ LinkDown
    /\ UNCHANGED <<started, connected, sysBits, reconnecting, used, wbits>>

HandlerStop ==
    /\ HandlerStep("stop", "left") /\ LinkDown
    /\ started' = FALSE
    /\ UNCHANGED <<queued, connected, sysBits, reconnecting, used, wbits>>

HandlerLeaves ==
    /\ HandlerStep("left", "announce")
    /\ connected' = FALSE
    /\ UNCHANGED <<queued, used, sysBits, reconnecting, wbits, driver>>

HandlerAnnounces ==
    /\ HandlerStep("announce", "prepare")
    /\ sysBits' = sysBits \cup {"DISCONNECTED"}
    /\ UNCHANGED <<queued, used, connected, reconnecting, wbits, driver>>

\* sys_wifi_prepare_config copies the credentials.
HandlerPrepare ==
    /\ HandlerStep("prepare", "clear")
    /\ used' = creds
    /\ UNCHANGED <<queued, connected, sysBits, reconnecting, wbits, driver>>

\* sys_wifi_try_connect: forget old outcomes, start the driver, wait.
HandlerClearBits ==
    /\ HandlerStep("clear", "start")
    /\ wbits' = {}
    /\ UNCHANGED <<queued, used, connected, sysBits, reconnecting, driver>>

HandlerStart ==
    /\ HandlerStep("start", "waiting")
    /\ started' = TRUE /\ DriverPosts("STA_START")
    /\ UNCHANGED <<link, attempts>>
    /\ UNCHANGED <<queued, used, connected, sysBits, reconnecting, wbits>>

\* A slip: the state is not brought up to date.
HandlerConnectedSilent ==
    /\ "CONNECTED" \in wbits
    /\ HandlerStep("waiting", "up")
    /\ UNCHANGED <<queued, used, sysBits, connected, reconnecting, wbits, driver>>

\* The flag first, then the bit.
HandlerConnected ==
    /\ "CONNECTED" \in wbits
    /\ HandlerStep("waiting", "up")
    /\ connected' = TRUE
    /\ UNCHANGED <<queued, used, sysBits, reconnecting, wbits, driver>>

HandlerRaises ==
    /\ HandlerStep("up", "ok")
    /\ sysBits' = sysBits \cup {"CONNECTED"}
    /\ UNCHANGED <<queued, used, connected, reconnecting, wbits, driver>>

\* A slip: the token given back before the outcome is reported.
HandlerFailedEarly ==
    /\ "FAIL" \in wbits /\ "CONNECTED" \notin wbits
    /\ HandlerStep("waiting", "failed")
    /\ connected' = FALSE /\ reconnecting' = FALSE
    /\ UNCHANGED <<queued, used, sysBits, wbits, driver>>

HandlerFailed ==
    /\ "FAIL" \in wbits /\ "CONNECTED" \notin wbits
    /\ HandlerStep("waiting", "failed")
    /\ connected' = FALSE
    /\ UNCHANGED <<queued, used, sysBits, reconnecting, wbits, driver>>

HandlerReport ==
    /\ \/ HandlerStep("ok", "finish") /\ sysBits' = sysBits \ {"FAIL"}
       \/ HandlerStep("failed", "finish") /\ sysBits' = sysBits \cup {"FAIL"}
    /\ UNCHANGED <<queued, used, connected, reconnecting, wbits, driver>>

HandlerFinish ==
    /\ HandlerStep("finish", "idle")
    /\ reconnecting' = FALSE
    /\ UNCHANGED <<queued, used, connected, sysBits, wbits, driver>>
-----------------------------------------------------------------------------
(* The environment: provisioning in three steps (overwrite, complete and   *)
(* save, raise CONFIG_UPDATED), and the access point.                      *)

ProvisionOverwrite ==
    /\ ppc = "idle" /\ updates < MaxUpdates
    /\ ppc' = "writing" /\ creds' = "torn" /\ updates' = updates + 1
    /\ UNCHANGED <<ap, flips>>
    /\ UNCHANGED <<sysBits, reconnecting, loop, handler, wbits, retry, driver>>

ProvisionStore(c) ==
    /\ ppc = "writing" /\ ppc' = "notify" /\ creds' = c
    /\ UNCHANGED <<ap, flips, updates>>
    /\ UNCHANGED <<sysBits, reconnecting, loop, handler, wbits, retry, driver>>

ProvisionNotify ==
    /\ ppc = "notify" /\ ppc' = "idle"
    /\ sysBits' = sysBits \cup {"CONFIG_UPDATED"}
    /\ UNCHANGED <<creds, ap, flips, updates>>
    /\ UNCHANGED <<reconnecting, loop, handler, wbits, retry, driver>>

ApFlips ==
    /\ flips < MaxApFlips /\ flips' = flips + 1
    /\ ap' = ~ap
    /\ UNCHANGED <<ppc, creds, updates>>
    /\ UNCHANGED <<sysBits, reconnecting, loop, handler, wbits, retry, driver>>
-----------------------------------------------------------------------------
Loop == LoopTake \/ LoopIgnore \/ LoopClaim \/ LoopPost
Driver == DriverAssociates \/ DriverLosesLink
OnEvent == OnStaStart \/ OnDisconnectedRetry \/ OnDisconnectedFail \/ OnGotIp
Handler ==
    \/ HandlerDisconnect \/ HandlerStop \/ HandlerLeaves \/ HandlerAnnounces
    \/ HandlerPrepare \/ HandlerClearBits \/ HandlerStart
    \/ HandlerConnected \/ HandlerRaises \/ HandlerFailed \/ HandlerReport \/ HandlerFinish
Provision ==
    \/ ProvisionOverwrite \/ ProvisionNotify
    \/ \E c \in {"good", "bad"} : ProvisionStore(c)

Next == Loop \/ Driver \/ OnEvent \/ Handler \/ Provision \/ ApFlips

Spec == Init /\ [][Next]_vars

\* Every task runs when it can, the driver brings every attempt to an end and
\* its events are handled; nothing is assumed of the access point or the user.
Fairness ==
    /\ WF_vars(Loop) /\ WF_vars(Driver) /\ WF_vars(OnEvent) /\ WF_vars(Handler)

FairSpec == Spec /\ Fairness
-----------------------------------------------------------------------------
(* Every variable keeps its type; the retry counter stays in its range.    *)
TypeOK ==
    /\ sysBits \in SUBSET WifiBits /\ taken \in SUBSET WifiBits
    /\ reconnecting \in BOOLEAN /\ queued \in Nat
    /\ lpc \in {"wait", "check", "post"}
    /\ hpc \in {"idle", "stop", "left", "announce", "prepare", "clear", "start",
                "waiting", "up", "ok", "failed", "finish"}
    /\ used \in Credentials /\ connected \in BOOLEAN
    /\ wbits \in SUBSET {"CONNECTED", "FAIL"}
    /\ retry \in 0 .. MaxRetry
    /\ ppc \in {"idle", "writing", "notify"} /\ creds \in Credentials
    /\ started \in BOOLEAN /\ link \in {"down", "connecting", "up"}
    /\ events \in Seq({"STA_START", "STA_DISCONNECTED", "GOT_IP"})
    /\ ap \in BOOLEAN
    /\ attempts \in Nat /\ flips \in Nat /\ updates \in Nat

\* How many reconnects exist: being posted, queued or running.
Outstanding ==
    queued + (IF lpc = "post" THEN 1 ELSE 0) + (IF hpc = "idle" THEN 0 ELSE 1)

(* EV_TASK_WIFI_RECONNECT is an exact token: while it is set there is one  *)
(* reconnect, posted, queued or running, and never a second; when it is    *)
(* clear there is none.  A second would tear down the link the first is    *)
(* building, a token without one would block every later reconnect.        *)
OneReconnectPerToken == Outstanding = (IF reconnecting THEN 1 ELSE 0)

(* The handler waits for the driver with no timeout: while it does, there  *)
(* is an outcome, or an event or an attempt that will lead to one.         *)
WaiterIsServed ==
    hpc = "waiting" => wbits # {} \/ events # <<>> \/ link = "connecting"

(* The retry budget: between two starts of the driver no more than         *)
(* MaxRetry + 1 connects are issued, whatever events arrive late.          *)
RetryBudget == attempts <= MaxRetry + 1

(* Every reconnect ends and gives the token back.                          *)
ReconnectEnds == reconnecting ~> ~reconnecting

(* With an access point in reach and good credentials the node is          *)
(* connected again and again, however the tasks and late events interleave *)
(* (a DISCONNECTED raised by the handler itself may cause a needless       *)
(* reconnect when the system loop takes it late).                          *)
GoodNetworkConnects == [](ap /\ creds = "good") => []<>(connected /\ link = "up")

\* Nothing is under way and nothing is pending in any of the tasks.
Quiet ==
    /\ sysBits = {} /\ lpc = "wait" /\ ~reconnecting
    /\ events = <<>> /\ link # "connecting" /\ ppc = "idle"

(* docs/blueprint.cn/06-event-system.md: a failed connect raises WIFI_FAIL *)
(* and the system loop triggers a reconnect, so the node does not come to  *)
(* rest unconnected.                                                       *)
FailureIsRetried == Quiet => connected \/ link = "up"
=============================================================================
