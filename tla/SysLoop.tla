------------------------------- MODULE SysLoop -------------------------------
(***************************************************************************)
(* The dispatcher of the node (components/apps/system_loop.c) with the     *)
(* handlers that block it.  Two tasks post into the event queue and wait   *)
(* as long as it is full: app_system_loop, which turns event bits into     *)
(* events, and the timer daemon, which runs the callbacks of three         *)
(* periodic timers.  One task takes the events and runs their handlers,    *)
(* of which time synchronisation, discovery and the Wi-Fi reconnect take   *)
(* seconds.  Bits of task_event_group tell that an event is under way.     *)
(*                                                                         *)
(* Time is not counted: a timer may expire whenever the daemon is free.    *)
(* What the handlers do is the matter of other modules (Wifi, Sync,        *)
(* PowerMgmt, Stream); here they take their time, end one way or another,  *)
(* and clear their bits.                                                   *)
(***************************************************************************)
EXTENDS EventQueue

CONSTANTS QueueSize,       \* queue_size of the event loop
          MaxRequests      \* bound: mode changes, updates, provisionings

ASSUME ConstantsAssumption ==
    /\ QueueSize \in Nat \ {0} /\ MaxRequests \in Nat

VARIABLES
  bits,      \* sys_event_group
  tokens,    \* task_event_group
  queue,     \* g_mcu.system_loop
  todo,      \* what app_system_loop still has to do in this round
  claimed,   \* the token of the first of them has been set
  dpc,       \* the event a timer callback is posting
  hpc,       \* the handler that is running
  wifi, ntp, \* g_mcu.state.wifi_connected and .ntp_synced
  requests   \* history

status == <<wifi, ntp>>
vars == <<bits, tokens, queue, todo, claimed, dpc, hpc, status, requests>>

\* "reconnect" stands for DISCONNECTED, FAIL and CONFIG_UPDATED, "wake" for
\* the bits that only wake the loop: NTP_SYNCED and DISCOVERY_COMPLETED.
\* "quick" stands for the events OTA, MODE_CHANGE and POWER_MGMT, whose
\* handlers neither wait nor touch these bits.
Bits == {"connected", "reconnect", "ota", "mode", "wake"}
Tokens == {"wifi", "led", "time_sync"}
Events == {"time_sync", "discovery", "wifi", "led", "quick"}

\* sys_init_events asks for the first connection.
Init ==
    /\ bits = {"reconnect"} /\ tokens = {} /\ queue = <<>>
    /\ todo = <<>> /\ claimed = FALSE /\ dpc = "free" /\ hpc = "idle"
    /\ wifi = FALSE /\ ntp = FALSE /\ requests = 0

\* esp_event_post_to with portMAX_DELAY: the caller waits for room.
Post(e) == Len(queue) < QueueSize /\ queue' = Append(queue, e)
-----------------------------------------------------------------------------
(* app_system_loop.                                                        *)

Branch(set, bit, events) == IF bit \in set THEN events ELSE <<>>

\* The branches in their order; the LED branch is entered after every wake.
Round(set) ==
    Branch(set, "connected", <<"time_sync", "discovery">>)
      \o Branch(set, "reconnect", <<"wifi">>) \o Branch(set, "ota", <<"quick", "update">>)
      \o Branch(set, "mode", <<"quick">>) \o <<"led">>

LoopStep == UNCHANGED <<dpc, hpc, status, requests>>

LoopTake ==
    /\ todo = <<>> /\ bits # {}
    /\ todo' = Round(bits) /\ bits' = {}
    /\ UNCHANGED <<tokens, queue, claimed>> /\ LoopStep

Proceed == todo # <<>> /\ todo' = Tail(todo)

\* A slip: an event is posted although its token is taken.
LoopClaimAlways ==
    /\ todo # <<>> /\ Head(todo) \in {"wifi", "led"} /\ ~claimed
    /\ claimed' = TRUE /\ tokens' = tokens \cup {Head(todo)}
    /\ UNCHANGED <<bits, queue, todo>> /\ LoopStep

\* The token is set first, ...
LoopClaim ==
    /\ todo # <<>> /\ Head(todo) \in {"wifi", "led"} /\ ~claimed
    /\ Head(todo) \notin tokens
    /\ claimed' = TRUE /\ tokens' = tokens \cup {Head(todo)}
    /\ UNCHANGED <<bits, queue, todo>> /\ LoopStep

\* The token is taken, or the LED is under manual control.
LoopSkip ==
    /\ Proceed /\ ~claimed
    /\ Head(todo) \in (tokens \cap {"wifi", "led"}) \cup {"led"}
    /\ UNCHANGED <<bits, tokens, queue, claimed>> /\ LoopStep

\* ... then the event is posted.
LoopPost ==
    /\ Proceed /\ Head(todo) # "update"
    /\ Head(todo) \in {"wifi", "led"} => claimed
    /\ Post(Head(todo))
    /\ claimed' = FALSE
    /\ UNCHANGED <<bits, tokens>> /\ LoopStep

\* The recording is ended; sys_ota_perform returns only if the update fails.
UpdateFails ==
    /\ Proceed /\ Head(todo) = "update"
    /\ bits' = bits \cup {"mode"}
    /\ UNCHANGED <<tokens, queue, claimed>> /\ LoopStep
-----------------------------------------------------------------------------
(* The timer daemon: one callback at a time.                               *)

Callback(e) ==
    /\ dpc = "free" /\ dpc' = e
    /\ UNCHANGED <<bits, queue, todo, claimed, hpc, status, requests>>

TickDiscovery == wifi /\ Callback("discovery") /\ UNCHANGED tokens

TickTimeSync ==
    /\ (wifi /\ "time_sync" \notin tokens) \/ ~ntp
    /\ Callback("time_sync") /\ tokens' = tokens \cup {"time_sync"}

\* Unless the device is in POWER_SAVE.
TickPower == Callback("quick") /\ UNCHANGED tokens

\* A slip: a post that does not wait for room.
DaemonPostOrDrop ==
    /\ dpc # "free" /\ dpc' = "free"
    /\ IF Len(queue) < QueueSize THEN queue' = Append(queue, dpc) ELSE UNCHANGED queue
    /\ UNCHANGED <<bits, tokens, todo, claimed, hpc, status, requests>>

DaemonPost ==
    /\ dpc # "free" /\ dpc' = "free"
    /\ Post(dpc)
    /\ UNCHANGED <<bits, tokens, todo, claimed, hpc, status, requests>>
-----------------------------------------------------------------------------
(* The event-loop task.                                                    *)

HandlerStep(from, to) ==
    /\ hpc = from /\ hpc' = to
    /\ UNCHANGED <<todo, claimed, dpc, requests>>

\* The handlers that take time or clear a bit.
Slow == {"time_sync", "discovery", "wifi", "led"}

HandlerTake ==
    /\ queue # <<>> /\ queue' = Tail(queue)
    /\ HandlerStep("idle", IF Head(queue) \in Slow THEN Head(queue) ELSE "idle")
    /\ UNCHANGED <<bits, tokens, status>>

\* sys_time_sync_handler: the callback tells of the answer.
SyncAnswered ==
    /\ wifi /\ HandlerStep("time_sync", "synced")
    /\ ntp' = TRUE /\ bits' = bits \cup {"wake"}
    /\ UNCHANGED <<tokens, queue, wifi>>

\* A slip: a failure posts the next attempt itself.
SyncFailsReposts ==
    /\ HandlerStep("time_sync", "synced")
    /\ Post("time_sync")
    /\ UNCHANGED <<bits, tokens, status>>

SyncFails ==
    /\ HandlerStep("time_sync", "synced")
    /\ UNCHANGED <<bits, tokens, queue, status>>

SyncDone ==
    /\ HandlerStep("synced", "idle")
    /\ tokens' = tokens \ {"time_sync"}
    /\ UNCHANGED <<bits, queue, status>>

\* sys_discovery_handler: an answer wakes the loop, silence does not.
DiscoveryEnds ==
    /\ HandlerStep("discovery", "idle")
    /\ \/ wifi /\ bits' = bits \cup {"wake"}
       \/ UNCHANGED bits
    /\ UNCHANGED <<tokens, queue, status>>

\* sys_wifi_reconnect_event_handler in brief: down, an outcome, the token.
\* Clearing FAIL after a success leaves DISCONNECTED: no effect on "reconnect".
WifiDown ==
    /\ HandlerStep("wifi", "connecting")
    /\ wifi' = FALSE /\ bits' = bits \cup {"reconnect"}
    /\ UNCHANGED <<tokens, queue, ntp>>

WifiUp ==
    /\ HandlerStep("connecting", "reconnected")
    /\ wifi' = TRUE /\ bits' = bits \cup {"connected"}
    /\ UNCHANGED <<tokens, queue, ntp>>

WifiFails ==
    /\ HandlerStep("connecting", "reconnected")
    /\ bits' = bits \cup {"reconnect"}
    /\ UNCHANGED <<tokens, queue, status>>

WifiDone ==
    /\ HandlerStep("reconnected", "idle")
    /\ tokens' = tokens \ {"wifi"}
    /\ UNCHANGED <<bits, queue, status>>

\* sys_led_status_handler
LedDone ==
    /\ HandlerStep("led", "idle")
    /\ tokens' = tokens \ {"led"}
    /\ UNCHANGED <<bits, queue, status>>
-----------------------------------------------------------------------------
(* What comes from outside.                                                *)

\* A mode change, an update, new credentials.
Request(bit) ==
    /\ requests < MaxRequests /\ requests' = requests + 1
    /\ bits' = bits \cup {bit}
    /\ UNCHANGED <<tokens, queue, todo, claimed, dpc, hpc, status>>
-----------------------------------------------------------------------------
Loop == LoopTake \/ LoopClaim \/ LoopSkip \/ LoopPost \/ UpdateFails
Daemon == TickDiscovery \/ TickTimeSync \/ TickPower \/ DaemonPost
Handler ==
    \/ HandlerTake \/ SyncAnswered \/ SyncFails \/ SyncDone \/ DiscoveryEnds
    \/ WifiDown \/ WifiUp \/ WifiFails \/ WifiDone \/ LedDone
Outside == \E bit \in {"mode", "ota", "reconnect"} : Request(bit)

Next == Loop \/ Daemon \/ Handler \/ Outside

Spec == Init /\ [][Next]_vars

\* Tasks that can run do, handlers and updates end.  The daemon runs expired
\* timers in the order of their expiry, so each gets its turn; of the two tasks
\* that may wait for room the loop has the higher priority, and it posts only a
\* few events before it waits for bits: neither is passed over forever.
Fairness ==
    /\ WF_vars(Loop) /\ WF_vars(Handler)
    /\ SF_vars(LoopPost) /\ SF_vars(DaemonPost)
    /\ SF_vars(TickDiscovery) /\ SF_vars(TickTimeSync)

FairSpec == Spec /\ Fairness
-----------------------------------------------------------------------------
(* Every variable keeps its type; the queue keeps its size.                *)
TypeOK ==
    /\ bits \in SUBSET Bits /\ tokens \in SUBSET Tokens
    /\ queue \in Seq(Events) /\ Len(queue) <= QueueSize
    /\ todo \in Seq(Events \cup {"update"}) /\ claimed \in BOOLEAN
    /\ dpc \in {"free", "time_sync", "discovery", "quick"}
    /\ hpc \in Slow \cup {"idle", "synced", "connecting", "reconnected"}
    /\ wifi \in BOOLEAN /\ ntp \in BOOLEAN /\ requests \in Nat

Queued(e) == Cardinality(Posted(e, queue))
Posting(e) == IF claimed /\ todo # <<>> /\ Head(todo) = e THEN 1 ELSE 0
Running(e) ==
    IF hpc = e \/ (e = "wifi" /\ hpc \in {"connecting", "reconnected"}) THEN 1 ELSE 0

(* The bits that guard the Wi-Fi reconnect and the LED update are exact:   *)
(* set as long as one event is posted, queued or handled, never two, and   *)
(* never set without one, which would end all later ones.                  *)
OneEventPerToken ==
    \A e \in {"wifi", "led"} :
        Posting(e) + Queued(e) + Running(e) = IF e \in tokens THEN 1 ELSE 0

(* The time-sync bit is not exact (a new connection posts without it and   *)
(* every handler run clears it), but it is never set without an event on   *)
(* the way, after which the timer would never synchronise again.           *)
SyncTokenBacked ==
    "time_sync" \in tokens =>
      dpc = "time_sync" \/ Posted("time_sync", queue) # {}
        \/ hpc \in {"time_sync", "synced"}

(* Although both posting tasks wait without a limit for room in a queue    *)
(* whose only consumer blocks for seconds, neither waits forever.          *)
CallersReturn ==
    /\ dpc # "free" ~> dpc = "free"
    /\ todo # <<>> ~> todo = <<>>

(* While the node stays connected, synchronisation and discovery are tried *)
(* again and again: no bit, full queue or blocked task ends the series.    *)
ServicesGoOn ==
    <>[]wifi => []<>(hpc = "time_sync") /\ []<>(hpc = "discovery")
=============================================================================
