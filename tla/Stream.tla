------------------------------- MODULE Stream -------------------------------
(***************************************************************************)
(* The data path: app_monitor (components/apps/monitor.c) reads the IMU    *)
(* and pushes frames into the ring buffer, app_data_client                 *)
(* (components/apps/network.c) follows it with an index of its own and     *)
(* sends each frame by UDP.  What both obey is decided elsewhere: a REST   *)
(* call, a button or the client itself sets state.active and raises        *)
(* MODE_CHANGE; the system loop turns that bit into an event; the event    *)
(* handler turns state.active into the multiplexer the monitor looks at.   *)
(* The client looks at state.active itself, so the two tasks learn of a    *)
(* start or a stop at different times.                                     *)
(*                                                                         *)
(* Here a push and a peek are atomic (RingBuf has their steps), and a      *)
(* frame is known by the ring session and the sequence number the monitor  *)
(* tags it with, and by the recording (number of starts) it was read in.   *)
(***************************************************************************)
EXTENDS RingOps, FiniteSets

CONSTANTS MaxSeq,      \* bound: frames per ring session
          MaxResets,   \* bound: ring buffer resets
          MaxRec,      \* bound: recordings
          MaxSwitch,   \* bound: stop requests, IMU and debug switches
          MaxQueue,    \* bound: MODE_CHANGE events queued at once
          NoFrame

ASSUME StreamAssumption ==
    /\ MaxSeq \in Nat /\ MaxResets \in Nat /\ MaxRec \in Nat
    /\ MaxSwitch \in Nat /\ MaxQueue \in Nat \ {0}

VARIABLES
  \* g_mcu and g_imu
  active,     \* g_mcu.state.active
  ready,      \* g_mcu.state.ntp_synced and .discovery_completed
  enabled,    \* g_imu.p_imu->enabled
  mux,        \* g_imu.p_imu->mux
  missed,     \* g_mcu.missed_frames
  bufHead, ring, \* g_mcu.imu_ring_buf: its head and its slots
  \* the way from a mode request to the multiplexer
  raise,      \* callers of sys_set_operation_mode that wrote active
              \* but have not set the event bit yet
  modeBit,    \* EV_SYS_MODE_CHANGE
  modeQueue,  \* MODE_CHANGE events posted and not handled
  handler,    \* the value sys_mode_change_handler is about to write
  \* the tasks
  mpc, seq,   \* app_monitor
  cpc, curr, held, sock, \* app_data_client: curr_index, the peeked frame,
                         \* client.initialized
  \* history
  resets, rec, switches, \* numbers of resets, recordings, other requests
  override,   \* the debug endpoint wrote mux last
  last,       \* the last frame sent in this send loop
  clean,      \* no resynchronisation or reset since the loop was entered
  late        \* frames sent since the last stop

streamVars == <<active, ready, enabled, mux, missed, bufHead, ring, raise, modeBit,
          modeQueue, handler, mpc, seq, cpc, curr, held, sock, resets, rec,
          switches, override, last, clean, late>>

buffer == <<bufHead, ring, resets>>
modePath == <<raise, modeBit, modeQueue, handler, mux, override>>
requests == <<ready, enabled, rec, switches>>
monitor == <<mpc, seq>>
client == <<cpc, curr, held, sock, missed, last, clean>>

\* The REST server, the button, app_data_client, and app_system_loop when it
\* starts an update.
Requesters == {"rest", "button"}
Callers == Requesters \cup {"client", "loop"}
Frame == [sess : Nat, seq : Nat]

ASSUME FrameAssumption == NoFrame \notin Frame

StreamInit ==
    /\ active = FALSE /\ ready = FALSE /\ enabled = TRUE /\ mux = "IDLE"
    /\ missed = 0 /\ bufHead = FirstIndex /\ ring = [s \in Slots |-> NoFrame]
    /\ raise = {} /\ modeBit = FALSE /\ modeQueue = 0 /\ handler = "none"
    /\ mpc = "wait" /\ seq = 0
    /\ cpc = "wait" /\ curr = FirstIndex /\ held = NoFrame /\ sock = FALSE
    /\ resets = 0 /\ rec = 0 /\ switches = 0 /\ override = FALSE
    /\ last = NoFrame /\ clean = FALSE /\ late = 0
-----------------------------------------------------------------------------
(* sys_set_operation_mode, its two statements, and what follows.           *)

WriteActive(c, b) ==
    /\ c \notin raise
    /\ active' = b
    /\ late' = IF b THEN 0 ELSE late
    /\ raise' = raise \cup {c}

RaiseModeChange(c) ==
    /\ c \in raise
    /\ raise' = raise \ {c}
    /\ modeBit' = TRUE
    /\ UNCHANGED <<active, late, modeQueue, handler, mux, override>>
    /\ UNCHANGED <<buffer, requests, monitor, client>>

\* A slip: the bit is taken and the event dropped when one is queued.
PostModeChangeDrops ==
    /\ modeBit /\ modeQueue < MaxQueue /\ "loop" \notin raise
    /\ modeBit' = FALSE
    /\ modeQueue' = IF handler = "none" THEN modeQueue + 1 ELSE modeQueue
    /\ UNCHANGED <<active, late, raise, handler, mux, override>>
    /\ UNCHANGED <<buffer, requests, monitor, client>>

\* app_system_loop takes the bit and posts the event.
PostModeChange ==
    /\ modeBit /\ modeQueue < MaxQueue /\ "loop" \notin raise
    /\ modeBit' = FALSE
    /\ modeQueue' = modeQueue + 1
    /\ UNCHANGED <<active, late, raise, handler, mux, override>>
    /\ UNCHANGED <<buffer, requests, monitor, client>>

\* sys_mode_change_handler: the test of active, then the store to mux.
HandleModeRead ==
    /\ modeQueue > 0 /\ handler = "none"
    /\ modeQueue' = modeQueue - 1
    /\ handler' = IF active THEN "STREAM" ELSE "IDLE"
    /\ UNCHANGED <<active, late, raise, modeBit, mux, override>>
    /\ UNCHANGED <<buffer, requests, monitor, client>>

HandleModeWrite ==
    /\ handler # "none"
    /\ mux' = handler /\ handler' = "none" /\ override' = FALSE
    /\ UNCHANGED <<active, late, raise, modeBit, modeQueue>>
    /\ UNCHANGED <<buffer, requests, monitor, client>>
-----------------------------------------------------------------------------
(* Requests from outside.                                                  *)

Switch == switches < MaxSwitch /\ switches' = switches + 1

\* A start of a stopped node begins a recording ...
Start(c) ==
    /\ ~active /\ rec < MaxRec /\ rec' = rec + 1
    /\ WriteActive(c, TRUE)
    /\ UNCHANGED <<modeBit, modeQueue, handler, mux, override>>
    /\ UNCHANGED <<ready, enabled, switches, buffer, monitor, client>>

\* ... another one only raises MODE_CHANGE again.
StartAgain(c) ==
    /\ active /\ Switch
    /\ WriteActive(c, TRUE)
    /\ UNCHANGED <<modeBit, modeQueue, handler, mux, override>>
    /\ UNCHANGED <<ready, enabled, rec, buffer, monitor, client>>

\* ... and a stop may come with the update that app_system_loop begins.
Stop(c) ==
    /\ Switch
    /\ WriteActive(c, FALSE)
    /\ UNCHANGED <<modeBit, modeQueue, handler, mux, override>>
    /\ UNCHANGED <<ready, enabled, rec, buffer, monitor, client>>

\* /v1/imu/toggle
ToggleImu ==
    /\ Switch
    /\ enabled' = ~enabled
    /\ UNCHANGED <<active, late, ready, rec, modePath, buffer, monitor, client>>

\* /v1/imu/debug/toggle
ToggleDebug(on) ==
    /\ Switch
    /\ mux' = IF on THEN "DEBUG" ELSE "IDLE"
    /\ override' = TRUE
    /\ UNCHANGED <<raise, modeBit, modeQueue, handler>>
    /\ UNCHANGED <<active, late, ready, enabled, rec, buffer, monitor, client>>

\* The first NTP answer and the first discovery answer have both arrived.
Synchronised ==
    /\ ~ready /\ ready' = TRUE
    /\ UNCHANGED <<active, late, enabled, rec, switches>>
    /\ UNCHANGED <<modePath, buffer, monitor, client>>
-----------------------------------------------------------------------------
(* app_monitor.                                                            *)

Streaming == enabled /\ mux = "STREAM"

\* The outer loop finds the sensor streaming and flushes its buffer ...
MonitorFlush ==
    /\ mpc = "wait" /\ Streaming /\ resets < MaxResets
    /\ mpc' = "reset"
    /\ UNCHANGED <<seq, active, late, requests, modePath, buffer, client>>

\* ... then restarts the numbering, a local, and empties the ring.
MonitorReset ==
    /\ mpc = "reset"
    /\ mpc' = "loop" /\ seq' = 0
    /\ bufHead' = FirstIndex /\ resets' = resets + 1
    /\ clean' = (clean /\ cpc \in {"wait", "abort"})
    /\ UNCHANGED <<ring, active, late, requests, modePath>>
    /\ UNCHANGED <<cpc, curr, held, sock, missed, last>>

\* A slip: the inner loop looks at the sensor only.
MonitorCheckDeaf ==
    /\ mpc = "loop"
    /\ mpc' = IF enabled THEN "read" ELSE "wait"
    /\ UNCHANGED <<seq, active, late, requests, modePath, buffer, client>>

MonitorCheck ==
    /\ mpc = "loop"
    /\ mpc' = IF Streaming THEN "read" ELSE "wait"
    /\ UNCHANGED <<seq, active, late, requests, modePath, buffer, client>>

\* The read timed out: back to the loop condition.
MonitorReadFails ==
    /\ mpc = "read" /\ mpc' = "loop"
    /\ UNCHANGED <<seq, active, late, requests, modePath, buffer, client>>

MonitorPush ==
    /\ mpc = "read" /\ bufHead <= MaxSeq
    /\ ring' = [ring EXCEPT ![SlotOf(bufHead)] =
                  [sess |-> resets, seq |-> seq]]
    /\ bufHead' = bufHead + 1 /\ seq' = seq + 1
    /\ mpc' = "loop"
    /\ UNCHANGED <<resets, active, late, requests, modePath, client>>
-----------------------------------------------------------------------------
(* app_data_client.                                                        *)

ClientStep(from, to) ==
    /\ cpc = from /\ cpc' = to
    /\ UNCHANGED <<requests, buffer, monitor>>
    /\ UNCHANGED <<modeBit, modeQueue, handler, mux, override>>

\* Both tests of readiness passed; udp_socket_init may fail the first time.
ClientEnter ==
    /\ active /\ ready /\ "client" \notin raise
    /\ ClientStep("wait", "loop")
    /\ sock' = TRUE /\ curr' = FirstIndex /\ missed' = 0
    /\ last' = NoFrame /\ clean' = TRUE
    /\ UNCHANGED <<held, raise, active, late>>

ClientInitFails ==
    /\ active /\ ready /\ ~sock /\ "client" \notin raise
    /\ ClientStep("wait", "abort")
    /\ UNCHANGED <<sock, curr, missed, last, clean, held, raise, active, late>>

\* The loop condition and the rate limit; while nothing new is there the
\* client yields, which changes nothing.
ClientLeave ==
    /\ ~active
    /\ ClientStep("loop", "abort")
    /\ UNCHANGED <<sock, curr, missed, last, clean, held, raise, active, late>>

\* A slip: the inner loop does not look at active.
ClientCheckDeaf ==
    /\ ~NotPushed(bufHead, curr)
    /\ ClientStep("loop", "peek")
    /\ UNCHANGED <<sock, curr, missed, last, clean, held, raise, active, late>>

\* A slip: the newest frame is taken for one that is not there yet.
ClientCheckHoldsOne ==
    /\ active /\ ~NotPushed(bufHead, curr + 1)
    /\ ClientStep("loop", "peek")
    /\ UNCHANGED <<sock, curr, missed, last, clean, held, raise, active, late>>

ClientCheck ==
    /\ active /\ ~NotPushed(bufHead, curr)
    /\ ClientStep("loop", "peek")
    /\ UNCHANGED <<sock, curr, missed, last, clean, held, raise, active, late>>

\* The peek is refused when the monitor emptied the ring in between.
ClientPeekRefused ==
    /\ NotPushed(bufHead, curr)
    /\ ClientStep("peek", "loop")
    /\ UNCHANGED <<sock, curr, missed, last, clean, held, raise, active, late>>

\* A slip: the index advances once more.
ClientPeekSkips ==
    /\ ~NotPushed(bufHead, curr)
    /\ ClientStep("peek", "send")
    /\ held' = ring[SlotOf(PeekIndex(bufHead, curr))]
    /\ curr' = curr + 2
    /\ clean' = (clean /\ ~OutOfWindow(bufHead, curr))
    /\ UNCHANGED <<sock, missed, last, raise, active, late>>

\* curr_index advances by one, whatever index the peek really read.
ClientPeek ==
    /\ ~NotPushed(bufHead, curr)
    /\ ClientStep("peek", "send")
    /\ held' = ring[SlotOf(PeekIndex(bufHead, curr))]
    /\ curr' = curr + 1
    /\ clean' = (clean /\ ~OutOfWindow(bufHead, curr))
    /\ UNCHANGED <<sock, missed, last, raise, active, late>>

ClientSent ==
    /\ ClientStep("send", "loop")
    /\ last' = held /\ held' = NoFrame
    /\ late' = IF active THEN late ELSE late + 1
    /\ UNCHANGED <<sock, curr, missed, clean, raise, active>>

\* Only a send that failed for want of memory is counted.
ClientSendFails ==
    /\ ClientStep("send", "abort")
    /\ held' = NoFrame /\ missed' \in {missed, missed + 1}
    /\ UNCHANGED <<sock, curr, last, clean, raise, active, late>>

\* handle_error: the client stops the recording itself, then sleeps.
ClientAbortStops ==
    /\ active
    /\ WriteActive("client", FALSE)
    /\ ClientStep("abort", "wait")
    /\ UNCHANGED <<sock, curr, missed, last, clean, held>>

ClientAbort ==
    /\ ~active
    /\ ClientStep("abort", "wait")
    /\ UNCHANGED <<sock, curr, missed, last, clean, held, raise, active, late>>
-----------------------------------------------------------------------------
ModeChange ==
    \/ \E c \in Callers : RaiseModeChange(c)
    \/ PostModeChange \/ HandleModeRead \/ HandleModeWrite

Monitor == MonitorFlush \/ MonitorReset \/ MonitorCheck \/ MonitorReadFails \/ MonitorPush

Client ==
    \/ ClientEnter \/ ClientInitFails \/ ClientLeave \/ ClientCheck
    \/ ClientPeekRefused \/ ClientPeek \/ ClientSent \/ ClientSendFails
    \/ ClientAbortStops \/ ClientAbort

ModeRequest ==
    \/ \E c \in Requesters : Start(c) \/ StartAgain(c)
    \/ \E c \in Requesters \cup {"loop"} : Stop(c)

Request == \/ ModeRequest \/ ToggleImu \/ Synchronised
           \/ \E on \in BOOLEAN : ToggleDebug(on)

StreamNext == ModeChange \/ Monitor \/ Client \/ Request

StreamSpec == StreamInit /\ [][StreamNext]_streamVars

(* What the scheduler and the timeouts guarantee: every task that can go   *)
(* on does (the tasks block only in timed waits), a read of the sensor and *)
(* a send end one way or the other.  Nothing is assumed of the requests.   *)
MonitorRead == MonitorReadFails \/ MonitorPush
ClientPeeks == ClientPeekRefused \/ ClientPeek
ClientSends == ClientSent \/ ClientSendFails

StreamFairness ==
    /\ \A c \in Callers : WF_streamVars(RaiseModeChange(c))
    /\ WF_streamVars(PostModeChange) /\ WF_streamVars(HandleModeRead) /\ WF_streamVars(HandleModeWrite)
    /\ WF_streamVars(MonitorReset) /\ WF_streamVars(MonitorCheck)
    /\ WF_streamVars(MonitorRead)
    /\ WF_streamVars(ClientCheck \/ ClientLeave) /\ WF_streamVars(ClientPeeks)
    /\ WF_streamVars(ClientSends) /\ WF_streamVars(ClientAbort \/ ClientAbortStops)

StreamFairSpec == StreamSpec /\ StreamFairness
-----------------------------------------------------------------------------
(* Every variable keeps its type; the queue of mode changes its length.    *)
StreamTypeOK ==
    /\ active \in BOOLEAN /\ ready \in BOOLEAN /\ enabled \in BOOLEAN
    /\ mux \in {"IDLE", "STREAM", "DEBUG"}
    /\ missed \in Nat /\ bufHead \in Nat \ {0}
    /\ ring \in [Slots -> Frame \cup {NoFrame}]
    /\ raise \in SUBSET Callers /\ modeBit \in BOOLEAN
    /\ modeQueue \in 0 .. MaxQueue /\ handler \in {"none", "IDLE", "STREAM"}
    /\ mpc \in {"wait", "reset", "loop", "read"} /\ seq \in Nat
    /\ cpc \in {"wait", "loop", "peek", "send", "abort"}
    /\ curr \in Nat \ {0} /\ sock \in BOOLEAN
    /\ held \in Frame \cup {NoFrame} /\ last \in Frame \cup {NoFrame}
    /\ resets \in Nat /\ rec \in Nat /\ switches \in Nat
    /\ override \in BOOLEAN /\ clean \in BOOLEAN /\ late \in Nat

\* f is frame i of the current ring session.
IsFrame(f, i) == f # NoFrame /\ f.sess = resets /\ f.seq = i - 1

(* The sequence number a frame carries is its index in the ring, for every *)
(* frame that can still be peeked: network.c and monitor.c count apart.    *)
SeqIsIndex ==
    /\ seq = bufHead - 1
    /\ \A i \in Window(bufHead) : IsFrame(ring[SlotOf(i)], i)

(* As long as the client has neither been lapped nor had the ring reset    *)
(* under it, it has sent every frame of the session exactly once, in       *)
(* order, from the first to the one before curr_index.                     *)
ExactlyOnceWhileClean ==
    clean =>
      /\ cpc = "send" => IsFrame(held, curr - 1)
      /\ LET sent == IF cpc = "send" THEN curr - 2 ELSE curr - 1 IN
         cpc \in {"loop", "peek", "send"} =>
           IF sent = 0 THEN last = NoFrame ELSE IsFrame(last, sent)

(* After a stop at most one more frame leaves the node: the one the client *)
(* had already decided to send.                                            *)
AtMostOneLateFrame == late <= 1

(* When no mode change is on its way the multiplexer agrees with           *)
(* state.active, unless the debug endpoint was the last to write it:       *)
(* bits that merge and a handler that read active too early never leave    *)
(* the monitor in the wrong mode for good.                                 *)
ModeSettled == raise = {} /\ ~modeBit /\ modeQueue = 0 /\ handler = "none"
MuxFollowsMode ==
    ModeSettled /\ ~override => mux = (IF active THEN "STREAM" ELSE "IDLE")

(* A stop ends the monitor's streaming loop, whatever requests follow,     *)
(* unless one of them is a start.                                          *)
StopStopsMonitor == ~active ~> (active \/ mpc = "wait")

(* When the monitor has stopped for good, the client does not keep frames  *)
(* back: again and again it has sent all of them, or it has left its loop. *)
ClientDrains ==
    <>[](mpc = "wait") =>
      []<>(NotPushed(bufHead, curr) \/ cpc \in {"wait", "abort"})
=============================================================================
