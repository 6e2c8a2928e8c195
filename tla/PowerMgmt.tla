----------------------------- MODULE PowerMgmt -----------------------------
(***************************************************************************)
(* components/sys/power_mgmt.c with the boot sequence of main/app_main.c:  *)
(* the states a node goes through between two deep sleeps, and what        *)
(* survives them in RTC memory.  Four tasks may put the node to sleep,     *)
(* all by power_mgmt_on_enter_deep_sleep: app_main when the sleep timer    *)
(* woke it, the timer daemon when the power-save timer expires, the button *)
(* daemon on a long press, and app_power_save, which the expired timer     *)
(* starts and which then runs beside the daemon that is about to sleep.    *)
(* The event loop meanwhile runs sys_power_mgmt_handler, and all of them   *)
(* write g_power_mgmt_ctx.state.                                           *)
(*                                                                         *)
(* Time is counted in periods of power_mgmt_timer (20 s): Timeout of them  *)
(* make the power-save timeout (15 in the firmware), and the event loop is *)
(* assumed never to be MaxLag periods behind, MaxLag < Timeout.  The power *)
(* mode is always NORMAL: nothing in the program writes next_mode.         *)
(***************************************************************************)
EXTENDS EventQueue

CONSTANTS Timeout,     \* CONFIG_POWER_SAVE_TIMEOUT_S in timer periods
          MaxLag,      \* bound: POWER_MGMT events not handled yet
          MaxCycles,   \* CONFIG_POWER_SAVE_CYCLE_MAX_COUNT
          MaxBoots,    \* bound: boots
          MaxRequests  \* bound: requests of a user in all

ASSUME TimingAssumption ==
    /\ Timeout \in Nat /\ MaxLag \in Nat \ {0} /\ MaxLag < Timeout
    /\ MaxCycles \in Nat /\ MaxBoots \in Nat /\ MaxRequests \in Nat

VARIABLES
  \* g_power_mgmt_ctx, in RTC memory
  initialized, state, noSleep,
  \* the chip
  power,      \* "on" or "asleep"
  cause,      \* why it woke
  timerWake,  \* the sleep timer is among the wake-up sources
  \* RAM, lost in deep sleep
  bpc,        \* app_main
  up,         \* the peripherals that on_enter_standby starts and others stop
  tasks,      \* app_system_loop and the other tasks are running
  active,     \* g_mcu.state.active
  bits,       \* EV_SYS_MODE_CHANGE and EV_SYS_OTA_TRIGGERED in sys_event_group
  setting,    \* the tasks that have written active and not yet set its bit
  taken,      \* those that the current round of app_system_loop has left to do
  ota,        \* app_system_loop is inside sys_ota_perform
  off,        \* the one-shot timers of /v1/system/power
  queue,      \* g_mcu.system_loop: events posted and not handled
  hpc,        \* sys_power_mgmt_handler
  running, timer,     \* power_save_timer and the periods since its reset
  apc, cycles,        \* app_power_save
  sleep,      \* where each task is in power_mgmt_on_enter_deep_sleep
  \* history
  boots, requests,
  kept,       \* since the handler last re-armed the timer, the node has
              \* stayed active (or under an update)
  fired       \* the power-save timer has expired since the boot

rtc == <<initialized, state, noSleep>>
chip == <<power, cause, timerWake>>
boot == <<bpc, up, tasks>>
mode == <<active, bits, setting>>
loop == <<taken, ota>>
clock == <<running, timer>>
app == <<apc, cycles>>
bounds == <<boots, requests>>
vars == <<rtc, chip, boot, mode, loop, off, queue, hpc, clock, app, sleep,
          bounds, kept, fired>>

Peripherals == {"button", "imu", "led", "ble", "wifi", "rest"}
Sleepers == {"main", "daemon", "button", "app"}
Setters == {"button", "rest", "client", "loop"}
Events == {"pm", "mode", "ota"}
States == {"NORMAL_BOOT", "STANDBY", "ACTIVE", "SAVE", "DEEP_SLEEP", "WAKEN", "UNKNOWN"}

\* The argument each caller gives power_mgmt_on_enter_deep_sleep.
Wakeup(s) == s \in {"main", "app"}

Init ==
    /\ bpc = "init" /\ up = {} /\ tasks = FALSE
    /\ active = FALSE /\ bits = {} /\ setting = {}
    /\ taken = {} /\ ota = FALSE /\ off = {}
    /\ queue = <<>> /\ hpc = "idle" /\ running = FALSE /\ timer = 0
    /\ apc = "none" /\ cycles = 0 /\ sleep = [s \in Sleepers |-> "no"]
    /\ kept = FALSE /\ fired = FALSE /\ timerWake = FALSE
    /\ initialized = FALSE /\ state = "NORMAL_BOOT" /\ noSleep = FALSE
    /\ power = "on" /\ cause = "reset"
    /\ boots = 1 /\ requests = 0

RamLost ==
    /\ bpc' = "init" /\ up' = {} /\ tasks' = FALSE
    /\ active' = FALSE /\ bits' = {} /\ setting' = {}
    /\ taken' = {} /\ ota' = FALSE /\ off' = {}
    /\ queue' = <<>> /\ hpc' = "idle" /\ running' = FALSE /\ timer' = 0
    /\ apc' = "none" /\ cycles' = 0 /\ sleep' = [s \in Sleepers |-> "no"]
    /\ kept' = FALSE /\ fired' = FALSE /\ timerWake' = FALSE

Boots(c) ==
    /\ boots < MaxBoots /\ boots' = boots + 1
    /\ RamLost /\ power' = "on" /\ cause' = c
    /\ UNCHANGED requests

\* A reset reloads RTC memory too; only a wake from deep sleep keeps it.
Reset ==
    /\ Boots("reset")
    /\ initialized' = FALSE /\ state' = "NORMAL_BOOT" /\ noSleep' = FALSE
-----------------------------------------------------------------------------
(* app_main.                                                               *)

BootStep(from, to) ==
    /\ power = "on" /\ bpc = from /\ bpc' = to
    /\ UNCHANGED <<chip, mode, loop, off, queue, hpc, app, bounds, kept, fired>>

\* power_mgmt_init.
BootInit ==
    /\ UNCHANGED <<up, tasks, clock, sleep, noSleep>>
    /\ \/ /\ initialized /\ state = "DEEP_SLEEP"
          /\ state' = "WAKEN" /\ UNCHANGED initialized
          /\ BootStep("init", "woken")
       \/ /\ initialized /\ state # "DEEP_SLEEP"
          /\ state' = "UNKNOWN" /\ UNCHANGED initialized
          /\ BootStep("init", "restart")
       \/ /\ ~initialized
          /\ state' = "NORMAL_BOOT" /\ initialized' = TRUE
          /\ BootStep("init", "standby")

\* power_mgmt_wake_up_handler: the button wakes the node, the timer does not.
BootWake ==
    /\ UNCHANGED <<up, tasks, clock, rtc>>
    /\ \/ /\ cause = "button"
          /\ BootStep("woken", "standby") /\ UNCHANGED sleep
       \/ /\ cause = "timer"
          /\ BootStep("woken", "sleep")
          /\ sleep' = [sleep EXCEPT !["main"] = "enter"]

Restart == power = "on" /\ bpc = "restart" /\ Reset

\* arm_power_save_timer and reset_power_save_timer: both restart a timer that
\* has expired (nothing of this runs before power_mgmt_on_enter_standby has
\* created it).
Rearm == running' = TRUE /\ timer' = 0

\* power_mgmt_on_enter_standby, called by three tasks.
EnterStandby ==
    /\ up' = Peripherals
    /\ Rearm
    /\ state' = "STANDBY"

BootStandby ==
    /\ BootStep("standby", "tasks")
    /\ EnterStandby
    /\ UNCHANGED <<initialized, noSleep, tasks, sleep>>

BootTasks ==
    /\ BootStep("tasks", "done")
    /\ tasks' = TRUE
    /\ UNCHANGED <<rtc, up, clock, sleep>>
-----------------------------------------------------------------------------
(* power_mgmt_on_enter_deep_sleep.                                         *)

SleepStep(s, from, to) ==
    /\ power = "on" /\ sleep[s] = from /\ sleep' = [sleep EXCEPT ![s] = to]
    /\ UNCHANGED <<cause, boot, mode, loop, off, queue, hpc, clock, app>>
    /\ UNCHANGED <<initialized, noSleep, bounds, kept, fired>>

\* The wake-up sources; one armed earlier stays armed.
SleepArm(s) ==
    /\ SleepStep(s, "enter", "armed")
    /\ timerWake' = (timerWake \/ Wakeup(s))
    /\ UNCHANGED <<state, power>>

SleepMark(s) ==
    /\ SleepStep(s, "armed", "marked")
    /\ state' = "DEEP_SLEEP"
    /\ UNCHANGED <<power, timerWake>>

SleepStart(s) ==
    /\ SleepStep(s, "marked", "done")
    /\ power' = "asleep"
    /\ UNCHANGED <<state, timerWake>>

Wake(c) ==
    /\ power = "asleep"
    /\ c = "button" \/ (c = "timer" /\ timerWake)
    /\ Boots(c)
    /\ UNCHANGED rtc
-----------------------------------------------------------------------------
(* What a user asks for, by the button or the REST server.                 *)

Running == power = "on" /\ bpc = "done"

Request ==
    /\ Running /\ requests < MaxRequests /\ requests' = requests + 1
    /\ UNCHANGED <<initialized, state, chip, boot, loop, queue, hpc, app, boots, fired>>

NoSleepKept == UNCHANGED <<noSleep, kept>>

\* sys_set_operation_mode: the flag, then the bit.
SetMode(c, b) ==
    /\ active' = b /\ setting' = setting \cup {c}
    /\ UNCHANGED bits

RaiseMode(c) ==
    /\ Running /\ c \in setting
    /\ setting' = setting \ {c} /\ bits' = bits \cup {"mode"}
    /\ UNCHANGED <<rtc, chip, boot, active, loop, off, queue, hpc, clock, app, sleep>>
    /\ UNCHANGED <<bounds, kept, fired>>

\* Every REST handler begins with reset_power_save_timer.
RestRequest ==
    /\ Request /\ "rest" \in up /\ "rest" \notin setting
    /\ Rearm
    /\ UNCHANGED sleep

ButtonFree == sleep["button"] = "no" /\ "button" \notin setting

\* A click toggles the mode; it does not touch the power-save timer.
Click ==
    /\ Request /\ ButtonFree
    /\ SetMode("button", ~active)
    /\ NoSleepKept /\ UNCHANGED <<off, clock, sleep>>

LongPress ==
    /\ Request /\ ButtonFree
    /\ sleep' = [sleep EXCEPT !["button"] = "enter"]
    /\ NoSleepKept /\ UNCHANGED <<mode, off, clock>>

\* /v1/system/mode
RestMode(b) == RestRequest /\ NoSleepKept /\ SetMode("rest", b) /\ UNCHANGED off

\* /v1/system/upgrade
RestUpgrade ==
    /\ RestRequest /\ NoSleepKept
    /\ bits' = bits \cup {"ota"}
    /\ UNCHANGED <<active, setting, off>>

\* /v1/system/power: a one-shot timer will do it in three seconds.
RestPower(what) ==
    /\ RestRequest /\ NoSleepKept
    /\ off' = off \cup {what}
    /\ UNCHANGED mode

KeepsAwake(st, ns) == st = "ACTIVE" \/ (st = "STANDBY" /\ ns)

\* /v1/imu/debug/toggle
RestDebug(on) ==
    /\ RestRequest
    /\ noSleep' = on
    /\ kept' = (kept /\ KeepsAwake(state, on))
    /\ UNCHANGED <<mode, off>>

\* The data client stops a recording it cannot send (network.c).
ClientGivesUp ==
    /\ Running /\ tasks /\ active /\ "client" \notin setting
    /\ SetMode("client", FALSE)
    /\ UNCHANGED <<rtc, chip, boot, loop, off, queue, hpc, clock, app, sleep>>
    /\ UNCHANGED <<bounds, kept, fired>>
-----------------------------------------------------------------------------
(* The timer daemon.                                                       *)

DaemonFree == Running /\ sleep["daemon"] = "no"
Expired == running /\ timer = Timeout

\* A period passes: power_mgmt_timer_cb posts its event.
Tick ==
    /\ DaemonFree /\ tasks
    /\ ~Expired /\ Cardinality(Posted("pm", queue)) < MaxLag
    /\ timer' = IF running THEN timer + 1 ELSE timer
    /\ queue' = IF state # "SAVE" THEN Append(queue, "pm") ELSE queue
    /\ UNCHANGED <<rtc, chip, boot, mode, loop, off, hpc, running, app>>
    /\ UNCHANGED <<sleep, bounds, kept, fired>>

\* power_mgmt_handle_transition starts app_power_save and goes to sleep itself.
Fire ==
    /\ DaemonFree /\ Expired
    /\ running' = FALSE /\ timer' = 0
    /\ apc' = "stop" /\ cycles' = 0
    /\ sleep' = [sleep EXCEPT !["daemon"] = "enter"]
    /\ fired' = TRUE /\ kept' = FALSE
    /\ UNCHANGED <<rtc, chip, boot, mode, loop, off, queue, hpc>>
    /\ UNCHANGED bounds

\* system_power_shutdown_cb, system_power_reboot_cb
Shutdown ==
    /\ DaemonFree /\ "shutdown" \in off
    /\ off' = off \ {"shutdown"}
    /\ sleep' = [sleep EXCEPT !["daemon"] = "enter"]
    /\ UNCHANGED <<rtc, chip, boot, mode, loop, queue, hpc, clock, app>>
    /\ UNCHANGED <<bounds, kept, fired>>

Reboot == DaemonFree /\ "reboot" \in off /\ Reset
-----------------------------------------------------------------------------
(* app_system_loop.                                                        *)

LoopStep ==
    /\ Running /\ tasks /\ "loop" \notin setting
    /\ UNCHANGED <<chip, boot, off, hpc, clock, app, sleep, bounds, fired>>

LoopTake ==
    /\ LoopStep /\ taken = {} /\ ~ota /\ bits # {}
    /\ taken' = bits /\ bits' = {}
    /\ UNCHANGED <<rtc, active, setting, ota, queue, kept>>

\* The event of an update is posted before the mode is changed.
LoopOta ==
    /\ LoopStep /\ "ota" \in taken
    /\ taken' = (taken \ {"ota"}) \cup {"stop"}
    /\ queue' = Append(queue, "ota")
    /\ UNCHANGED <<rtc, mode, ota, kept>>

\* The update is performed by the loop itself, which handles nothing meanwhile.
LoopStop ==
    /\ LoopStep /\ "stop" \in taken
    /\ taken' = taken \ {"stop"} /\ ota' = TRUE
    /\ SetMode("loop", FALSE)
    /\ UNCHANGED <<rtc, queue, kept>>

\* A slip: a mode change is not posted while another event waits.
LoopModeDropped ==
    /\ LoopStep /\ taken = {"mode"} /\ ~ota
    /\ taken' = {} /\ queue' = IF queue = <<>> THEN <<"mode">> ELSE queue
    /\ UNCHANGED <<rtc, mode, ota, kept>>

LoopMode ==
    /\ LoopStep /\ taken = {"mode"} /\ ~ota
    /\ taken' = {} /\ queue' = Append(queue, "mode")
    /\ UNCHANGED <<rtc, mode, ota, kept>>

\* sys_ota_perform
OtaFails ==
    /\ LoopStep /\ ota /\ ota' = FALSE
    /\ noSleep' = FALSE
    /\ kept' = (kept /\ KeepsAwake(state, FALSE))
    /\ UNCHANGED <<initialized, state, mode, taken, queue>>

OtaSucceeds == Running /\ tasks /\ ota /\ "loop" \notin setting /\ Reset
-----------------------------------------------------------------------------
(* The event loop task: sys_power_mgmt_handler.                            *)

HandlerStep(from, to) ==
    /\ Running /\ hpc = from /\ hpc' = to
    /\ UNCHANGED <<chip, bpc, tasks, mode, loop, off, app, sleep, bounds, fired>>

Handles(e, to) ==
    /\ queue # <<>> /\ Head(queue) = e /\ queue' = Tail(queue)
    /\ HandlerStep("idle", to)

\* Slips: the timer is re-armed in every state, or in standby only.
HandlePmAlways ==
    /\ Handles("pm", "idle")
    /\ Rearm
    /\ kept' = KeepsAwake(state, noSleep)
    /\ UNCHANGED <<rtc, up>>

HandlePmStandbyOnly ==
    /\ Handles("pm", "idle")
    /\ IF state = "STANDBY" /\ noSleep THEN Rearm ELSE UNCHANGED clock
    /\ kept' = KeepsAwake(state, noSleep)
    /\ UNCHANGED <<rtc, up>>

\* SYSTEM_POWER_MGMT_EVENT
HandlePm ==
    /\ Handles("pm", "idle")
    /\ IF KeepsAwake(state, noSleep) THEN Rearm ELSE UNCHANGED clock
    /\ kept' = KeepsAwake(state, noSleep)
    /\ UNCHANGED <<rtc, up>>

\* SYSTEM_MODE_CHANGE_EVENT: the test of active, then the change of state.
HandleMode ==
    /\ Handles("mode", IF active THEN "active" ELSE "standby")
    /\ UNCHANGED <<rtc, up, clock, kept>>

EnterActive ==
    /\ HandlerStep("active", "idle")
    /\ up' = up \ {"ble"}
    /\ state' = "ACTIVE" /\ noSleep' = TRUE
    /\ kept' = (kept /\ KeepsAwake(state, noSleep))
    /\ UNCHANGED <<initialized, queue, clock>>

LeaveActive ==
    /\ HandlerStep("standby", "idle")
    /\ EnterStandby
    /\ noSleep' = FALSE /\ kept' = FALSE
    /\ UNCHANGED <<initialized, queue>>

\* SYSTEM_OTA_EVENT
HandleOta ==
    /\ Handles("ota", "idle")
    /\ noSleep' = TRUE
    /\ UNCHANGED <<initialized, state, up, clock, kept>>
-----------------------------------------------------------------------------
(* app_power_save.                                                         *)

AppStep(from, to) ==
    /\ Running /\ apc = from /\ apc' = to
    /\ UNCHANGED <<cause, power, bpc, active, bits, off, queue, hpc>>
    /\ UNCHANGED <<initialized, noSleep, bounds, kept, fired>>

\* sys_stop_tasks deletes the system loop, with an update it may perform, and the
\* data client, wherever they are.
AppStopTasks ==
    /\ AppStep("stop", "off")
    /\ tasks' = FALSE /\ ota' = FALSE /\ taken' = {}
    /\ setting' = setting \ {"loop", "client"}
    /\ UNCHANGED <<state, up, clock, timerWake, cycles, sleep>>

\* power_mgmt_on_enter_power_save, which waits for the REST server to stop.
AppPowerSave ==
    /\ AppStep("off", "cycle") /\ "rest" \notin setting
    /\ up' = up \ {"ble", "wifi", "rest"}
    /\ state' = "SAVE"
    /\ UNCHANGED <<setting, tasks, loop, clock, timerWake, cycles, sleep>>

\* Ten seconds of light sleep: the sleep timer is armed and stays armed.
AppLightSleep ==
    /\ AppStep("cycle", "sense")
    /\ timerWake' = TRUE
    /\ UNCHANGED <<setting, state, up, tasks, loop, clock, cycles, sleep>>

AppStill ==
    /\ cycles' = cycles + 1
    /\ IF cycles + 1 > MaxCycles
       THEN AppStep("sense", "asleep") /\ sleep' = [sleep EXCEPT !["app"] = "enter"]
       ELSE AppStep("sense", "cycle") /\ UNCHANGED sleep
    /\ UNCHANGED <<setting, state, up, tasks, loop, clock, timerWake>>

AppMotion ==
    /\ AppStep("sense", "standby")
    /\ UNCHANGED <<setting, state, up, tasks, loop, clock, timerWake, cycles, sleep>>

\* A slip: the tasks are started before the radio is back.
AppStandbyLate ==
    /\ AppStep("standby", "start")
    /\ Rearm /\ state' = "STANDBY"
    /\ UNCHANGED <<setting, up, tasks, loop, timerWake, cycles, sleep>>

AppStandby ==
    /\ AppStep("standby", "start")
    /\ EnterStandby
    /\ UNCHANGED <<setting, tasks, loop, timerWake, cycles, sleep>>

AppStartTasks ==
    /\ AppStep("start", "none")
    /\ tasks' = TRUE
    /\ UNCHANGED <<setting, state, up, loop, clock, timerWake, cycles, sleep>>
-----------------------------------------------------------------------------
Boot == BootInit \/ BootWake \/ BootStandby \/ BootTasks
FallAsleep(s) == SleepArm(s) \/ SleepMark(s) \/ SleepStart(s)
User ==
    \/ Click \/ LongPress \/ RestUpgrade
    \/ \E b \in BOOLEAN : RestMode(b) \/ RestDebug(b)
    \/ \E what \in {"reboot", "shutdown"} : RestPower(what)
Daemon == Tick \/ Fire \/ Shutdown
Loop == LoopTake \/ LoopOta \/ LoopStop \/ LoopMode
Handle == HandlePm \/ HandleMode \/ EnterActive \/ LeaveActive \/ HandleOta
App == \/ AppStopTasks \/ AppPowerSave \/ AppLightSleep \/ AppStill
       \/ AppMotion \/ AppStandby \/ AppStartTasks

Next ==
    \/ Boot \/ Restart \/ User \/ ClientGivesUp \/ Daemon \/ Reboot
    \/ Loop \/ OtaFails \/ OtaSucceeds \/ Handle \/ App
    \/ \E s \in Sleepers : FallAsleep(s)
    \/ \E c \in Setters : RaiseMode(c)
    \/ \E c \in {"button", "timer"} : Wake(c)

Spec == Init /\ [][Next]_vars

\* Time passes and the tasks that are ready run; nothing is assumed of the
\* user, of an update, of the data client or of the motion of the node.
Fairness ==
    /\ WF_vars(Boot) /\ WF_vars(Daemon) /\ WF_vars(Loop) /\ WF_vars(Handle)
    /\ \A s \in Sleepers : WF_vars(FallAsleep(s))
    /\ \A c \in Setters : WF_vars(RaiseMode(c))

FairSpec == Spec /\ Fairness
-----------------------------------------------------------------------------
(* Every variable keeps its type; the counters keep their bounds.          *)
TypeOK ==
    /\ initialized \in BOOLEAN /\ state \in States /\ noSleep \in BOOLEAN
    /\ power \in {"on", "asleep"} /\ cause \in {"reset", "button", "timer"}
    /\ timerWake \in BOOLEAN
    /\ bpc \in {"init", "woken", "restart", "sleep", "standby", "tasks", "done"}
    /\ up \in SUBSET Peripherals /\ tasks \in BOOLEAN
    /\ active \in BOOLEAN /\ bits \in SUBSET {"mode", "ota"} /\ setting \in SUBSET Setters
    /\ taken \in SUBSET {"mode", "ota", "stop"} /\ ota \in BOOLEAN
    /\ off \in SUBSET {"reboot", "shutdown"}
    /\ queue \in Seq(Events) /\ Cardinality(Posted("pm", queue)) <= MaxLag
    /\ hpc \in {"idle", "active", "standby"}
    /\ running \in BOOLEAN /\ timer \in 0 .. Timeout
    /\ apc \in {"none", "stop", "off", "cycle", "sense", "asleep", "standby", "start"}
    /\ cycles \in 0 .. MaxCycles + 1
    /\ sleep \in [Sleepers -> {"no", "enter", "armed", "marked", "done"}]
    /\ boots \in Nat /\ requests \in Nat
    /\ kept \in BOOLEAN /\ fired \in BOOLEAN

(* Once the handler has seen a node active (or under an update) and as     *)
(* long as it stays so, the power-save timer does not expire, although     *)
(* the events that re-arm it come late.                                    *)
KeptAwake == kept => ~Expired

ModeHandled ==
    /\ setting = {} /\ "mode" \notin bits /\ "mode" \notin taken /\ hpc = "idle"
    /\ Posted("mode", queue) = {}

(* When every change of mode has been handled, the power state agrees with *)
(* state.active, as long as the power-save timer has not expired.          *)
StateFollowsMode ==
    Running /\ ~fired /\ ModeHandled /\ state # "DEEP_SLEEP" =>
      state = (IF active THEN "ACTIVE" ELSE "STANDBY")

(* While the data and system tasks run, the radio and the REST server are  *)
(* up: power save takes them away only after stopping the tasks, and gives *)
(* them back before starting them.                                         *)
TasksHaveRadio == tasks => {"wifi", "rest"} \subseteq up

(* A node in standby that nothing keeps awake falls asleep, or motion has  *)
(* brought it back to standby, unless before the timer expires it is used  *)
(* again, kept awake or restarted: the one-shot timer is always armed      *)
(* again, and no event that is late re-arms it for ever.                   *)
Idle == Running /\ state = "STANDBY" /\ ~noSleep /\ ~active /\ ~ota /\ ~fired
Spared == ~fired /\ (active \/ ota \/ noSleep \/ bpc # "done")
BackInStandby == fired /\ apc = "none"
IdleNodeSleeps == Idle ~> (power = "asleep" \/ BackInStandby \/ Spared)
=============================================================================
