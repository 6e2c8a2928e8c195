-------------------------- MODULE PowerMgmtProofs --------------------------
(***************************************************************************)
(* Proofs about PowerMgmt, for every timeout, every lag of the event loop  *)
(* below it, and every bound on boots and requests.  KeptAwake rests on a  *)
(* count: since the timer was last re-armed it has run for no more periods *)
(* than there are POWER_MGMT events still in the queue.                    *)
(***************************************************************************)
EXTENDS PowerMgmt, QueueProofs

-----------------------------------------------------------------------------
(* The type invariant, part by part.                                       *)

FlagsType ==
    /\ initialized \in BOOLEAN /\ noSleep \in BOOLEAN /\ timerWake \in BOOLEAN
    /\ tasks \in BOOLEAN /\ active \in BOOLEAN /\ ota \in BOOLEAN
    /\ running \in BOOLEAN /\ kept \in BOOLEAN /\ fired \in BOOLEAN

SetsType ==
    /\ up \in SUBSET Peripherals /\ bits \in SUBSET {"mode", "ota"}
    /\ setting \in SUBSET Setters
    /\ taken \in SUBSET {"mode", "ota", "stop"} /\ off \in SUBSET {"reboot", "shutdown"}

PlacesType ==
    /\ state \in States /\ power \in {"on", "asleep"}
    /\ cause \in {"reset", "button", "timer"}
    /\ bpc \in {"init", "woken", "restart", "sleep", "standby", "tasks", "done"}
    /\ hpc \in {"idle", "active", "standby"}
    /\ apc \in {"none", "stop", "off", "cycle", "sense", "asleep", "standby", "start"}
    /\ sleep \in [Sleepers -> {"no", "enter", "armed", "marked", "done"}]

CountersType ==
    /\ timer \in 0 .. Timeout /\ cycles \in 0 .. MaxCycles + 1
    /\ apc \in {"stop", "off", "cycle", "sense"} => cycles <= MaxCycles
    /\ boots \in Nat /\ requests \in Nat

QueueType == queue \in Seq(Events) /\ Cardinality(Posted("pm", queue)) <= MaxLag

(* Only the three events that app_system_loop and its timer post are       *)
(* queued, and no more POWER_MGMT events than the lag allows.              *)
LEMMA QueueTyped == Spec => []QueueType
<1> USE DEF QueueType
<1>1. Init => QueueType
  <2>1. Posted("pm", <<>>) = {}
      BY DEF Posted
  <2> QED BY <2>1, FS_EmptySet, TimingAssumption DEF Init
<1>2. QueueType /\ [Next]_vars => QueueType'
  <2> SUFFICES ASSUME QueueType, [Next]_vars PROVE QueueType'
      OBVIOUS
  <2> DEFINE count == Cardinality(Posted("pm", queue))
  <2>1. count \in Nat /\ MaxLag \in Nat
      BY PostedFinite, TimingAssumption
  <2>2. CASE queue' = queue
      BY <2>2
  <2>3. CASE queue' = <<>>
    <3>1. Posted("pm", <<>>) = {}
        BY DEF Posted
    <3>2. Cardinality({}) = 0
        BY FS_EmptySet
    <3>3. Cardinality(Posted("pm", <<>>)) = 0
        BY Zenon, <3>1, <3>2
    <3>4. 0 <= MaxLag
        BY <2>1
    <3> QED BY <2>3, <3>3, <3>4
  <2>4. CASE Tick
    <3>1. /\ count < MaxLag
          /\ queue' = Append(queue, "pm") \/ queue' = queue
        BY <2>4 DEF Tick
    <3>2. "pm" \in Events
        BY DEF Events
    <3>3. CASE queue' = Append(queue, "pm")
      <4>1. Cardinality(Posted("pm", queue')) = count + 1
          BY <3>2, <3>3, CountAppend
      <4> QED BY <2>1, <3>1, <3>2, <3>3, <4>1
    <3> QED BY <2>2, <3>1, <3>3
  <2>5. CASE LoopOta \/ LoopMode
    <3>1. PICK e \in Events : e # "pm" /\ queue' = Append(queue, e)
        BY <2>5 DEF LoopOta, LoopMode, Events
    <3>2. Cardinality(Posted("pm", queue')) = count
        BY <2>1, <3>1, CountAppend
    <3> QED BY <3>1, <3>2
  <2>6. CASE HandlePm \/ HandleMode \/ HandleOta
    <3>1. queue # <<>> /\ queue' = Tail(queue)
        BY <2>6 DEF HandlePm, HandleMode, HandleOta, Handles
    <3>2. Cardinality(Posted("pm", queue')) <= count
        BY <2>1, <3>1, CountTail
    <3>3. queue' \in Seq(Events)
        BY <3>1
    <3>4. Cardinality(Posted("pm", queue')) \in Nat
        BY <3>3, PostedFinite
    <3> QED BY <2>1, <3>2, <3>3, <3>4
  <2>7. CASE Restart \/ Reboot \/ OtaSucceeds \/ \E c \in {"button", "timer"} : Wake(c)
    <3>1. queue' = <<>>
        BY <2>7 DEF Restart, Reboot, OtaSucceeds, Wake, Reset, Boots, RamLost
    <3> QED BY <2>3, <3>1
  <2>8. CASE Boot
      BY <2>2, <2>8 DEF Boot, BootInit, BootWake, BootStandby, BootTasks, BootStep
  <2>9. CASE User \/ ClientGivesUp \/ LoopStop \/ \E c \in Setters : RaiseMode(c)
      BY <2>2, <2>9
      DEF LoopStop, RaiseMode, User, Click, LongPress, RestUpgrade, RestMode, RestDebug, RestPower,
          RestRequest, Request, ClientGivesUp
  <2>10. CASE Fire \/ Shutdown \/ LoopTake \/ OtaFails \/ EnterActive \/ LeaveActive
      BY <2>2, <2>10
      DEF Fire, Shutdown, LoopTake, OtaFails, EnterActive, LeaveActive
  <2>11. CASE App
      BY <2>2, <2>11
      DEF App, AppStopTasks, AppPowerSave, AppLightSleep, AppStill, AppMotion,
          AppStandby, AppStartTasks, AppStep
  <2>12. ASSUME NEW s \in Sleepers, FallAsleep(s) PROVE QueueType'
      BY <2>2, <2>12 DEF FallAsleep, SleepArm, SleepMark, SleepStart, SleepStep
  <2>13. CASE UNCHANGED vars
      BY <2>2, <2>13 DEF vars
  <2> QED
      BY <2>4, <2>5, <2>6, <2>7, <2>8, <2>9, <2>10, <2>11, <2>12, <2>13
      DEF Next, Daemon, Loop, Handle
<1> QED BY <1>1, <1>2, PTL DEF Spec

(* The flags are Boolean.                                                  *)
LEMMA FlagsTyped == Spec => []FlagsType
<1> USE DEF FlagsType
<1>1. Init => FlagsType
    BY Zenon DEF Init
<1>2. FlagsType /\ [Next]_vars => FlagsType'
  <2> SUFFICES ASSUME FlagsType, [Next]_vars PROVE FlagsType'
      OBVIOUS
  <2> USE DEF rtc, chip, boot, mode, loop, clock, app, bounds, Rearm, NoSleepKept
  <2>1. CASE Restart \/ Reboot \/ OtaSucceeds
      BY <2>1
      DEF Restart, Reboot, OtaSucceeds, Reset, Boots, RamLost
  <2>2. ASSUME NEW c \in {"button", "timer"}, Wake(c) PROVE FlagsType'
      BY <2>2
      DEF Wake, Boots, RamLost
  <2>3. CASE Boot
    <3>1. UNCHANGED <<noSleep, timerWake, active, ota, kept, fired>>
        BY <2>3
        DEF Boot, BootInit, BootWake, BootStandby, BootTasks, BootStep,
            EnterStandby
    <3>2. initialized' \in BOOLEAN /\ running' \in BOOLEAN
          /\ tasks' \in BOOLEAN
        BY Zenon, <2>3
        DEF Boot, BootInit, BootWake, BootStandby, BootTasks, BootStep,
            EnterStandby
    <3> QED BY Zenon, <3>1, <3>2
  <2>4. CASE Click \/ LongPress
    <3>1. UNCHANGED <<initialized, noSleep, timerWake, tasks, ota, running, kept, fired>>
      BY <2>4
      DEF Click, LongPress, ButtonFree, Request, SetMode
    <3>2. active' \in BOOLEAN
      BY Zenon, <2>4
      DEF Click, LongPress, ButtonFree, Request, SetMode
    <3> QED BY Zenon, <3>1, <3>2
  <2>5. CASE RestUpgrade \/ ClientGivesUp
    <3>1. UNCHANGED <<initialized, noSleep, timerWake, tasks, ota, kept, fired>>
        BY <2>5
        DEF RestUpgrade, RestRequest, Request, ClientGivesUp, SetMode
    <3>2. active' \in BOOLEAN
          /\ running' \in BOOLEAN
        BY Zenon, <2>5
        DEF RestUpgrade, RestRequest, Request, ClientGivesUp, SetMode
    <3> QED BY Zenon, <3>1, <3>2
  <2>6. ASSUME NEW b \in BOOLEAN, RestMode(b) PROVE FlagsType'
      BY <2>6
      DEF RestMode, RestRequest, Request, SetMode
  <2>7. ASSUME NEW what \in {"reboot", "shutdown"}, RestPower(what) PROVE FlagsType'
      BY <2>7
      DEF RestPower, RestRequest, Request
  <2>8. CASE Daemon
    <3>1. UNCHANGED <<initialized, noSleep, timerWake, tasks, active, ota>>
        BY <2>8
        DEF Daemon, Tick, Fire, Shutdown, Expired
    <3>2. running' \in BOOLEAN
          /\ kept' \in BOOLEAN /\ fired' \in BOOLEAN
        BY Zenon, <2>8
        DEF Daemon, Tick, Fire, Shutdown, Expired
    <3> QED BY Zenon, <3>1, <3>2
  <2>9. CASE Loop \/ OtaFails
    <3>1. UNCHANGED <<initialized, timerWake, tasks, running, fired>>
        BY <2>9
        DEF Loop, LoopTake, LoopOta, LoopStop, LoopMode, OtaFails, LoopStep,
            SetMode, KeepsAwake
    <3>2. active' \in BOOLEAN /\ ota' \in BOOLEAN /\ noSleep' \in BOOLEAN
          /\ kept' \in BOOLEAN
        BY Zenon, <2>9
        DEF Loop, LoopTake, LoopOta, LoopStop, LoopMode, OtaFails, LoopStep,
            SetMode, KeepsAwake
    <3> QED BY Zenon, <3>1, <3>2
  <2>10. CASE Handle
    <3>1. UNCHANGED <<initialized, timerWake, tasks, active, ota, fired>>
        BY <2>10
        DEF Handle, HandlePm, HandleMode, EnterActive, LeaveActive,
            HandleOta, Handles, HandlerStep, EnterStandby, KeepsAwake
    <3>2. running' \in BOOLEAN /\ noSleep' \in BOOLEAN
          /\ kept' \in BOOLEAN
        BY Zenon, <2>10
        DEF Handle, HandlePm, HandleMode, EnterActive, LeaveActive,
            HandleOta, Handles, HandlerStep, EnterStandby, KeepsAwake
    <3> QED BY Zenon, <3>1, <3>2
  <2>11. CASE App
    <3>1. UNCHANGED <<initialized, noSleep, active, kept, fired>>
        BY <2>11
        DEF App, AppStopTasks, AppPowerSave, AppLightSleep, AppStill,
            AppMotion, AppStandby, AppStartTasks, AppStep, EnterStandby
    <3>2. tasks' \in BOOLEAN /\ ota' \in BOOLEAN /\ timerWake' \in BOOLEAN
          /\ running' \in BOOLEAN
        BY Zenon, <2>11
        DEF App, AppStopTasks, AppPowerSave, AppLightSleep, AppStill,
            AppMotion, AppStandby, AppStartTasks, AppStep, EnterStandby
    <3> QED BY Zenon, <3>1, <3>2
  <2>12. ASSUME NEW s \in Sleepers, FallAsleep(s) PROVE FlagsType'
    <3>1. UNCHANGED <<initialized, noSleep, tasks, active, ota, running, kept, fired>>
        BY <2>12
        DEF FallAsleep, SleepArm, SleepMark, SleepStart, SleepStep, Wakeup
    <3>2. timerWake' \in BOOLEAN
        BY Zenon, <2>12
        DEF FallAsleep, SleepArm, SleepMark, SleepStart, SleepStep, Wakeup
    <3> QED BY Zenon, <3>1, <3>2
  <2>13. CASE UNCHANGED vars
      BY <2>13
      DEF vars
  <2>14. ASSUME NEW b \in BOOLEAN, RestDebug(b) PROVE FlagsType'
    <3>1. UNCHANGED <<initialized, timerWake, tasks, active, ota, fired>>
        BY <2>14 DEF RestDebug, RestRequest, Request
    <3>2. noSleep' \in BOOLEAN /\ running' \in BOOLEAN
          /\ kept' \in BOOLEAN
        BY Zenon, <2>14 DEF RestDebug, RestRequest
    <3> QED BY Zenon, <3>1, <3>2
  <2>15. ASSUME NEW c \in Setters, RaiseMode(c) PROVE FlagsType'
      BY <2>15
      DEF RaiseMode
  <2> QED
      BY <2>1, <2>2, <2>3, <2>4, <2>5, <2>6, <2>7, <2>8, <2>9, <2>10, <2>11, <2>12, <2>13,
         <2>14, <2>15
      DEF Next, User
<1> QED BY <1>1, <1>2, PTL DEF Spec

(* The event group, the peripherals and the power timers hold only theirs. *)
LEMMA SetsTyped == Spec => []SetsType
<1> USE DEF SetsType, Peripherals, Setters
<1>1. Init => SetsType
    BY DEF Init
<1>2. SetsType /\ [Next]_vars => SetsType'
  <2> SUFFICES ASSUME SetsType, [Next]_vars PROVE SetsType'
      OBVIOUS
  <2> USE DEF rtc, chip, boot, mode, loop, clock, app, bounds, Rearm, NoSleepKept
  <2>1. CASE Restart \/ Reboot \/ OtaSucceeds
      BY <2>1
      DEF Restart, Reboot, OtaSucceeds, Reset, Boots, RamLost
  <2>2. ASSUME NEW c \in {"button", "timer"}, Wake(c) PROVE SetsType'
      BY <2>2
      DEF Wake, Boots, RamLost
  <2>3. CASE Boot
      BY <2>3
      DEF Boot, BootInit, BootWake, BootStandby, BootTasks, BootStep,
          EnterStandby
  <2>4. CASE Click \/ LongPress
      BY <2>4
      DEF Click, LongPress, ButtonFree, Request, SetMode
  <2>5. CASE RestUpgrade \/ ClientGivesUp
      BY <2>5
      DEF RestUpgrade, RestRequest, Request, ClientGivesUp, SetMode
  <2>6. ASSUME NEW b \in BOOLEAN, RestMode(b) PROVE SetsType'
      BY <2>6
      DEF RestMode, RestRequest, Request, SetMode
  <2>7. ASSUME NEW what \in {"reboot", "shutdown"}, RestPower(what) PROVE SetsType'
      BY <2>7
      DEF RestPower, RestRequest, Request
  <2>8. CASE Daemon
      BY <2>8
      DEF Daemon, Tick, Fire, Shutdown, Expired
  <2>9. CASE Loop \/ OtaFails
      BY <2>9
      DEF Loop, LoopTake, LoopOta, LoopStop, LoopMode, OtaFails, LoopStep,
          SetMode, KeepsAwake
  <2>10. CASE Handle
      BY <2>10
      DEF Handle, HandlePm, HandleMode, EnterActive, LeaveActive,
          HandleOta, Handles, HandlerStep, EnterStandby, KeepsAwake
  <2>11. CASE App
      BY <2>11
      DEF App, AppStopTasks, AppPowerSave, AppLightSleep, AppStill,
          AppMotion, AppStandby, AppStartTasks, AppStep, EnterStandby
  <2>12. ASSUME NEW s \in Sleepers, FallAsleep(s) PROVE SetsType'
      BY <2>12
      DEF FallAsleep, SleepArm, SleepMark, SleepStart, SleepStep, Wakeup
  <2>13. CASE UNCHANGED vars
      BY <2>13
      DEF vars
  <2>14. ASSUME NEW b \in BOOLEAN, RestDebug(b) PROVE SetsType'
      BY <2>14
      DEF RestDebug, RestRequest, Request
  <2>15. ASSUME NEW c \in Setters, RaiseMode(c) PROVE SetsType'
      BY <2>15
      DEF RaiseMode
  <2> QED
      BY <2>1, <2>2, <2>3, <2>4, <2>5, <2>6, <2>7, <2>8, <2>9, <2>10, <2>11, <2>12, <2>13,
         <2>14, <2>15
      DEF Next, User
<1> QED BY <1>1, <1>2, PTL DEF Spec

(* Every task is at a place of its code, and the power state is one of the *)
(* seven.                                                                  *)
LEMMA PlacesTyped == Spec => []PlacesType
<1> USE DEF PlacesType, States, Sleepers
<1>1. Init => PlacesType
    BY DEF Init
<1>2. PlacesType /\ [Next]_vars => PlacesType'
  <2> SUFFICES ASSUME PlacesType, [Next]_vars PROVE PlacesType'
      OBVIOUS
  <2> USE DEF rtc, chip, boot, mode, loop, clock, app, bounds, Rearm, NoSleepKept
  <2>1. CASE Restart \/ Reboot \/ OtaSucceeds
      BY <2>1
      DEF Restart, Reboot, OtaSucceeds, Reset, Boots, RamLost
  <2>2. ASSUME NEW c \in {"button", "timer"}, Wake(c) PROVE PlacesType'
      BY <2>2
      DEF Wake, Boots, RamLost
  <2>3. CASE Boot
      BY <2>3
      DEF Boot, BootInit, BootWake, BootStandby, BootTasks, BootStep,
          EnterStandby
  <2>4. CASE Click \/ LongPress
      BY <2>4
      DEF Click, LongPress, ButtonFree, Request, SetMode
  <2>5. CASE RestUpgrade \/ ClientGivesUp
      BY <2>5
      DEF RestUpgrade, RestRequest, Request, ClientGivesUp, SetMode
  <2>6. ASSUME NEW b \in BOOLEAN, RestMode(b) PROVE PlacesType'
      BY <2>6
      DEF RestMode, RestRequest, Request, SetMode
  <2>7. ASSUME NEW what \in {"reboot", "shutdown"}, RestPower(what) PROVE PlacesType'
      BY <2>7
      DEF RestPower, RestRequest, Request
  <2>8. CASE Daemon
      BY <2>8
      DEF Daemon, Tick, Fire, Shutdown, Expired
  <2>9. CASE Loop \/ OtaFails
      BY <2>9
      DEF Loop, LoopTake, LoopOta, LoopStop, LoopMode, OtaFails, LoopStep,
          SetMode, KeepsAwake
  <2>10. CASE Handle
      BY <2>10
      DEF Handle, HandlePm, HandleMode, EnterActive, LeaveActive,
          HandleOta, Handles, HandlerStep, EnterStandby, KeepsAwake
  <2>11. CASE App
      BY <2>11
      DEF App, AppStopTasks, AppPowerSave, AppLightSleep, AppStill,
          AppMotion, AppStandby, AppStartTasks, AppStep, EnterStandby
  <2>12. ASSUME NEW s \in Sleepers, FallAsleep(s) PROVE PlacesType'
      BY <2>12
      DEF FallAsleep, SleepArm, SleepMark, SleepStart, SleepStep, Wakeup
  <2>13. CASE UNCHANGED vars
      BY <2>13
      DEF vars
  <2>14. ASSUME NEW b \in BOOLEAN, RestDebug(b) PROVE PlacesType'
      BY <2>14
      DEF RestDebug, RestRequest, Request
  <2>15. ASSUME NEW c \in Setters, RaiseMode(c) PROVE PlacesType'
      BY <2>15
      DEF RaiseMode
  <2> QED
      BY <2>1, <2>2, <2>3, <2>4, <2>5, <2>6, <2>7, <2>8, <2>9, <2>10, <2>11, <2>12, <2>13,
         <2>14, <2>15
      DEF Next, User
<1> QED BY <1>1, <1>2, PTL DEF Spec

(* The timer does not pass its timeout nor power save its cycles.          *)
LEMMA CountersTyped == Spec => []CountersType
<1> USE DEF CountersType
<1>1. Init => CountersType
    BY TimingAssumption DEF Init
<1>2. CountersType /\ [Next]_vars => CountersType'
  <2> SUFFICES ASSUME CountersType, [Next]_vars PROVE CountersType'
      OBVIOUS
  <2> USE DEF rtc, chip, boot, mode, loop, clock, app, bounds, Rearm, NoSleepKept
  <2>1. CASE Restart \/ Reboot \/ OtaSucceeds
      BY TimingAssumption, <2>1
      DEF Restart, Reboot, OtaSucceeds, Reset, Boots, RamLost
  <2>2. ASSUME NEW c \in {"button", "timer"}, Wake(c) PROVE CountersType'
      BY TimingAssumption, <2>2
      DEF Wake, Boots, RamLost
  <2>3. CASE Boot
      BY TimingAssumption, <2>3
      DEF Boot, BootInit, BootWake, BootStandby, BootTasks, BootStep,
          EnterStandby
  <2>4. CASE Click \/ LongPress
      BY TimingAssumption, <2>4
      DEF Click, LongPress, ButtonFree, Request, SetMode
  <2>5. CASE RestUpgrade \/ ClientGivesUp
      BY TimingAssumption, <2>5
      DEF RestUpgrade, RestRequest, Request, ClientGivesUp, SetMode
  <2>6. ASSUME NEW b \in BOOLEAN, RestMode(b) PROVE CountersType'
      BY TimingAssumption, <2>6
      DEF RestMode, RestRequest, Request, SetMode
  <2>7. ASSUME NEW what \in {"reboot", "shutdown"}, RestPower(what) PROVE CountersType'
      BY TimingAssumption, <2>7
      DEF RestPower, RestRequest, Request
  <2>8. CASE Daemon
      BY TimingAssumption, <2>8
      DEF Daemon, Tick, Fire, Shutdown, Expired
  <2>9. CASE Loop \/ OtaFails
      BY TimingAssumption, <2>9
      DEF Loop, LoopTake, LoopOta, LoopStop, LoopMode, OtaFails, LoopStep,
          SetMode, KeepsAwake
  <2>10. CASE Handle
      BY TimingAssumption, <2>10
      DEF Handle, HandlePm, HandleMode, EnterActive, LeaveActive,
          HandleOta, Handles, HandlerStep, EnterStandby, KeepsAwake
  <2>11. CASE App
      BY TimingAssumption, <2>11
      DEF App, AppStopTasks, AppPowerSave, AppLightSleep, AppStill,
          AppMotion, AppStandby, AppStartTasks, AppStep, EnterStandby
  <2>12. ASSUME NEW s \in Sleepers, FallAsleep(s) PROVE CountersType'
      BY TimingAssumption, <2>12
      DEF FallAsleep, SleepArm, SleepMark, SleepStart, SleepStep, Wakeup
  <2>13. CASE UNCHANGED vars
      BY TimingAssumption, <2>13
      DEF vars
  <2>14. ASSUME NEW b \in BOOLEAN, RestDebug(b) PROVE CountersType'
      BY TimingAssumption, <2>14
      DEF RestDebug, RestRequest, Request
  <2>15. ASSUME NEW c \in Setters, RaiseMode(c) PROVE CountersType'
      BY TimingAssumption, <2>15
      DEF RaiseMode
  <2> QED
      BY <2>1, <2>2, <2>3, <2>4, <2>5, <2>6, <2>7, <2>8, <2>9, <2>10, <2>11, <2>12, <2>13,
         <2>14, <2>15
      DEF Next, User
<1> QED BY <1>1, <1>2, PTL DEF Spec

(* The type invariant of power_mgmt.c's state holds in every behaviour.    *)
THEOREM TypeCorrect == Spec => []TypeOK
    BY FlagsTyped, SetsTyped, PlacesTyped, CountersTyped, QueueTyped, PTL
    DEF TypeOK, FlagsType, SetsType, PlacesType, CountersType, QueueType
-----------------------------------------------------------------------------
(* TasksHaveRadio.  app_power_save takes the radio away only while the     *)
(* tasks are stopped, and has it back before it starts them.               *)

HasRadio == {"wifi", "rest"} \subseteq up

RadioInv ==
    /\ tasks \/ apc = "start" \/ bpc = "tasks" => HasRadio
    /\ apc \in {"off", "cycle", "sense", "asleep", "standby", "start"} => ~tasks
    /\ bpc # "done" => apc = "none"

(* The stopped tasks of power save, with the places between which they are *)
(* stopped, are inductive.                                                 *)
LEMMA RadioInvariant == Spec => []RadioInv
<1> USE DEF RadioInv, HasRadio, Peripherals
<1>1. Init => RadioInv
    BY DEF Init
<1>2. RadioInv /\ FlagsType /\ [Next]_vars => RadioInv'
  <2> SUFFICES ASSUME RadioInv, FlagsType, [Next]_vars PROVE RadioInv'
      OBVIOUS
  <2> USE DEF rtc, chip, boot, mode, loop, clock, app, bounds, Rearm, NoSleepKept
  <2>1. CASE Restart \/ Reboot \/ OtaSucceeds
      BY <2>1
      DEF Restart, Reboot, OtaSucceeds, Reset, Boots, RamLost
  <2>2. ASSUME NEW c \in {"button", "timer"}, Wake(c) PROVE RadioInv'
      BY <2>2
      DEF Wake, Boots, RamLost
  <2>3. CASE Boot
      BY <2>3
      DEF Boot, BootInit, BootWake, BootStandby, BootTasks, BootStep,
          EnterStandby
  <2>4. CASE Click \/ LongPress
      BY <2>4
      DEF Click, LongPress, ButtonFree, Request, SetMode
  <2>5. CASE RestUpgrade \/ ClientGivesUp
      BY <2>5
      DEF RestUpgrade, RestRequest, Request, ClientGivesUp, SetMode
  <2>6. ASSUME NEW b \in BOOLEAN, RestMode(b) PROVE RadioInv'
      BY <2>6
      DEF RestMode, RestRequest, Request, SetMode
  <2>7. ASSUME NEW what \in {"reboot", "shutdown"}, RestPower(what) PROVE RadioInv'
      BY <2>7
      DEF RestPower, RestRequest, Request
  <2>8. CASE Daemon
      BY <2>8
      DEF Daemon, Tick, Fire, Shutdown, Expired, DaemonFree, Running
  <2>9. CASE Loop \/ OtaFails
      BY <2>9
      DEF Loop, LoopTake, LoopOta, LoopStop, LoopMode, OtaFails, LoopStep,
          SetMode, KeepsAwake, Running
  <2>10. CASE Handle
      BY <2>10
      DEF Handle, HandlePm, HandleMode, EnterActive, LeaveActive,
          HandleOta, Handles, HandlerStep, EnterStandby, KeepsAwake,
          Running
  <2>11. CASE App
      BY <2>11
      DEF App, AppStopTasks, AppPowerSave, AppLightSleep, AppStill,
          AppMotion, AppStandby, AppStartTasks, AppStep, EnterStandby,
          Running
  <2>12. ASSUME NEW s \in Sleepers, FallAsleep(s) PROVE RadioInv'
      BY <2>12
      DEF FallAsleep, SleepArm, SleepMark, SleepStart, SleepStep, Wakeup
  <2>13. CASE UNCHANGED vars
      BY <2>13
      DEF vars
  <2>14. ASSUME NEW b \in BOOLEAN, RestDebug(b) PROVE RadioInv'
      BY <2>14
      DEF RestDebug, RestRequest, Request
  <2>15. ASSUME NEW c \in Setters, RaiseMode(c) PROVE RadioInv'
      BY <2>15
      DEF RaiseMode, Running
  <2> QED
      BY <2>1, <2>2, <2>3, <2>4, <2>5, <2>6, <2>7, <2>8, <2>9, <2>10, <2>11, <2>12, <2>13,
         <2>14, <2>15
      DEF Next, User
<1> QED BY <1>1, <1>2, FlagsTyped, PTL DEF Spec

(* app_power_save never lets the tasks run without Wi-Fi and REST server.  *)
THEOREM RadioWithTasks == Spec => []TasksHaveRadio
<1>1. RadioInv => TasksHaveRadio
    BY DEF RadioInv, TasksHaveRadio, HasRadio
<1> QED BY <1>1, RadioInvariant, PTL
-----------------------------------------------------------------------------
(* KeptAwake.                                                              *)

DaemonInv ==
    /\ apc # "none" => sleep["daemon"] # "no"
    /\ state = "SAVE" /\ bpc # "init" => sleep["daemon"] # "no"

(* The daemon that started app_power_save never runs a timer again.        *)
LEMMA DaemonInvariant == Spec => []DaemonInv
<1> USE DEF DaemonInv, Sleepers, States, DaemonFree
<1>1. Init => DaemonInv
    BY DEF Init
<1>2. DaemonInv /\ PlacesType /\ [Next]_vars => DaemonInv'
  <2> SUFFICES ASSUME DaemonInv, PlacesType, [Next]_vars PROVE DaemonInv'
      OBVIOUS
  <2>0. \A s \in Sleepers : \A v :
          [sleep EXCEPT ![s] = v]["daemon"] = IF s = "daemon" THEN v ELSE sleep["daemon"]
      BY DEF PlacesType
  <2> USE DEF rtc, chip, boot, mode, loop, clock, app, bounds, Rearm, NoSleepKept
  <2>1. CASE Restart \/ Reboot \/ OtaSucceeds
      BY <2>1
      DEF Restart, Reboot, OtaSucceeds, Reset, Boots, RamLost
  <2>2. ASSUME NEW c \in {"button", "timer"}, Wake(c) PROVE DaemonInv'
      BY <2>2
      DEF Wake, Boots, RamLost
  <2>3. CASE Boot
      BY <2>0, <2>3
      DEF Boot, BootInit, BootWake, BootStandby, BootTasks, BootStep,
          EnterStandby
  <2>4. CASE Click \/ LongPress
      BY <2>0, <2>4
      DEF Click, LongPress, ButtonFree, Request, SetMode
  <2>5. CASE RestUpgrade \/ ClientGivesUp
      BY <2>5
      DEF RestUpgrade, RestRequest, Request, ClientGivesUp, SetMode
  <2>6. ASSUME NEW b \in BOOLEAN, RestMode(b) PROVE DaemonInv'
      BY <2>6
      DEF RestMode, RestRequest, Request, SetMode
  <2>7. ASSUME NEW what \in {"reboot", "shutdown"}, RestPower(what) PROVE DaemonInv'
      BY <2>7
      DEF RestPower, RestRequest, Request
  <2>8. CASE Daemon
      BY <2>0, <2>8
      DEF Daemon, Tick, Fire, Shutdown, Expired, Running
  <2>9. CASE Loop \/ OtaFails
      BY <2>9
      DEF Loop, LoopTake, LoopOta, LoopStop, LoopMode, OtaFails, LoopStep,
          SetMode, KeepsAwake, Running
  <2>10. CASE Handle
      BY <2>10
      DEF Handle, HandlePm, HandleMode, EnterActive, LeaveActive,
          HandleOta, Handles, HandlerStep, EnterStandby, KeepsAwake,
          Running
  <2>11. CASE App
      BY <2>0, <2>11
      DEF App, AppStopTasks, AppPowerSave, AppLightSleep, AppStill,
          AppMotion, AppStandby, AppStartTasks, AppStep, EnterStandby,
          Running
  <2>12. ASSUME NEW s \in Sleepers, FallAsleep(s) PROVE DaemonInv'
      BY <2>0, <2>12
      DEF FallAsleep, SleepArm, SleepMark, SleepStart, SleepStep, Wakeup
  <2>13. CASE UNCHANGED vars
      BY <2>13
      DEF vars
  <2>14. ASSUME NEW b \in BOOLEAN, RestDebug(b) PROVE DaemonInv'
      BY <2>14
      DEF RestDebug, RestRequest, Request
  <2>15. ASSUME NEW c \in Setters, RaiseMode(c) PROVE DaemonInv'
      BY <2>15
      DEF RaiseMode, Running
  <2> QED
      BY <2>1, <2>2, <2>3, <2>4, <2>5, <2>6, <2>7, <2>8, <2>9, <2>10, <2>11, <2>12, <2>13,
         <2>14, <2>15
      DEF Next, User
<1> QED BY <1>1, <1>2, PlacesTyped, PTL DEF Spec

KeptInv == kept => timer <= Cardinality(Posted("pm", queue))

(* A re-armed timer has run for as many periods as events wait at most.    *)
LEMMA KeptInvariant == Spec => []KeptInv
<1> USE DEF KeptInv
<1>1. Init => KeptInv
    BY DEF Init
<1>2. /\ KeptInv /\ DaemonInv /\ FlagsType /\ CountersType /\ QueueType
      /\ QueueType' /\ [Next]_vars
      => KeptInv'
  <2> SUFFICES ASSUME KeptInv, DaemonInv, FlagsType, CountersType, QueueType,
                      QueueType', [Next]_vars
               PROVE  KeptInv'
      OBVIOUS
  <2> DEFINE count == Cardinality(Posted("pm", queue))
  <2> USE DEF rtc, chip, boot, mode, loop, clock, app, bounds, Rearm, NoSleepKept
  <2>1. count \in Nat /\ count' \in Nat /\ timer \in Nat
      BY PostedFinite DEF QueueType, CountersType
  <2>2. CASE UNCHANGED queue /\ UNCHANGED timer /\ (kept' => kept)
      BY <2>2
  <2>3. CASE timer' = 0 \/ ~kept'
      BY <2>1, <2>3
  <2>4. CASE Tick
    <3>1. timer' \in {timer, timer + 1} /\ kept' = kept
        BY <2>1, <2>4 DEF Tick
    <3>2. queue' = Append(queue, "pm")
        BY <2>4 DEF Tick, DaemonFree, Running, DaemonInv
    <3>3. count' = count + 1
        BY <3>2, CountAppend DEF QueueType, Events
    <3> QED BY <2>1, <3>1, <3>3
  <2>5. CASE LoopOta \/ LoopMode
    <3>1. UNCHANGED <<timer, kept>>
        BY <2>5 DEF LoopOta, LoopMode, LoopStep
    <3>2. PICK e \in Events : e # "pm" /\ queue' = Append(queue, e)
        BY <2>5 DEF LoopOta, LoopMode, Events
    <3>3. count' = count
        BY <2>1, <3>2, CountAppend DEF QueueType
    <3> QED BY <3>1, <3>3
  <2>6. CASE HandleMode \/ HandleOta
    <3>1. UNCHANGED <<timer, kept>>
        BY <2>6 DEF HandleMode, HandleOta
    <3>2. queue # <<>> /\ queue' = Tail(queue) /\ Head(queue) # "pm"
        BY <2>6 DEF HandleMode, HandleOta, Handles
    <3>3. count' = count
        BY <2>1, <3>2, CountTail DEF QueueType
    <3> QED BY <3>1, <3>3
  <2>7. CASE HandlePm
    <3>1. kept' = KeepsAwake(state, noSleep)
        BY <2>7 DEF HandlePm
    <3>2. KeepsAwake(state, noSleep) => timer' = 0
        BY <2>7 DEF HandlePm
    <3> QED BY <2>3, <3>1, <3>2
  <2>8. CASE LeaveActive \/ Fire
      BY <2>3, <2>8 DEF LeaveActive, Fire
  <2>9. CASE OtaFails \/ EnterActive
    <3>1. UNCHANGED <<queue, timer>>
        BY <2>9 DEF OtaFails, EnterActive, LoopStep
    <3>2. kept' => kept
        BY Zenon, <2>9 DEF OtaFails, EnterActive
    <3> QED BY <2>2, <3>1, <3>2
  <2>10. CASE Shutdown \/ LoopTake \/ LoopStop \/ \E c \in Setters : RaiseMode(c)
      BY <2>2, <2>10 DEF Shutdown, LoopTake, LoopStop, RaiseMode, LoopStep
  <2>11. CASE Restart \/ Reboot \/ OtaSucceeds
      BY <2>3, <2>11 DEF Restart, Reboot, OtaSucceeds, Reset, Boots, RamLost
  <2>12. ASSUME NEW c \in {"button", "timer"}, Wake(c) PROVE KeptInv'
      BY <2>3, <2>12 DEF Wake, Boots, RamLost
  <2>13. CASE Boot
      BY <2>2, <2>3, <2>13
      DEF Boot, BootInit, BootWake, BootStandby, BootTasks, BootStep, EnterStandby
  <2>14. CASE Click \/ LongPress \/ ClientGivesUp
      BY <2>2, <2>14 DEF Click, LongPress, ClientGivesUp, Request
  <2>15. CASE RestUpgrade \/ \E b \in BOOLEAN : RestMode(b)
      BY <2>3, <2>15 DEF RestUpgrade, RestMode, RestRequest
  <2>22. CASE \E on \in BOOLEAN : RestDebug(on)
      BY <2>3, <2>22 DEF RestDebug, RestRequest
  <2>16. CASE \E what \in {"reboot", "shutdown"} : RestPower(what)
      BY <2>3, <2>16 DEF RestPower, RestRequest
  <2>17. CASE App
      BY <2>2, <2>3, <2>17
      DEF App, AppStopTasks, AppPowerSave, AppLightSleep, AppStill, AppMotion,
          AppStandby, AppStartTasks, AppStep, EnterStandby
  <2>18. ASSUME NEW s \in Sleepers, FallAsleep(s) PROVE KeptInv'
      BY <2>2, <2>18 DEF FallAsleep, SleepArm, SleepMark, SleepStart, SleepStep
  <2>19. CASE UNCHANGED vars
      BY <2>2, <2>19 DEF vars
  <2>20. CASE User \/ ClientGivesUp
      BY <2>14, <2>15, <2>16, <2>20, <2>22 DEF User
  <2>21. CASE Daemon \/ Loop \/ Handle
      BY <2>4, <2>5, <2>6, <2>7, <2>8, <2>9, <2>10, <2>21 DEF Daemon, Loop, Handle
  <2> QED
      BY <2>9, <2>10, <2>11, <2>12, <2>13, <2>17, <2>18, <2>19, <2>20, <2>21 DEF Next
<1> QED
    BY <1>1, <1>2, DaemonInvariant, FlagsTyped, CountersTyped, QueueTyped, PTL DEF Spec

(* A node seen active, and active ever since, is not timed out, however    *)
(* late (within the lag) the events that re-arm its timer are handled.     *)
THEOREM ActiveKeptAwake == Spec => []KeptAwake
<1>1. KeptInv /\ CountersType /\ QueueType => KeptAwake
    BY TimingAssumption, PostedFinite
    DEF KeptInv, CountersType, QueueType, KeptAwake, Expired
<1> QED BY <1>1, KeptInvariant, CountersTyped, QueueTyped, PTL
-----------------------------------------------------------------------------
(* StateFollowsMode.                                                       *)

(* Nothing but app_main runs before the tasks do, and app_power_save only  *)
(* after the timer has expired.                                            *)
BootInv ==
    /\ bpc # "done" => /\ hpc = "idle" /\ ~active
                       /\ \A s \in Sleepers \ {"main"} : sleep[s] = "no"
    /\ bpc = "tasks" => state = "STANDBY"
    /\ bpc # "sleep" => sleep["main"] = "no"
    /\ apc # "none" => fired

(* The boot sequence is not disturbed.                                     *)
LEMMA BootInvariant == Spec => []BootInv
<1> USE DEF BootInv, Sleepers, States, Running, DaemonFree
<1>1. Init => BootInv
    BY DEF Init
<1>2. BootInv /\ PlacesType /\ [Next]_vars => BootInv'
  <2> SUFFICES ASSUME BootInv, PlacesType, [Next]_vars PROVE BootInv'
      OBVIOUS
  <2>0. \A s, z \in Sleepers : \A v :
          [sleep EXCEPT ![s] = v][z] = IF s = z THEN v ELSE sleep[z]
      BY DEF PlacesType
  <2> USE DEF rtc, chip, boot, mode, loop, clock, app, bounds, Rearm, NoSleepKept
  <2>1. CASE Restart \/ Reboot \/ OtaSucceeds
      BY <2>1
      DEF Restart, Reboot, OtaSucceeds, Reset, Boots, RamLost
  <2>2. ASSUME NEW c \in {"button", "timer"}, Wake(c) PROVE BootInv'
      BY <2>2
      DEF Wake, Boots, RamLost
  <2>3. CASE Boot
      BY <2>0, <2>3
      DEF Boot, BootInit, BootWake, BootStandby, BootTasks, BootStep,
          EnterStandby
  <2>4. CASE Click \/ LongPress
      BY <2>0, <2>4
      DEF Click, LongPress, ButtonFree, Request, SetMode
  <2>5. CASE RestUpgrade \/ ClientGivesUp
      BY <2>5
      DEF RestUpgrade, RestRequest, Request, ClientGivesUp, SetMode
  <2>6. ASSUME NEW b \in BOOLEAN, RestMode(b) PROVE BootInv'
      BY <2>6
      DEF RestMode, RestRequest, Request, SetMode
  <2>7. ASSUME NEW what \in {"reboot", "shutdown"}, RestPower(what) PROVE BootInv'
      BY <2>7
      DEF RestPower, RestRequest, Request
  <2>8. CASE Daemon
      BY <2>0, <2>8
      DEF Daemon, Tick, Fire, Shutdown, Expired
  <2>9. CASE Loop \/ OtaFails
    <3>1. bpc = "done" /\ UNCHANGED <<bpc, sleep, apc, fired>>
        BY <2>9 DEF Loop, LoopTake, LoopOta, LoopStop, LoopMode, OtaFails, LoopStep
    <3> QED BY <3>1
  <2>10. CASE Handle
      BY <2>10
      DEF Handle, HandlePm, HandleMode, EnterActive, LeaveActive,
          HandleOta, Handles, HandlerStep, EnterStandby, KeepsAwake
  <2>11. CASE App
      BY <2>0, <2>11
      DEF App, AppStopTasks, AppPowerSave, AppLightSleep, AppStill,
          AppMotion, AppStandby, AppStartTasks, AppStep, EnterStandby
  <2>12. ASSUME NEW s \in Sleepers, FallAsleep(s) PROVE BootInv'
      BY <2>0, <2>12
      DEF FallAsleep, SleepArm, SleepMark, SleepStart, SleepStep, Wakeup
  <2>13. CASE UNCHANGED vars
      BY <2>13
      DEF vars
  <2>14. ASSUME NEW b \in BOOLEAN, RestDebug(b) PROVE BootInv'
      BY <2>14
      DEF RestDebug, RestRequest, Request
  <2>15. ASSUME NEW c \in Setters, RaiseMode(c) PROVE BootInv'
      BY <2>15
      DEF RaiseMode
  <2> QED
      BY <2>1, <2>2, <2>3, <2>4, <2>5, <2>6, <2>7, <2>8, <2>9, <2>10, <2>11, <2>12, <2>13,
         <2>14, <2>15
      DEF Next, User
<1> QED BY <1>1, <1>2, PlacesTyped, PTL DEF Spec

NoMode == setting = {} /\ "mode" \notin bits /\ "mode" \notin taken /\ Posted("mode", queue) = {}

\* What the handler knows of active when no further change is on its way.
ModeInv ==
    bpc = "done" /\ ~fired /\ NoMode =>
      /\ hpc = "active" => active
      /\ hpc = "standby" => ~active
      /\ hpc = "idle" /\ state # "DEEP_SLEEP" =>
           state = IF active THEN "ACTIVE" ELSE "STANDBY"

(* A change of active always leaves its event, in one place or another,    *)
(* until the handler has read active again.                                *)
LEMMA ModeInvariant == Spec => []ModeInv
<1> USE DEF ModeInv
<1>1. Init => ModeInv
    BY DEF Init
<1>2. /\ ModeInv /\ BootInv /\ FlagsType /\ PlacesType /\ QueueType /\ [Next]_vars
      => ModeInv'
  <2> SUFFICES ASSUME ModeInv, BootInv, FlagsType, PlacesType, QueueType,
                      [Next]_vars,
                      bpc' = "done", ~fired', NoMode'
               PROVE  ModeInv'
      BY DEF ModeInv
  <2> USE DEF rtc, chip, boot, mode, loop, clock, app, bounds, Rearm, NoSleepKept
  <2>1. CASE UNCHANGED <<bpc, fired, NoMode, hpc, active, state>>
      BY <2>1
  <2>2. CASE "mode" \in bits' \/ setting' # {}
      BY <2>2 DEF NoMode
  <2>3. CASE Restart \/ Reboot \/ OtaSucceeds
      BY <2>3 DEF Restart, Reboot, OtaSucceeds, Reset, Boots, RamLost
  <2>4. ASSUME NEW c \in {"button", "timer"}, Wake(c) PROVE ModeInv'
      BY <2>4 DEF Wake, Boots, RamLost
  <2>5. CASE Boot
    <3>1. BootTasks
        BY <2>5 DEF Boot, BootInit, BootWake, BootStandby, BootStep
    <3> QED BY <3>1 DEF BootTasks, BootStep, BootInv
  <2>6. CASE Click \/ ClientGivesUp \/ \E b \in BOOLEAN : RestMode(b)
      BY <2>2, <2>6 DEF Click, ClientGivesUp, RestMode, SetMode
  <2>7. CASE LongPress \/ \E what \in {"reboot", "shutdown"} : RestPower(what)
      BY <2>1, <2>7 DEF LongPress, RestPower, RestRequest, Request, NoMode
  <2>8. CASE RestUpgrade
    <3>1. UNCHANGED <<bpc, fired, setting, taken, queue, hpc, active, state>>
        BY <2>8 DEF RestUpgrade, RestRequest, Request
    <3>2. bits \subseteq bits'
        BY <2>8 DEF RestUpgrade
    <3> QED BY <3>1, <3>2 DEF NoMode
  <2>9. CASE Tick
    <3>1. /\ UNCHANGED <<bpc, fired, setting, bits, taken, hpc, active, state>>
          /\ queue' \in {queue, Append(queue, "pm")}
        BY <2>9 DEF Tick
    <3>2. Posted("mode", Append(queue, "pm")) = Posted("mode", queue)
        BY PostedAppend DEF QueueType, Events
    <3> QED BY <3>1, <3>2 DEF NoMode
  <2>10. CASE Fire
      BY <2>10 DEF Fire
  <2>11. CASE Shutdown
      BY <2>1, <2>11 DEF Shutdown, NoMode
  <2>12. CASE LoopTake
    <3>1. UNCHANGED <<bpc, fired, setting, queue, hpc, active, state>> /\ taken' = bits
          /\ taken = {}
        BY <2>12 DEF LoopTake, LoopStep
    <3> QED BY <3>1 DEF NoMode
  <2>13. CASE LoopStop \/ \E c \in Setters : RaiseMode(c)
      BY <2>2, <2>13 DEF LoopStop, RaiseMode, SetMode
  <2>25. CASE LoopOta
    <3>1. /\ UNCHANGED <<bpc, fired, setting, bits, hpc, active, state>>
          /\ queue' = Append(queue, "ota") /\ taken' = (taken \ {"ota"}) \cup {"stop"}
        BY <2>25 DEF LoopOta, LoopStep
    <3>2. Posted("mode", Append(queue, "ota")) = Posted("mode", queue)
        BY PostedAppend DEF QueueType, Events
    <3> QED BY <3>1, <3>2 DEF NoMode
  <2>14. CASE LoopMode
    <3>1. queue' = Append(queue, "mode")
        BY <2>14 DEF LoopMode
    <3>2. Posted("mode", Append(queue, "mode")) =
            Posted("mode", queue) \cup {Len(queue) + 1}
        BY PostedAppend DEF QueueType, Events
    <3> QED BY <3>1, <3>2 DEF NoMode
  <2>15. CASE OtaFails
      BY <2>1, <2>15 DEF OtaFails, LoopStep, NoMode
  <2>16. CASE HandlePm \/ HandleOta
    <3>1. /\ UNCHANGED <<bpc, fired, setting, bits, taken, hpc, active, state>>
          /\ queue # <<>> /\ queue' = Tail(queue) /\ Head(queue) # "mode"
        BY <2>16 DEF HandlePm, HandleOta, Handles, HandlerStep
    <3>2. NoMode
        BY <3>1, NonePosted DEF NoMode, QueueType
    <3> QED BY <3>1, <3>2
  <2>17. CASE HandleMode
    <3>1. hpc' = (IF active THEN "active" ELSE "standby") /\ active' = active
        BY <2>17 DEF HandleMode, Handles, HandlerStep
    <3> QED BY <3>1 DEF FlagsType
  <2>18. CASE EnterActive
    <3>1. /\ UNCHANGED <<bpc, fired, setting, bits, taken, queue, active>>
          /\ hpc = "active" /\ hpc' = "idle" /\ state' = "ACTIVE"
        BY <2>18 DEF EnterActive, HandlerStep
    <3> QED BY <3>1 DEF NoMode
  <2>19. CASE LeaveActive
    <3>1. /\ UNCHANGED <<bpc, fired, setting, bits, taken, queue, active>>
          /\ hpc = "standby" /\ hpc' = "idle" /\ state' = "STANDBY"
        BY <2>19 DEF LeaveActive, HandlerStep, EnterStandby
    <3> QED BY <3>1 DEF NoMode
  <2>20. CASE App
    <3>1. apc # "none" /\ fired' = fired
        BY <2>20
        DEF App, AppStopTasks, AppPowerSave, AppLightSleep, AppStill, AppMotion,
            AppStandby, AppStartTasks, AppStep
    <3> QED BY <3>1 DEF BootInv
  <2>21. ASSUME NEW s \in Sleepers, FallAsleep(s) PROVE ModeInv'
    <3>1. /\ UNCHANGED <<bpc, fired, setting, bits, taken, queue, hpc, active>>
          /\ state' \in {state, "DEEP_SLEEP"}
        BY <2>21 DEF FallAsleep, SleepArm, SleepMark, SleepStart, SleepStep
    <3> QED BY <3>1 DEF NoMode
  <2>22. CASE UNCHANGED vars
      BY <2>1, <2>22 DEF vars, NoMode
  <2>23. CASE \E on \in BOOLEAN : RestDebug(on)
      BY <2>1, <2>23 DEF RestDebug, RestRequest, Request, NoMode
  <2>24. CASE User \/ Daemon \/ Loop \/ Handle
      BY <2>6, <2>7, <2>8, <2>9, <2>10, <2>11, <2>12, <2>13, <2>14, <2>16, <2>17, <2>18, <2>19, <2>23, <2>24,
         <2>25
      DEF User, Daemon, Loop, Handle
  <2> QED
      BY <2>3, <2>4, <2>5, <2>6, <2>13, <2>15, <2>20, <2>21, <2>22, <2>24 DEF Next
<1> QED
    BY <1>1, <1>2, BootInvariant, FlagsTyped, PlacesTyped, QueueTyped, PTL DEF Spec

(* When all changes of mode are handled, the power state matches them.     *)
THEOREM StateAlwaysFollows == Spec => []StateFollowsMode
<1>1. ModeInv => StateFollowsMode
    BY DEF ModeInv, StateFollowsMode, NoMode, ModeHandled, Running
<1> QED BY <1>1, ModeInvariant, PTL
=============================================================================
