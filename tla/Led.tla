---------------------------------- MODULE Led ----------------------------------
(***************************************************************************)
(* The LED of the node: the status its state asks for                      *)
(* (components/sys/led_status.c), the pattern engine that shows it         *)
(* (components/blink/blink.c) and the sequence number it may blink.        *)
(*                                                                         *)
(* A function of the engine tests led_status, stops the timer, selects the *)
(* pattern, starts the timer and writes led_status, without a lock; three  *)
(* tasks call it, and the timer callback reads the pattern meanwhile.      *)
(* One event asks for an update of the LED, whatever has changed; while it *)
(* is under way further ones are dropped, also when a flag has changed     *)
(* that the handler has read already.                                      *)
(*                                                                         *)
(* The status handler runs in the task that also runs the Wi-Fi and the    *)
(* discovery handlers: their flags cannot change under it, those of the    *)
(* other tasks can.  blink_led_set_duty has no caller.                     *)
(***************************************************************************)
EXTENDS Integers, Sequences, FiniteSets

CONSTANTS WaveLen, CodeLen,  \* lengths of the breathing patterns and the code
          MaxChanges,        \* bound: changes of link and mode
          MaxRequests        \* bound: requests and power-downs

ASSUME LedAssumption ==
    /\ WaveLen \in Nat \ {0} /\ CodeLen \in Nat \ {0}
    /\ MaxChanges \in Nat /\ MaxRequests \in Nat

Patterns == {"FAST_FLASH", "FAST_BREATH", "SLOW_BREATH", "SEQ_ENC"}
Lights == {"ON", "OFF"}

\* The tasks that call blink_*: event loop, REST server, power management.
Callers == {"handler", "rest", "power"}

\* Written by the handlers of the event loop, and by other tasks.
LoopInputs == {"wifi_connected", "discovery_completed"}
TaskInputs == {"ntp_synced", "active"}
Inputs == LoopInputs \cup TaskInputs
Forever == {"discovery_completed", "ntp_synced"}   \* never reset: see Sync

PatternLen(p) == IF p = "SEQ_ENC" THEN CodeLen ELSE WaveLen
Period(p) == IF p = "SLOW_BREATH" THEN 200 ELSE 50

VARIABLES
  state,       \* g_mcu.state: the flags the LED depends on
  raising,     \* changes whose writer has yet to set an event bit
  pending,     \* some bit of sys_event_group is set
  token,       \* EV_TASK_LED_STATUS
  event,       \* a LED event is queued
  manual,      \* led_manual
  led_status,
  running, period,               \* s_blink_timer
  selected, length,              \* s_selected_pattern and its _len
  cb,                            \* blink_timeout
  out,                           \* what is on the pin
  pc, op,                        \* the engine function each caller runs
  changes, requests,
  overlapped,  \* history: two callers met in the engine, and no caller has
               \* stopped the timer alone since
  late         \* history: a callback ended after its timer was stopped

inputs == <<state, raising, pending, changes>>
asking == <<token, event, manual, requests>>
timer == <<running, period>>
pattern == <<selected, length>>
calls == <<pc, op>>
history == <<overlapped, late>>
ledVars == <<inputs, asking, led_status, timer, pattern, cb, out, calls, history>>

Idle == \A c \in Callers : pc[c] = "idle"

\* blink_msp_init tests the LED with the fast flash; sys_init_events has set
\* a bit.
LedInit ==
    /\ state = [i \in Inputs |-> FALSE] /\ raising = {} /\ pending = TRUE
    /\ token = FALSE /\ event = FALSE /\ manual = FALSE
    /\ led_status = "FAST_FLASH"
    /\ running = TRUE /\ period = Period("FAST_FLASH")
    /\ selected = "FAST_FLASH" /\ length = PatternLen("FAST_FLASH")
    /\ cb = "idle" /\ out = "PWM"
    /\ pc = [c \in Callers |-> "idle"] /\ op = [c \in Callers |-> "OFF"]
    /\ changes = 0 /\ requests = 0
    /\ overlapped = FALSE /\ late = FALSE
-----------------------------------------------------------------------------
(* What the LED shall show, and when it is asked for.                      *)

get_target_led_status ==
    IF ~state["wifi_connected"] THEN "FAST_FLASH"
    ELSE IF ~(state["ntp_synced"] /\ state["discovery_completed"]) THEN "FAST_BREATH"
    ELSE IF state["active"] THEN "ON" ELSE "SLOW_BREATH"

Flip(i) ==
    /\ IF i \in Forever THEN ~state[i] /\ UNCHANGED changes
       ELSE changes < MaxChanges /\ changes' = changes + 1
    /\ state' = [state EXCEPT ![i] = ~@]

Shown == UNCHANGED <<led_status, timer, pattern, cb, out, calls, history>>

\* The event loop's other handlers: the flag, then its event.
LoopWrites(i) ==
    /\ pc["handler"] = "idle" /\ Flip(i) /\ pending' = TRUE
    /\ UNCHANGED <<raising, asking>> /\ Shown

\* The mode is changed by several tasks, ...
ModeWritten ==
    /\ Flip("active") /\ raising' = raising \cup {"active"}
    /\ UNCHANGED <<pending, asking>> /\ Shown


\* time_sync_notification_cb, for every answer of a time server, ...
NtpSynced ==
    /\ "ntp_synced" \notin raising /\ raising' = raising \cup {"ntp_synced"}
    /\ state' = [state EXCEPT !["ntp_synced"] = TRUE]
    /\ UNCHANGED <<changes, pending, asking>> /\ Shown

\* ... and the event bit is set after the flag.
Raise(i) ==
    /\ i \in raising /\ raising' = raising \ {i} /\ pending' = TRUE
    /\ UNCHANGED <<state, changes, asking>> /\ Shown

\* app_system_loop takes the bits; whatever they are, it looks at the LED.
LoopWakes ==
    /\ pending /\ pending' = FALSE
    /\ LET ask == ~token /\ ~manual
       IN  token' = (token \/ ask) /\ event' = (event \/ ask)
    /\ UNCHANGED <<state, raising, changes, manual, requests>> /\ Shown
-----------------------------------------------------------------------------
(* The engine.  c calls the function that shows o.                         *)

Alone(c) == \A d \in Callers \ {c} : pc[d] = "idle"

Enter(c, o, at) ==
    /\ pc[c] = "idle" /\ pc' = [pc EXCEPT ![c] = at] /\ op' = [op EXCEPT ![c] = o]
    /\ overlapped' = (overlapped \/ ~Alone(c))

\* sys_led_status_handler: nothing to do if the LED shows the target.
HandlerReads ==
    /\ event /\ event' = FALSE
    /\ LET target == get_target_led_status
       IN  Enter("handler", target, IF target = led_status THEN "done" ELSE "test")
    /\ UNCHANGED <<inputs, token, manual, requests, led_status, timer, pattern,
                   cb, out, late>>

Asked == requests < MaxRequests /\ requests' = requests + 1

Calls(c, o) ==
    /\ Asked /\ Enter(c, o, "test")
    /\ UNCHANGED <<inputs, token, event, led_status, timer, pattern, cb, out, late>>

\* blink_toggle, whatever the mode; blink_configure?mode=off.
RestToggle == \E o \in Patterns \cup Lights : Calls("rest", o) /\ UNCHANGED manual
RestOff == Calls("rest", "OFF") /\ manual' = TRUE

\* blink_configure?mode=auto and ?mode=manual, with its event: the loop reads
\* led_manual only when it is woken.
RestMode ==
    /\ pc["rest"] = "idle" /\ manual' = ~manual /\ pending' = TRUE
    /\ UNCHANGED <<state, raising, changes, token, event, requests>> /\ Shown

\* Power save turns the LED off; deep sleep turns it on and then off.
PowerSave == Calls("power", "OFF") /\ UNCHANGED manual
DeepSleep == Calls("power", "ON") /\ manual' = TRUE

Moves(c, from, to) == pc[c] = from /\ pc' = [pc EXCEPT ![c] = to] /\ UNCHANGED op
Leave(c) ==
    /\ pc[c] = "done" /\ pc' = [pc EXCEPT ![c] = "idle"]
    /\ op' = [op EXCEPT ![c] = "OFF"]
Engine == UNCHANGED <<inputs, asking, cb>>

\* A function returns at once when the LED already shows its pattern.
AlreadyShown(c) ==
    /\ op[c] \in Patterns /\ led_status = op[c] /\ Moves(c, "test", "done")
    /\ Engine /\ UNCHANGED <<led_status, timer, pattern, out, history>>

\* A slip: the list of running patterns misses one.
StopTimerForgets(c) ==
    /\ ~(op[c] \in Patterns /\ led_status = op[c])
    /\ Moves(c, "test", IF op[c] \in Patterns THEN "select" ELSE "output")
    /\ running' = (running /\ led_status \notin Patterns \ {"SLOW_BREATH"})
    /\ overlapped' = (overlapped /\ (running' \/ ~Alone(c)))
    /\ Engine /\ UNCHANGED <<led_status, period, pattern, out, late>>

\* The timer is stopped if led_status says that it runs.
StopTimer(c) ==
    /\ ~(op[c] \in Patterns /\ led_status = op[c])
    /\ Moves(c, "test", IF op[c] \in Patterns THEN "select" ELSE "output")
    /\ running' = (running /\ led_status \notin Patterns)
    /\ overlapped' = (overlapped /\ (running' \/ ~Alone(c)))
    /\ Engine /\ UNCHANGED <<led_status, period, pattern, out, late>>

SelectPattern(c) ==
    /\ Moves(c, "select", "length") /\ selected' = op[c]
    /\ Engine /\ UNCHANGED <<led_status, timer, length, out, history>>

SelectLength(c) ==
    /\ Moves(c, "length", "start") /\ length' = PatternLen(op[c])
    /\ Engine /\ UNCHANGED <<led_status, timer, selected, out, history>>

\* esp_timer_start_periodic fails when the timer runs.
StartTimer(c) ==
    /\ Moves(c, "start", "status")
    /\ running' = TRUE /\ period' = IF running THEN period ELSE Period(op[c])
    /\ Engine /\ UNCHANGED <<led_status, pattern, out, history>>

\* ledc_stop and gpio_set_level.
Output(c) ==
    /\ Moves(c, "output", "status") /\ out' = op[c] /\ late' = FALSE
    /\ Engine /\ UNCHANGED <<led_status, timer, pattern, overlapped>>

SetStatus(c) ==
    /\ Moves(c, "status", "done") /\ led_status' = op[c]
    /\ Engine /\ UNCHANGED <<timer, pattern, out, history>>

Returned == UNCHANGED <<inputs, event, manual, requests, led_status, timer, pattern,
                        cb, out, history>>

\* The handler clears the task bit on its way out.
HandlerReturns == Leave("handler") /\ token' = FALSE /\ Returned

RestReturns == Leave("rest") /\ UNCHANGED token /\ Returned

\* Deep sleep goes on with blink_led_off two seconds later.
PowerReturns ==
    /\ pc["power"] = "done" /\ UNCHANGED token /\ Returned
    /\ IF op["power"] = "ON" /\ manual
       THEN pc' = [pc EXCEPT !["power"] = "test"] /\ op' = [op EXCEPT !["power"] = "OFF"]
       ELSE Leave("power")
-----------------------------------------------------------------------------
(* blink_timeout, in the timer task.                                       *)

Callback == UNCHANGED <<inputs, asking, led_status, timer, pattern, calls, overlapped>>

\* Once it is due, stopping the timer does not keep it from being called.
TimeoutDue ==
    /\ running /\ cb = "idle" /\ cb' = "due"
    /\ Callback /\ UNCHANGED <<out, late>>

\* ledc_set_duty, ledc_update_duty, with the pattern selected by now: which
\* byte of it is not modelled.
TimeoutShows ==
    /\ cb = "due" /\ cb' = "idle" /\ out' = "PWM"
    /\ late' = (late \/ ~running)
    /\ Callback

State == (\E i \in LoopInputs : LoopWrites(i)) \/ ModeWritten \/ NtpSynced
            \/ \E i \in TaskInputs : Raise(i)
Rest == RestToggle \/ RestOff \/ RestMode
EngineStep(c) == AlreadyShown(c) \/ StopTimer(c) \/ SelectPattern(c) \/ SelectLength(c)
                    \/ StartTimer(c) \/ Output(c) \/ SetStatus(c)

LedNext == \/ State \/ LoopWakes \/ HandlerReads \/ Rest \/ PowerSave \/ DeepSleep
        \/ (\E c \in Callers : EngineStep(c))
        \/ HandlerReturns \/ RestReturns \/ PowerReturns
        \/ TimeoutDue \/ TimeoutShows

LedSpec == LedInit /\ [][LedNext]_ledVars

\* The tasks that are ready run, and a connected node goes on hearing from a
\* time server; nothing is assumed of the other flags, of users and of sleep.
LedFairness ==
    /\ WF_ledVars(NtpSynced /\ state["wifi_connected"])
    /\ \A i \in TaskInputs : WF_ledVars(Raise(i))
    /\ WF_ledVars(LoopWakes)
    /\ WF_ledVars(HandlerReads \/ EngineStep("handler") \/ HandlerReturns)

LedFairSpec == LedSpec /\ LedFairness
-----------------------------------------------------------------------------
(* The sequence code: fill_u8_hamming and blink_prepare_pattern.           *)

DataPlaces == <<2, 4, 5, 6, 8, 9, 10, 11>>
ParityPlaces == {0, 1, 3, 7}
Bit(n, k) == (n \div 2^k) % 2

\* The eight bits, the highest first, at their places.
DataBits(seq) ==
    [p \in {2, 4, 5, 6, 8, 9, 10, 11} |->
        Bit(seq, 8 - CHOOSE i \in 1..8 : DataPlaces[i] = p)]

\* The parities start from what was on the stack: garbage.
fill_u8_hamming(seq, garbage) ==
    LET b == DataBits(seq)
    IN  [p \in 0..11 |->
           CASE p = 0 -> (garbage[0] + b[2] + b[4] + b[6] + b[8] + b[10]) % 2
             [] p = 1 -> (garbage[1] + b[2] + b[5] + b[6] + b[9] + b[10]) % 2
             [] p = 3 -> (garbage[3] + b[4] + b[5] + b[6] + b[11]) % 2
             [] p = 7 -> (garbage[7] + b[8] + b[9] + b[10] + b[11]) % 2
             [] OTHER -> b[p]]

Bright == 255
Dim == 64
Sync == <<Bright, Bright, Bright, Dim>>

\* A slip: the second of a pair looks one place back instead of three.
CodeSlipped(bits) ==
    LET code[i \in 0..27] ==
          IF i < 4 THEN Sync[i + 1]
          ELSE LET swap == bits[(i - 4) \div 2] = 1
               IN  IF i % 2 = 0 THEN (IF swap THEN code[i - 1] ELSE code[i - 2])
                   ELSE (IF swap THEN code[i - 1] ELSE code[i - 2])
    IN  code

\* A one swaps the pair before it, a zero repeats it.
Code(bits) ==
    LET code[i \in 0..27] ==
          IF i < 4 THEN Sync[i + 1]
          ELSE LET swap == bits[(i - 4) \div 2] = 1
               IN  IF i % 2 = 0 THEN (IF swap THEN code[i - 1] ELSE code[i - 2])
                   ELSE (IF swap THEN code[i - 3] ELSE code[i - 2])
    IN  code
-----------------------------------------------------------------------------
(* Properties.                                                             *)

\* Every variable keeps its type.
LedTypeOK ==
    /\ state \in [Inputs -> BOOLEAN] /\ raising \subseteq TaskInputs
    /\ <<pending, token, event, manual, running>> \in BOOLEAN \X BOOLEAN \X BOOLEAN \X BOOLEAN \X BOOLEAN
    /\ led_status \in Patterns \cup Lights /\ period \in {50, 200}
    /\ selected \in Patterns /\ length \in {WaveLen, CodeLen}
    /\ cb \in {"idle", "due"} /\ out \in {"PWM"} \cup Lights
    /\ op \in [Callers -> Patterns \cup Lights]
    /\ pc \in [Callers -> {"idle", "test", "select", "length", "start", "output",
                         "status", "done"}]

\* The engine is what led_status says, unless two callers have met in it: a
\* pattern has its timer, its buffer, its length and its period; a plain light
\* has no timer, and its level on the pin unless a callback came late.  Two
\* callers that meet may leave a timer that runs under a plain light, or a
\* pattern without one; that lasts no longer than until a caller finds the
\* engine to itself and leaves the timer stopped.
LedShows ==
    Idle /\ ~overlapped =>
        /\ running <=> led_status \in Patterns
        /\ running => /\ selected = led_status
                      /\ length = PatternLen(led_status)
                      /\ period = Period(led_status)
        /\ ~running /\ ~late => out = led_status

\* A connected node whose LED is automatic and left alone ends up showing what
\* its state asks for: an update that the task bit drops, because the handler
\* has read the flags already, is made up for by the next event, and every
\* answer of a time server is one.
LeftAlone ==
    /\ state["wifi_connected"] /\ ~manual
    /\ pc["rest"] = "idle" /\ pc["power"] = "idle"

\* What a receiver can tell: a pair that differs from the pair before is a one.
Received(code) == [k \in 0..11 |-> IF code[4 + 2*k] = code[2 + 2*k] THEN 0 ELSE 1]
StartsAt(code, i) ==
    /\ code[(i + 3) % 28] = Dim
    /\ \A j \in 0..2 : code[(i + j) % 28] = Bright

\* Three bright steps before a dim one occur at the start only, and the data
\* bits follow, whatever the parities were made from.
Decodes ==
    \A seq \in 0..255, garbage \in [ParityPlaces -> {0, 1}] :
        LET bits == fill_u8_hamming(seq, garbage)
            code == [i \in 0..27 |-> Code(bits)[i]]
        IN  /\ \A i \in 0..27 : StartsAt(code, i) <=> i = 0
            /\ \A i \in 1..8 : Received(code)[DataPlaces[i]] = Bit(seq, 8 - i)

\* Whenever the LED blinks the sequence number it can be read from the LED,
\* wherever a receiver starts to look and whatever number it is.
CodeDecodes == selected = "SEQ_ENC" => Decodes
=============================================================================
