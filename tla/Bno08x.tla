------------------------------- MODULE Bno08x ------------------------------
(***************************************************************************)
(* The BNO08x driver (lib/bno08x): tasks that call it queue packets and    *)
(* wait for bits of an event group; the sensor's interrupt line wakes the  *)
(* SPI task, which sends a queued packet or receives one; the data task    *)
(* parses what was received.  The interrupt is on the falling edge of the  *)
(* line; it disables itself and is enabled again by the SPI task, at the   *)
(* top of its loop, while a report is enabled, else by the next wait.  An  *)
(* edge that comes in between is lost.                                     *)
(*                                                                         *)
(* A call of the driver is a list of the steps it has left, todo; a step   *)
(* is <<name, packet kind, report>>.  A packet to the sensor is its kind   *)
(* and the report it is about; one from the sensor is "id" (the product    *)
(* id), "data" (others that parse to an id: reports, command responses) or *)
(* "ack" (advertisement, feature response).  All queues hold one item.     *)
(* BNO08x_initialize creates another pair of tasks each time it is called. *)
(*                                                                         *)
(* A wait lasts 300 ms and the driver's tasks preempt their callers, so a  *)
(* wait times out only when nothing is under way (Quiet).                  *)
(***************************************************************************)
EXTENDS Integers, Sequences

CONSTANTS NReports,    \* the reports that bno08x_config enables
          NFlush,      \* the packets flushed after a command
          Readers,     \* the tasks that read: monitor, REST server, power save
          Admins,      \* the tasks that toggle, reset and send commands
          Requests,    \* bound: what they call beside the toggle
          MaxGens,     \* bound: calls of BNO08x_initialize
          MaxCalls,    \* bound: calls of the Admins
          MaxFaults    \* bound: times the sensor loses what it was to send

ASSUME BnoAssumption ==
    /\ NReports \in Nat \ {0} /\ NFlush \in Nat \ {0} /\ MaxGens \in Nat \ {0} /\ MaxCalls \in Nat
    /\ MaxFaults \in Nat
    /\ Readers \cap Admins = {}
    /\ Requests \subseteq {"hard_reset", "soft_reset", "on", "calibrate", "tare", "disable"}

VARIABLES
  bits, reports,            \* evt_grp_spi, evt_grp_report_en
  txq, rxq, idq,            \* queue_tx_data, queue_rx_data, queue_reset_reason
  intr,                     \* the GPIO interrupt is enabled
  notify, looping,          \* SPI tasks notified; those at the top of their loop
  gens, handle,             \* pairs of tasks created; spi_task_hdl, 0 for NULL
  proc,                     \* the packets the data tasks are parsing
  status, enabled,          \* of imu_t
  todo, ok,                 \* per caller: steps left, result of the last wait
  hub, hubOut, hubReports,  \* the sensor: state, packets to send, features
  low,                      \* it asserts its interrupt line, which is active low
  booted,                   \* app_main has started the other tasks
  calls, faults,            \* counters for the bounds
  clean                     \* no packet timed out, no two calls overlapped

device == <<bits, reports, txq, rxq, idq>>
line == <<intr, notify, looping>>
tasks == <<gens, handle, proc>>
imu == <<status, enabled>>
sensor == <<hub, hubOut, hubReports, low>>
callers == <<todo, ok>>
history == <<booted, calls, faults, clean>>
vars == <<device, line, tasks, imu, callers, sensor, history>>

Callers == Readers \cup Admins
Reports == 1 .. NReports
Gens == 1 .. MaxGens
Bits == {"rx", "valid", "invalid", "tx"}
Commands == {"enable", "disable", "id", "reset", "sleep", "on", "calibrate",
             "tare"}
Answers == {"id", "data", "ack"}
StepNames ==
    {"listen", "tx", "rx", "flush", "valid", "judge", "wipe", "unless", "clear", "low", "high",
     "queue", "reason", "forget", "spawn", "check", "enable", "set", "unmask", "unset", "mask",
     "configured", "boot", "on", "off", "avail"}
Step == StepNames \X (Commands \cup {"none"}) \X (0 .. NReports + NFlush + 12)

-----------------------------------------------------------------------------
(* The calls, as the steps they take.                                      *)

Do(name) == <<name, "none", 0>>
At(name, n) == <<name, "none", n>>
Queue(kind, r) == <<"queue", kind, r>>
Unless(n) == At("unless", n)  \* drop the n steps that follow if the wait failed

wait_for_rx_done == <<Do("listen"), Do("rx")>>
wait_for_tx_done == <<Do("listen"), Do("tx")>>
wait_for_data == <<Do("listen"), Do("rx"), Unless(2), Do("valid"), Do("judge"), Do("wipe")>>
\* wait_for_rx_done n times, whatever it returns
Flush(n) == <<Do("listen"), At("flush", n)>>

hard_reset == <<Do("clear"), Do("low"), Do("high")>>
              \o wait_for_rx_done \o <<Unless(2)>> \o wait_for_rx_done
soft_reset == <<Do("clear"), Queue("reset", 0)>> \o wait_for_tx_done \o Flush(NFlush)
mode(kind) == <<Queue(kind, 0)>> \o wait_for_tx_done \o Flush(NFlush)
get_reset_reason == <<Queue("id", 0)>> \o wait_for_tx_done \o <<Unless(8)>>
                    \o wait_for_data \o <<Unless(1), Do("reason")>>
initialize == <<Do("forget"), Do("spawn")>> \o hard_reset
              \o <<Unless(12)>> \o get_reset_reason
enable_report(r) == <<Queue("enable", r)>> \o wait_for_tx_done
                    \o <<At("set", r), At("unmask", r)>> \o Flush(NFlush)
disable_report(r) == <<Queue("disable", r)>> \o wait_for_tx_done
                     \o <<At("unset", r), Do("mask")>>
\* BNO08x_enable_rotation_vector and the like, by report.
enable == [r \in Reports |-> enable_report(r)]
disable == [r \in Reports |-> disable_report(r)]
config == initialize \o <<Do("check"), At("enable", 1)>>
command(kind) == <<Queue(kind, 0)>> \o wait_for_tx_done
calibrate == command("calibrate")
tare == command("tare")

boot == config \o <<Do("boot")>>
read == <<Do("avail")>> \o wait_for_data
toggle_on == hard_reset \o config \o <<Do("on")>>
toggle_off == mode("sleep") \o <<Do("off")>>
Request == [hard_reset |-> {hard_reset}, soft_reset |-> {soft_reset},
            on |-> {mode("on")}, calibrate |-> {calibrate}, tare |-> {tare},
            disable |-> {disable[r] : r \in Reports}]
AdminCalls == UNION {Request[k] : k \in Requests}

-----------------------------------------------------------------------------
(* What the sensor does (external).                                        *)

Boot == <<"ack", "data">>
Answer(kind) ==
    CASE kind \in {"enable", "disable"} -> <<"ack">>
      [] kind = "id" -> <<"id">>
      [] kind = "calibrate" -> <<"data">>
      [] OTHER -> <<>>

\* A packet reaches the sensor, unless it is held in reset; the sensor releases
\* its line when it is selected.
Deliver(p) ==
    IF hub = "low" THEN UNCHANGED sensor
    ELSE /\ low' = FALSE
         /\ hubOut' = IF p[1] = "reset" THEN Boot ELSE hubOut \o Answer(p[1])
         /\ hub' = CASE p[1] = "sleep" -> "asleep"
                     [] p[1] \in {"on", "reset"} -> "up"
                     [] OTHER -> hub
         /\ hubReports' = CASE p[1] = "enable" -> hubReports \cup {p[2]}
                            [] p[1] = "disable" -> hubReports \ {p[2]}
                            [] p[1] = "reset" -> {}
                            [] OTHER -> hubReports

\* A report falls due; an older one that was not fetched is replaced.
HubReport ==
    /\ hub = "up" /\ hubReports # {} /\ hubOut = <<>>
    /\ hubOut' = <<"data">>
    /\ UNCHANGED <<device, line, tasks, imu, callers, hub, hubReports, low, history>>

\* The sensor loses what it was to send.
HubFault ==
    /\ hubOut # <<>> /\ faults < MaxFaults
    /\ faults' = faults + 1
    /\ hubOut' = <<>> /\ low' = FALSE
    /\ UNCHANGED <<device, line, tasks, imu, callers, hub, hubReports,
                   booted, calls, clean>>

-----------------------------------------------------------------------------
(* The interrupt, the SPI tasks and the data tasks.                        *)

\* The node restarts: the main task, one of the admins, is about to configure the
\* sensor, which knows nothing of it.
Restart ==
    /\ bits' = {} /\ reports' = {}
    /\ txq' = <<>> /\ rxq' = <<>> /\ idq' = FALSE
    /\ intr' = FALSE /\ notify' = {} /\ looping' = {}
    /\ gens' = 0 /\ handle' = 0 /\ proc' = [g \in Gens |-> <<>>]
    /\ status' = "ready" /\ enabled' = FALSE
    /\ \E m \in Admins : todo' = [c \in Callers |-> IF c = m THEN boot ELSE <<>>]
    /\ ok' = [c \in Callers |-> TRUE]
    /\ booted' = FALSE /\ clean' = TRUE
    /\ UNCHANGED <<calls, faults>>

\* BNO08x_hint_handler, for a falling edge of the line.
HintHandler ==
    /\ intr /\ handle # 0
    /\ intr' = FALSE
    /\ notify' = notify \cup {handle}
    /\ UNCHANGED <<device, looping, tasks, imu, callers, history>>

\* An edge while the interrupt is disabled is lost: enabling it clears what is
\* pending.
EdgeLost ==
    /\ ~intr
    /\ UNCHANGED <<device, line, tasks, imu, callers, history>>

\* Notifying the task of a NULL handle fails an assertion of the kernel, which
\* restarts the node.
NullHandle == intr /\ handle = 0 /\ Restart

Edge == HintHandler \/ EdgeLost \/ NullHandle

\* The sensor asserts its line when it has a packet, and may do so when it has
\* none, which matters if one waits to be sent.
HubAssert ==
    /\ ~low /\ hub # "low" /\ hubOut \o txq # <<>>
    /\ low' = TRUE
    /\ Edge
    /\ UNCHANGED <<hub, hubOut, hubReports>>

\* A sensor that is not served releases its line after a while and asserts it
\* again.
HubRetry ==
    /\ low /\ hub # "low" /\ hubOut \o txq # <<>>
    /\ Edge
    /\ UNCHANGED sensor

\* A slip: the interrupt stays disabled.
SpiLoopMasked(g) ==
    /\ g \in looping
    /\ looping' = looping \ {g}
    /\ UNCHANGED <<device, intr, notify, tasks, imu, callers, sensor, history>>

\* The top of the loop of an SPI task, before it waits to be notified.
SpiLoop(g) ==
    /\ g \in looping
    /\ looping' = looping \ {g}
    /\ intr' = (intr \/ reports # {})
    /\ UNCHANGED <<device, notify, tasks, imu, callers, sensor, history>>

\* An SPI task that was notified serves the sensor once.
Serve(g) ==
    /\ g \in notify \ looping
    /\ notify' = notify \ {g} /\ looping' = looping \cup {g}
    /\ UNCHANGED <<intr, gens, handle, imu, callers, history>>

SpiSend(g) ==
    /\ Serve(g) /\ txq # <<>>
    /\ txq' = <<>>
    /\ bits' = bits \cup {"tx"}
    /\ Deliver(txq[1])
    /\ UNCHANGED <<reports, rxq, idq, proc>>

\* BNO08x_receive_packet: without a packet the length read is zero.  The packet
\* goes to a data task that waits for one, else to the queue if there is room.
SpiReceive(g) ==
    /\ Serve(g) /\ txq = <<>>
    /\ IF hubOut = <<>>
       THEN UNCHANGED <<bits, rxq, proc, hubOut>>
       ELSE /\ bits' = bits \cup {"rx"}
            /\ hubOut' = Tail(hubOut)
            /\ \/ \E d \in 1 .. gens :
                    /\ proc[d] = <<>>
                    /\ proc' = [proc EXCEPT ![d] = <<hubOut[1]>>]
                    /\ UNCHANGED rxq
               \/ /\ \A d \in 1 .. gens : proc[d] # <<>>
                  /\ rxq' = IF rxq = <<>> THEN <<hubOut[1]>> ELSE rxq
                  /\ UNCHANGED proc
    /\ low' = FALSE
    /\ UNCHANGED <<reports, txq, idq, hub, hubReports>>

\* The packets that are parsed to another value than 0.
IsReport(p) == p = "data"
IsValid(p) == p = "id" \/ IsReport(p)

ParseProductId(p) == idq' = (idq \/ p = "id")

\* A data task parses its packet, sets a bit and takes the next packet.
DataParse(g) ==
    LET p == proc[g][1] IN
    /\ proc[g] # <<>>
    /\ proc' = [proc EXCEPT ![g] = rxq]
    /\ rxq' = <<>>
    /\ ParseProductId(p)
    /\ bits' = bits \cup {IF IsValid(p) THEN "valid" ELSE "invalid"}
    /\ UNCHANGED <<reports, txq, line, gens, handle, imu, callers, sensor,
                   booted, calls, faults, clean>>

-----------------------------------------------------------------------------
(* The steps of the callers.                                               *)

Next1(c, name) == todo[c] # <<>> /\ todo[c][1][1] = name
Report(c) == todo[c][1][3]
Rest(c) == Tail(todo[c])
Continue(c) == todo' = [todo EXCEPT ![c] = Tail(@)]
Result(c, b) == ok' = [ok EXCEPT ![c] = b]

\* The steps left after a wait with result b: those under an Unless are dropped.
Drop(s, n) == SubSeq(s, n + 1, Len(s))
Branch(s, b) ==
    IF s # <<>> /\ s[1][1] = "unless" THEN Drop(s, IF b THEN 1 ELSE 1 + s[1][3]) ELSE s
\* At the end of a call the result is forgotten.
Decide(c, b) ==
    LET left == Branch(Branch(Rest(c), b), b) IN
    /\ todo' = [todo EXCEPT ![c] = left]
    /\ Result(c, b \/ left = <<>>)

\* Nothing is under way that could set a bit or fill a queue.
Quiet ==
    /\ notify = {} /\ looping = {}
    /\ \A g \in 1 .. gens : proc[g] = <<>>
    /\ ~(intr /\ hubOut # <<>>)

\* What all waits do first.
Listen(c) ==
    /\ Next1(c, "listen")
    /\ intr' = (intr \/ reports = {})
    /\ Continue(c)
    /\ UNCHANGED <<device, notify, looping, tasks, imu, ok, sensor, history>>

\* A slip: a wait without a time-out.
AwaitForever(c, bit) ==
    /\ bit \in bits
    /\ bits' = bits \ {bit}
    /\ Decide(c, TRUE)
    /\ UNCHANGED clean

\* xEventGroupWaitBits for one bit, which it clears.  A wait that times out
\* returns the bits that are set by then, and any bit counts as success.
Await(c, bit) ==
    \/ /\ bit \in bits
       /\ bits' = bits \ {bit}
       /\ Decide(c, TRUE)
       /\ UNCHANGED clean
    \/ /\ bit \notin bits /\ Quiet
       /\ Decide(c, bits # {})
       /\ clean' = (clean /\ bit # "tx")
       /\ UNCHANGED bits

WaitTx(c) ==
    /\ Next1(c, "tx")
    /\ Await(c, "tx")
    /\ UNCHANGED <<reports, txq, rxq, idq, line, tasks, imu, sensor,
                   booted, calls, faults>>

WaitRx(c) ==
    /\ Next1(c, "rx")
    /\ Await(c, "rx")
    /\ UNCHANGED <<reports, txq, rxq, idq, line, tasks, imu, sensor,
                   booted, calls, faults>>

FlushRx(c) ==
    /\ Next1(c, "flush")
    /\ \/ "rx" \in bits /\ bits' = bits \ {"rx"}
       \/ "rx" \notin bits /\ Quiet /\ UNCHANGED bits
    /\ todo' = [todo EXCEPT ![c] =
         (IF Report(c) > 1 THEN Flush(Report(c) - 1) ELSE <<>>) \o Tail(@)]
    /\ UNCHANGED <<reports, txq, rxq, idq, line, tasks, imu, ok, sensor,
                   history>>

\* BNO08x_wait_for_data, once a packet came: its verdict, then both bits cleared.
WaitVerdict(c) ==
    /\ Next1(c, "valid")
    /\ \/ bits \cap {"valid", "invalid"} # {} /\ Continue(c) /\ UNCHANGED ok
       \/ /\ bits \cap {"valid", "invalid"} = {} /\ Quiet
          /\ Result(c, FALSE)
          /\ todo' = [todo EXCEPT ![c] = Drop(@, 2)]
    /\ UNCHANGED <<device, line, tasks, imu, sensor, history>>

Judge(c) ==
    /\ Next1(c, "judge")
    /\ Result(c, "valid" \in bits)
    /\ Continue(c)
    /\ UNCHANGED <<device, line, tasks, imu, sensor, history>>

Wipe(c) ==
    /\ Next1(c, "wipe")
    /\ bits' = bits \ {"valid", "invalid"}
    /\ Decide(c, ok[c])
    /\ UNCHANGED <<reports, txq, rxq, idq, line, tasks, imu, sensor, history>>

\* A slip: the bits of the reports survive the reset.
ClearReportsNot(c) ==
    /\ Next1(c, "clear")
    /\ Continue(c)
    /\ UNCHANGED <<device, line, tasks, imu, ok, sensor, history>>

ClearReports(c) ==
    /\ Next1(c, "clear")
    /\ reports' = {}
    /\ Continue(c)
    /\ UNCHANGED <<bits, txq, rxq, idq, line, tasks, imu, ok, sensor, history>>

ResetPin(c) ==
    /\ \/ Next1(c, "low") /\ hub' = "low" /\ hubOut' = <<>>
       \/ Next1(c, "high") /\ hub' = "up" /\ hubOut' = Boot
    /\ hubReports' = {} /\ low' = FALSE
    /\ Continue(c)
    /\ UNCHANGED <<device, line, tasks, imu, ok, history>>

\* BNO08x_queue_packet: a packet for which there is no room is dropped.
QueuePacket(c) ==
    /\ Next1(c, "queue")
    /\ txq' = IF txq = <<>> THEN <<<<todo[c][1][2], Report(c)>>>> ELSE txq
    /\ Continue(c)
    /\ UNCHANGED <<bits, reports, rxq, idq, line, tasks, imu, ok, sensor,
                   history>>

\* The reset reason is parsed later than its packet is received.
TakeReason(c) ==
    /\ Next1(c, "reason")
    /\ idq \/ Quiet
    /\ Result(c, idq)
    /\ idq' = FALSE
    /\ Continue(c)
    /\ UNCHANGED <<bits, reports, txq, rxq, line, tasks, imu, sensor, history>>

\* BNO08x_initialize forgets the tasks it has created before and creates new ones.
Forget(c) ==
    /\ Next1(c, "forget")
    /\ handle' = 0
    /\ Continue(c)
    /\ UNCHANGED <<device, line, gens, proc, imu, ok, sensor, history>>

Spawn(c) ==
    /\ Next1(c, "spawn") /\ gens < MaxGens
    /\ gens' = gens + 1
    /\ handle' = gens + 1
    /\ looping' = looping \cup {gens + 1}
    /\ Continue(c)
    /\ UNCHANGED <<device, intr, notify, proc, imu, ok, sensor, history>>

\* bno08x_config after BNO08x_initialize.
CheckInit(c) ==
    /\ Next1(c, "check")
    /\ IF ok[c]
       THEN Continue(c) /\ UNCHANGED status
       ELSE /\ status' = "fail"
            /\ todo' = [todo EXCEPT ![c] = Drop(@, 2)]
    /\ UNCHANGED <<device, line, tasks, enabled, ok, sensor, history>>

EnableNext(c) ==
    /\ Next1(c, "enable")
    /\ todo' = [todo EXCEPT ![c] =
         enable[Report(c)]
           \o <<IF Report(c) < NReports THEN At("enable", Report(c) + 1) ELSE Do("configured")>>
           \o Tail(@)]
    /\ UNCHANGED <<device, line, tasks, imu, ok, sensor, history>>

SetReport(c) ==
    /\ Next1(c, "set")
    /\ reports' = IF ok[c] THEN reports \cup {Report(c)} ELSE reports
    /\ Continue(c)
    /\ UNCHANGED <<bits, txq, rxq, idq, line, tasks, imu, ok, sensor, history>>

Unmask(c) ==
    /\ Next1(c, "unmask")
    /\ intr' = (intr \/ (ok[c] /\ reports \subseteq {Report(c)}))
    /\ Continue(c)
    /\ UNCHANGED <<device, notify, looping, tasks, imu, ok, sensor, history>>

UnsetReport(c) ==
    /\ Next1(c, "unset")
    /\ reports' = IF ok[c] THEN reports \ {Report(c)} ELSE reports
    /\ Continue(c)
    /\ UNCHANGED <<bits, txq, rxq, idq, line, tasks, imu, ok, sensor, history>>

Mask(c) ==
    /\ Next1(c, "mask")
    /\ intr' = (intr /\ ~(ok[c] /\ reports = {}))
    /\ Continue(c)
    /\ UNCHANGED <<device, notify, looping, tasks, imu, ok, sensor, history>>

Configured(c) ==
    /\ Next1(c, "configured")
    /\ enabled' = TRUE
    /\ Result(c, TRUE)
    /\ Continue(c)
    /\ UNCHANGED <<device, line, tasks, status, sensor, history>>

\* The end of bno08x_toggle: bno08x_config returns an error code, which is
\* taken for its success.
EndToggle(c) ==
    /\ \/ Next1(c, "on") /\ enabled' = (enabled \/ ~ok[c])
       \/ Next1(c, "off") /\ enabled' = (enabled /\ ~ok[c])
    /\ Continue(c)
    /\ Result(c, TRUE)
    /\ UNCHANGED <<device, line, tasks, status, sensor, history>>

EndBoot(c) ==
    /\ Next1(c, "boot")
    /\ booted' = TRUE
    /\ Continue(c)
    /\ Result(c, TRUE)
    /\ UNCHANGED <<device, line, tasks, imu, sensor, calls, faults, clean>>

\* BNO08x_data_available before it waits.
DataAvailable(c) ==
    /\ Next1(c, "avail")
    /\ todo' = [todo EXCEPT ![c] = IF reports = {} THEN <<>> ELSE Tail(@)]
    /\ UNCHANGED <<device, line, tasks, imu, ok, sensor, history>>

-----------------------------------------------------------------------------
(* The users of the driver, and the specification.                         *)

Idle(c) == todo[c] = <<>>

StartRead(c) ==
    /\ booted /\ Idle(c)
    /\ todo' = [todo EXCEPT ![c] = read]
    /\ UNCHANGED <<device, line, tasks, imu, ok, sensor, history>>

\* bno08x_toggle does nothing if the flag says so.
StartCall(c) ==
    /\ booted /\ Idle(c) /\ calls < MaxCalls
    /\ \/ ~enabled /\ gens < MaxGens /\ todo' = [todo EXCEPT ![c] = toggle_on]
       \/ enabled /\ todo' = [todo EXCEPT ![c] = toggle_off]
       \/ \E p \in AdminCalls : todo' = [todo EXCEPT ![c] = p]
    /\ calls' = calls + 1
    /\ clean' = (clean /\ \A a \in Admins : Idle(a))
    /\ UNCHANGED <<device, line, tasks, imu, ok, sensor, booted, faults>>

CallerStep(c) ==
    \/ Listen(c) \/ WaitTx(c) \/ WaitRx(c) \/ FlushRx(c)
    \/ WaitVerdict(c) \/ Judge(c) \/ Wipe(c) \/ ClearReports(c)
    \/ ResetPin(c) \/ QueuePacket(c) \/ TakeReason(c)
    \/ Forget(c) \/ Spawn(c) \/ CheckInit(c) \/ EnableNext(c) \/ SetReport(c)
    \/ Unmask(c) \/ UnsetReport(c) \/ Mask(c) \/ Configured(c) \/ EndToggle(c)
    \/ EndBoot(c) \/ DataAvailable(c)

SpiTask(g) == SpiLoop(g) \/ SpiSend(g) \/ SpiReceive(g)

\* One of the admins is the main task, which configures the sensor at boot.
Init ==
    /\ bits = {} /\ reports = {}
    /\ txq = <<>> /\ rxq = <<>> /\ idq = FALSE
    /\ intr = FALSE /\ notify = {} /\ looping = {}
    /\ gens = 0 /\ handle = 0 /\ proc = [g \in Gens |-> <<>>]
    /\ status = "ready" /\ enabled = FALSE
    /\ \E m \in Admins :
         todo = [c \in Callers |-> IF c = m THEN boot ELSE <<>>]
    /\ ok = [c \in Callers |-> TRUE]
    /\ hub = "up" /\ hubOut = <<>> /\ hubReports = {} /\ low = FALSE
    /\ booted = FALSE /\ calls = 0 /\ faults = 0
    /\ clean = TRUE

Next ==
    \/ HubReport \/ HubFault \/ HubAssert \/ HubRetry
    \/ \E g \in Gens : SpiTask(g) \/ DataParse(g)
    \/ \E c \in Readers : StartRead(c)
    \/ \E c \in Admins : StartCall(c)
    \/ \E c \in Callers : CallerStep(c)

Spec == Init /\ [][Next]_vars

\* Tasks that can go on do; a wait ends by its bit or by its time; a sensor with
\* a packet asserts its line, again and again until it is served.
Fairness ==
    /\ WF_vars((HubAssert \/ HubRetry) /\ hubOut # <<>>)
    /\ \A g \in Gens : WF_vars(SpiTask(g)) /\ WF_vars(DataParse(g))
    /\ \A c \in Callers : SF_vars(CallerStep(c))

FairSpec == Spec /\ Fairness

-----------------------------------------------------------------------------
(* Properties.                                                             *)

\* Every variable keeps its type; no queue holds more than one item.
TypeOK ==
    /\ bits \subseteq Bits /\ reports \subseteq Reports
    /\ txq \in {<<>>} \cup {<<p>> : p \in Commands \X (0 .. NReports)}
    /\ rxq \in {<<>>} \cup {<<p>> : p \in Answers}
    /\ idq \in BOOLEAN
    /\ intr \in BOOLEAN /\ notify \subseteq Gens /\ looping \subseteq Gens
    /\ gens \in 0 .. MaxGens /\ handle \in 0 .. MaxGens
    /\ proc \in [Gens -> {<<>>} \cup {<<p>> : p \in Answers}]
    /\ status \in {"ready", "fail"} /\ enabled \in BOOLEAN
    /\ todo \in [Callers -> Seq(Step)]
    /\ ok \in [Callers -> BOOLEAN]
    /\ hub \in {"up", "asleep", "low"} /\ hubReports \subseteq Reports
    /\ hubOut \in Seq(Answers) /\ low \in BOOLEAN
    /\ booted \in BOOLEAN /\ calls \in 0 .. MaxCalls /\ faults \in 0 .. MaxFaults
    /\ clean \in BOOLEAN

\* A report whose bit is set is one the sensor was told to send, as long as no
\* command has timed out and no two calls but reads have overlapped: a bit is
\* not set for a command that was dropped, nor does one survive a reset.
ReportsTrue ==
    clean => \A r \in reports \ hubReports :
                \E c \in Admins : \E i \in DOMAIN todo[c] : todo[c][i] = At("unset", r)

\* While a report is enabled, what the sensor has to send is fetched, although
\* the interrupt disables itself and edges are lost until it is enabled again.
ReportsAreFetched ==
    (hubOut # <<>> /\ reports # {}) ~> (hubOut = <<>> \/ reports = {} \/ handle = 0)

\* The boot, the reads, the toggle and the requests return, although callers
\* consume each other's bits and what they wait for may never come.
CallersReturn == \A c \in Callers : todo[c] # <<>> ~> todo[c] = <<>>
=============================================================================
