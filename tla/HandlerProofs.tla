---------------------------- MODULE HandlerProofs ----------------------------
(***************************************************************************)
(* Proofs about the handlers the system loop sets to work: the Wi-Fi       *)
(* handler (Wifi), time synchronisation and discovery (Sync), and the LED  *)
(* (Led), each for all values of its constants.                            *)
(*                                                                         *)
(* Wi-Fi: OneReconnectPerToken is inductive; RetryBudget follows from the  *)
(* sum of retries left and connects issued; WaiterIsServed needs to know   *)
(* where the driver is in each phase of the reconnect handler.             *)
(*                                                                         *)
(* Time and discovery: SuccessIsAnswered follows from where the trace of   *)
(* an answer is in each phase of the handler (AnswerInv), OneController    *)
(* from what each phase of discovery has written (ControllerInv).          *)
(*                                                                         *)
(* LED: LedShows needs to know how far the one caller in the engine has    *)
(* come (EngineInv).  The recursive definition of the sequence code is     *)
(* unfolded by an explicit solution, so that no induction is needed.       *)
(***************************************************************************)
EXTENDS Wifi, Sync, Led, FiniteSetTheorems, TLAPS

-----------------------------------------------------------------------------
(* The Wi-Fi link.                                                         *)

EventNames == {"STA_START", "STA_DISCONNECTED", "GOT_IP"}

\* The parts of TypeOK: the queue, the sets of bits, the flags, the rest.
EventsType == events \in Seq(EventNames)

BitsType ==
    /\ sysBits \in SUBSET WifiBits /\ taken \in SUBSET WifiBits
    /\ wbits \in SUBSET {"CONNECTED", "FAIL"}

FlagsType ==
    /\ reconnecting \in BOOLEAN /\ connected \in BOOLEAN
    /\ started \in BOOLEAN /\ ap \in BOOLEAN

ScalarType ==
    /\ queued \in Nat
    /\ lpc \in {"wait", "check", "post"}
    /\ hpc \in {"idle", "stop", "left", "announce", "prepare", "clear", "start",
                "waiting", "up", "ok", "failed", "finish"}
    /\ used \in Credentials
    /\ retry \in 0 .. MaxRetry
    /\ ppc \in {"idle", "writing", "notify"} /\ creds \in Credentials
    /\ link \in {"down", "connecting", "up"}
    /\ attempts \in Nat /\ flips \in Nat /\ updates \in Nat

(* The driver's events are the three that wifi_event_handler knows.        *)
LEMMA EventsTyped == Spec => []EventsType
<1> USE DEF EventsType
<1>1. Init => EventsType
    BY DEF Init, EventNames
<1>2. EventsType /\ [Next]_vars => EventsType'
  <2> SUFFICES ASSUME EventsType, [Next]_vars PROVE EventsType'
      OBVIOUS
  <2>1. /\ Append(events, "STA_START") \in Seq(EventNames)
        /\ Append(events, "STA_DISCONNECTED") \in Seq(EventNames)
        /\ Append(events, "GOT_IP") \in Seq(EventNames)
      BY DEF EventNames
  <2>2. events # <<>> => Tail(events) \in Seq(EventNames)
      OBVIOUS
  <2>3. CASE Driver
      BY <2>1, <2>3 DEF Driver, DriverAssociates, DriverLosesLink, DriverPosts
  <2>4. CASE OnEvent
      BY <2>2, <2>4
      DEF OnEvent, OnStaStart, OnDisconnectedRetry, OnDisconnectedFail, OnGotIp, Event
  <2>5. CASE HandlerDisconnect \/ HandlerStop
      BY <2>1, <2>5 DEF HandlerDisconnect, HandlerStop, LinkDown, DriverPosts
  <2>6. CASE HandlerStart
      BY <2>1, <2>6 DEF HandlerStart, DriverPosts
  <2>7. ASSUME \/ Loop \/ HandlerLeaves \/ HandlerAnnounces \/ HandlerPrepare
               \/ HandlerClearBits \/ HandlerConnected \/ HandlerRaises
               \/ HandlerFailed \/ HandlerReport \/ HandlerFinish
               \/ Provision \/ ApFlips \/ UNCHANGED vars
        PROVE  events' = events
      BY <2>7
      DEF Loop, LoopTake, LoopIgnore, LoopClaim, LoopPost, HandlerLeaves,
          HandlerAnnounces, HandlerPrepare, HandlerClearBits, HandlerConnected,
          HandlerRaises, HandlerFailed, HandlerReport,
          HandlerFinish, Provision, ProvisionOverwrite, ProvisionStore,
          ProvisionNotify, ApFlips, vars, driver
  <2> QED BY <2>3, <2>4, <2>5, <2>6, <2>7 DEF Next, Handler
<1> QED BY <1>1, <1>2, PTL DEF Spec

(* The event groups hold only their own bits.                              *)
LEMMA BitsTyped == Spec => []BitsType
<1> USE DEF BitsType, WifiBits
<1>1. Init => BitsType
    BY DEF Init
<1>2. BitsType /\ [Next]_vars => BitsType'
  <2> SUFFICES ASSUME BitsType, [Next]_vars PROVE BitsType'
      OBVIOUS
  <2>1. CASE Loop
    <3>1. CASE LoopTake
        BY <3>1 DEF LoopTake
    <3>2. CASE LoopIgnore
        BY <3>2 DEF LoopIgnore
    <3>3. CASE LoopClaim
        BY <3>3 DEF LoopClaim
    <3>4. CASE LoopPost
        BY <3>4 DEF LoopPost
    <3> QED BY <2>1, <3>1, <3>2, <3>3, <3>4 DEF Loop
  <2>2. CASE OnEvent
    <3>1. CASE OnStaStart \/ OnDisconnectedRetry
        BY <3>1 DEF OnStaStart, OnDisconnectedRetry, loop
    <3>2. CASE OnDisconnectedFail
        BY <3>2 DEF OnDisconnectedFail, loop
    <3>3. CASE OnGotIp
        BY <3>3 DEF OnGotIp, loop
    <3> QED BY <2>2, <3>1, <3>2, <3>3 DEF OnEvent
  <2>3. CASE Handler
    <3>1. CASE HandlerAnnounces
        BY <3>1 DEF HandlerAnnounces, HandlerStep
    <3>2. CASE HandlerClearBits
        BY <3>2 DEF HandlerClearBits, HandlerStep
    <3>3. CASE HandlerRaises
        BY <3>3 DEF HandlerRaises, HandlerStep
    <3>4. CASE HandlerReport
        BY <3>4 DEF HandlerReport, HandlerStep
    <3>5. CASE \/ HandlerDisconnect \/ HandlerStop \/ HandlerLeaves \/ HandlerPrepare
               \/ HandlerStart \/ HandlerConnected \/ HandlerFailed \/ HandlerFinish
        BY <3>5
        DEF HandlerDisconnect, HandlerStop, HandlerLeaves, HandlerConnected, HandlerPrepare, HandlerStart, HandlerFailed, HandlerFinish, HandlerStep
    <3> QED BY <2>3, <3>1, <3>2, <3>3, <3>4, <3>5 DEF Handler
  <2>4. CASE ProvisionNotify
      BY <2>4 DEF ProvisionNotify, loop
  <2>5. CASE Driver \/ ProvisionOverwrite \/ ApFlips \/ UNCHANGED vars
      BY <2>5
      DEF Driver, DriverAssociates, DriverLosesLink, ProvisionOverwrite,
          ApFlips, vars, loop
  <2>6. ASSUME NEW c \in {"good", "bad"}, ProvisionStore(c) PROVE BitsType'
      BY <2>6 DEF ProvisionStore, loop
  <2> QED BY <2>1, <2>2, <2>3, <2>4, <2>5, <2>6 DEF Next, Provision
<1> QED BY <1>1, <1>2, PTL DEF Spec

(* The flags are Boolean.                                                  *)
LEMMA FlagsTyped == Spec => []FlagsType
<1> USE DEF FlagsType
<1>1. Init => FlagsType
    BY Zenon DEF Init
<1>2. FlagsType /\ [Next]_vars => FlagsType'
  <2> SUFFICES ASSUME FlagsType, [Next]_vars PROVE FlagsType'
      OBVIOUS
  <2> USE DEF driver, handler, environment
  <2>1. CASE Loop
      BY Zenon, <2>1 DEF Loop, LoopTake, LoopIgnore, LoopClaim, LoopPost
  <2>2. CASE Driver \/ OnEvent
      BY Zenon, <2>2
      DEF Driver, DriverAssociates, DriverLosesLink, OnEvent, OnStaStart,
          OnDisconnectedRetry, OnDisconnectedFail, OnGotIp
  <2>3. CASE Handler
      BY Zenon, <2>3
      DEF Handler, HandlerStep, HandlerDisconnect, HandlerStop, HandlerLeaves,
          HandlerAnnounces, HandlerPrepare, HandlerClearBits, HandlerStart,
          HandlerConnected, HandlerRaises, HandlerFailed,
          HandlerReport, HandlerFinish
  <2>4. CASE ProvisionOverwrite \/ ProvisionNotify \/ ApFlips
      BY Zenon, <2>4 DEF ProvisionOverwrite, ProvisionNotify, ApFlips
  <2>5. ASSUME NEW c \in {"good", "bad"}, ProvisionStore(c) PROVE FlagsType'
      BY Zenon, <2>5 DEF ProvisionStore
  <2>6. CASE UNCHANGED vars
      BY Zenon, <2>6 DEF vars
  <2> QED BY <2>1, <2>2, <2>3, <2>4, <2>5, <2>6 DEF Next, Provision
<1> QED BY <1>1, <1>2, PTL DEF Spec

(* The counters, the program counters and the driver's state.              *)
LEMMA ScalarsTyped == Spec => []ScalarType
<1> USE DEF ScalarType, Credentials, driver, handler, loop, environment
<1>1. Init => ScalarType
    BY ConstantsAssumption DEF Init
<1>2. ScalarType /\ [Next]_vars => ScalarType'
  <2> SUFFICES ASSUME ScalarType, [Next]_vars PROVE ScalarType'
      OBVIOUS
  <2>1. CASE Loop
      BY <2>1 DEF Loop, LoopTake, LoopIgnore, LoopClaim, LoopPost
  <2>2. CASE Driver
      BY <2>2 DEF Driver, DriverAssociates, DriverLosesLink
  <2>3. CASE OnStaStart
      BY <2>3, ConstantsAssumption DEF OnStaStart
  <2>4. CASE OnDisconnectedRetry
      BY <2>4, ConstantsAssumption DEF OnDisconnectedRetry, EspConnect
  <2>5. CASE OnDisconnectedFail \/ OnGotIp
      BY <2>5 DEF OnDisconnectedFail, OnGotIp
  <2>6. CASE Handler
    <3>1. CASE HandlerDisconnect \/ HandlerStop
        BY <3>1 DEF HandlerDisconnect, HandlerStop, LinkDown, HandlerStep
    <3>2. CASE \/ HandlerLeaves \/ HandlerAnnounces \/ HandlerPrepare
               \/ HandlerClearBits \/ HandlerStart \/ HandlerFinish
        BY <3>2
        DEF HandlerLeaves, HandlerAnnounces, HandlerPrepare, HandlerClearBits, HandlerStart, HandlerFinish, HandlerStep
    <3>3. CASE HandlerConnected \/ HandlerRaises \/ HandlerFailed
        BY <3>3 DEF HandlerConnected, HandlerRaises, HandlerFailed, HandlerStep
    <3>4. CASE HandlerReport
        BY <3>4 DEF HandlerReport, HandlerStep
    <3> QED BY <2>6, <3>1, <3>2, <3>3, <3>4 DEF Handler
  <2>7. CASE ProvisionOverwrite \/ ProvisionNotify \/ ApFlips
      BY <2>7 DEF ProvisionOverwrite, ProvisionNotify, ApFlips
  <2>8. ASSUME NEW c \in {"good", "bad"}, ProvisionStore(c) PROVE ScalarType'
      BY <2>8 DEF ProvisionStore
  <2>9. CASE UNCHANGED vars
      BY <2>9 DEF vars
  <2> QED
      BY <2>1, <2>2, <2>3, <2>4, <2>5, <2>6, <2>7, <2>8, <2>9
      DEF Next, OnEvent, Provision
<1> QED BY <1>1, <1>2, PTL DEF Spec

(* Type correctness: in particular s_wifi_retry_num never drops below 0.   *)
THEOREM WifiTypeCorrect == Spec => []TypeOK
<1>1. EventsType /\ BitsType /\ FlagsType /\ ScalarType => TypeOK
    BY DEF EventsType, EventNames, BitsType, FlagsType, ScalarType, TypeOK
<1> QED BY <1>1, EventsTyped, BitsTyped, FlagsTyped, ScalarsTyped, PTL

(* EV_TASK_WIFI_RECONNECT is an exact token: system_loop.c never has two   *)
(* reconnects under way, and never holds the token without one.            *)
THEOREM TokenIsExact == Spec => []OneReconnectPerToken
<1> USE DEF OneReconnectPerToken, Outstanding
<1>1. Init => OneReconnectPerToken
    BY DEF Init
<1>2. TypeOK /\ OneReconnectPerToken /\ [Next]_vars => OneReconnectPerToken'
  <2> SUFFICES ASSUME TypeOK, OneReconnectPerToken, [Next]_vars
               PROVE  OneReconnectPerToken'
      OBVIOUS
  <2>1. /\ queued \in Nat /\ reconnecting \in BOOLEAN
      BY DEF TypeOK
  <2>2. CASE Loop
      BY <2>1, <2>2
      DEF Loop, LoopTake, LoopIgnore, LoopClaim, LoopPost, handler
  <2>3. CASE Handler
    <3>1. CASE HandlerDisconnect
        BY <2>1, <3>1 DEF HandlerDisconnect, HandlerStep
    <3>2. CASE \/ HandlerStop \/ HandlerLeaves \/ HandlerAnnounces \/ HandlerPrepare
               \/ HandlerClearBits \/ HandlerStart
        BY <3>2
        DEF HandlerStop, HandlerLeaves, HandlerAnnounces, HandlerPrepare,
            HandlerClearBits, HandlerStart, HandlerStep
    <3>3. CASE HandlerConnected \/ HandlerRaises \/ HandlerFailed \/ HandlerReport
        BY <3>3
        DEF HandlerConnected, HandlerRaises, HandlerFailed, HandlerReport, HandlerStep
    <3>4. CASE HandlerFinish
        BY <2>1, <3>4 DEF HandlerFinish, HandlerStep
    <3> QED BY <2>3, <3>1, <3>2, <3>3, <3>4 DEF Handler
  <2>4. ASSUME Driver \/ OnEvent \/ Provision \/ ApFlips \/ UNCHANGED vars
        PROVE  UNCHANGED <<queued, lpc, hpc, reconnecting>>
      BY <2>4
      DEF Driver, DriverAssociates, DriverLosesLink, OnEvent, OnStaStart,
          OnDisconnectedRetry, OnDisconnectedFail, OnGotIp, Provision,
          ProvisionOverwrite, ProvisionStore, ProvisionNotify, ApFlips,
          vars, loop, handler
  <2> QED BY <2>2, <2>3, <2>4 DEF Next
<1> QED BY <1>1, <1>2, WifiTypeCorrect, PTL DEF Spec

\* Every connect costs a retry.
BudgetInv == attempts + retry <= MaxRetry + 1

(* However late the events of an earlier start arrive, wifi_event_handler  *)
(* issues at most CONFIG_WIFI_MAX_RETRY + 1 connects between two starts.   *)
THEOREM RetriesAreBounded == Spec => []RetryBudget
<1> USE DEF BudgetInv
<1>1. Init => BudgetInv
    BY ConstantsAssumption DEF Init
<1>2. TypeOK /\ BudgetInv /\ [Next]_vars => BudgetInv'
  <2> SUFFICES ASSUME TypeOK, BudgetInv, [Next]_vars PROVE BudgetInv'
      OBVIOUS
  <2>1. attempts \in Nat /\ retry \in Nat
      BY ConstantsAssumption DEF TypeOK
  <2>2. CASE OnStaStart
      BY <2>2, ConstantsAssumption DEF OnStaStart
  <2>3. CASE OnDisconnectedRetry
      BY <2>1, <2>3, ConstantsAssumption DEF OnDisconnectedRetry, EspConnect
  <2>4. ASSUME \/ Loop \/ Driver \/ OnDisconnectedFail \/ OnGotIp
               \/ Handler \/ Provision \/ ApFlips \/ UNCHANGED vars
        PROVE  UNCHANGED <<attempts, retry>>
      BY <2>4
      DEF Loop, LoopTake, LoopIgnore, LoopClaim, LoopPost, Driver,
          DriverAssociates, DriverLosesLink, OnDisconnectedFail, OnGotIp,
          Handler, HandlerDisconnect, HandlerStop, LinkDown, HandlerLeaves,
          HandlerAnnounces, HandlerPrepare, HandlerClearBits, HandlerStart,
          HandlerConnected, HandlerRaises, HandlerFailed, HandlerReport,
          HandlerFinish, HandlerStep, Provision, ProvisionOverwrite,
          ProvisionStore, ProvisionNotify, ApFlips, vars, driver
  <2> QED BY <2>2, <2>3, <2>4 DEF Next, OnEvent
<1>3. TypeOK /\ BudgetInv => RetryBudget
    BY ConstantsAssumption DEF TypeOK, RetryBudget
<1> QED BY <1>1, <1>2, <1>3, WifiTypeCorrect, PTL DEF Spec
-----------------------------------------------------------------------------
(* The wait of sys_wifi_try_connect.                                       *)

Pending(e) == \E k \in 1 .. Len(events) : events[k] = e

\* The driver is down until the handler starts it, and while the handler
\* waits with no outcome the driver's state promises an event.
ServiceInv ==
    /\ hpc \in {"left", "announce", "prepare", "clear", "start"} => ~started /\ link = "down"
    /\ hpc = "waiting" => started
    /\ hpc = "waiting" /\ wbits = {} /\ link = "down" => events # <<>>
    /\ hpc = "waiting" /\ wbits = {} /\ link = "up" => Pending("GOT_IP")

(* An event that was just posted is pending, and an event other than the   *)
(* one taken stays pending.                                                *)
LEMMA PendingEvents ==
    ASSUME EventsType
    PROVE  /\ \A e \in EventNames :
                events' = Append(events, e) =>
                  /\ events' # <<>> /\ Pending(e)'
                  /\ Pending("GOT_IP") => Pending("GOT_IP")'
           /\ Pending("GOT_IP") => events # <<>>
           /\ events # <<>> /\ Head(events) # "GOT_IP" /\ events' = Tail(events)
                /\ Pending("GOT_IP") => Pending("GOT_IP")'
<1> USE DEF EventsType, Pending
<1>1. ASSUME NEW e \in EventNames, events' = Append(events, e)
      PROVE  /\ events' # <<>> /\ Pending(e)'
             /\ Pending("GOT_IP") => Pending("GOT_IP")'
  <2>1. Len(events') = Len(events) + 1 /\ events'[Len(events) + 1] = e
        /\ \A k \in 1 .. Len(events) : events'[k] = events[k]
      BY <1>1
  <2>2. Len(events) \in Nat
      OBVIOUS
  <2> QED BY <1>1, <2>1, <2>2
<1>2. Pending("GOT_IP") => events # <<>>
    OBVIOUS
<1>3. ASSUME events # <<>>, Head(events) # "GOT_IP", events' = Tail(events),
             NEW k \in 1 .. Len(events), events[k] = "GOT_IP"
      PROVE  Pending("GOT_IP")'
  <2>1. k # 1 /\ Len(events') = Len(events) - 1 /\ Len(events) \in Nat
      BY <1>3
  <2>2. k - 1 \in 1 .. Len(events') /\ events'[k - 1] = events[k]
      BY <1>3, <2>1
  <2> QED BY <1>3, <2>2
<1> QED BY <1>1, <1>2, <1>3

(* sys_wifi_try_connect, which waits with portMAX_DELAY, never waits for   *)
(* an outcome that nothing in the driver or its event queue would bring.   *)
THEOREM WaiterAlwaysServed == Spec => []WaiterIsServed
<1>1. Init => ServiceInv
    BY DEF Init, ServiceInv
<1>2. EventsType /\ BitsType /\ ScalarType /\ ServiceInv /\ [Next]_vars => ServiceInv'
  <2> SUFFICES ASSUME EventsType, BitsType, ScalarType, ServiceInv, [Next]_vars
               PROVE  ServiceInv'
      OBVIOUS
  <2> USE DEF ServiceInv, driver, handler
  <2>1. CASE Loop
      BY <2>1 DEF Loop, LoopTake, LoopIgnore, LoopClaim, LoopPost, Pending
  <2>2. CASE DriverAssociates
      BY <2>2, PendingEvents DEF DriverAssociates, DriverPosts, EventNames
  <2>3. CASE DriverLosesLink
      BY <2>3, PendingEvents DEF DriverLosesLink, DriverPosts, EventNames
  <2>4. CASE OnStaStart
      BY <2>4, PendingEvents DEF OnStaStart, Event, ScalarType
  <2>5. CASE OnDisconnectedRetry
      BY <2>5, PendingEvents DEF OnDisconnectedRetry, Event, EspConnect, ScalarType
  <2>6. CASE OnDisconnectedFail
      BY <2>6 DEF OnDisconnectedFail
  <2>7. CASE OnGotIp
      BY <2>7 DEF OnGotIp
  <2>8. CASE HandlerStart
      BY <2>8, PendingEvents DEF HandlerStart, DriverPosts, HandlerStep, EventNames
  <2>9. CASE \/ HandlerDisconnect \/ HandlerStop \/ HandlerLeaves \/ HandlerAnnounces
             \/ HandlerPrepare \/ HandlerClearBits
      BY <2>9
      DEF HandlerDisconnect, HandlerStop, LinkDown, HandlerLeaves,
          HandlerAnnounces, HandlerPrepare, HandlerClearBits, HandlerStep
  <2>10. CASE \/ HandlerConnected \/ HandlerRaises \/ HandlerFailed
              \/ HandlerReport \/ HandlerFinish
      BY <2>10
      DEF HandlerConnected, HandlerRaises, HandlerFailed, HandlerReport, HandlerFinish, HandlerStep
  <2>11. CASE Provision \/ ApFlips \/ UNCHANGED vars
      BY <2>11
      DEF Provision, ProvisionOverwrite, ProvisionStore, ProvisionNotify,
          ApFlips, vars, Pending
  <2> QED
      BY <2>1, <2>2, <2>3, <2>4, <2>5, <2>6, <2>7, <2>8, <2>9, <2>10, <2>11
      DEF Next, Driver, OnEvent, Handler
<1>3. EventsType /\ ScalarType /\ ServiceInv => WaiterIsServed
    BY PendingEvents DEF ServiceInv, ScalarType, WaiterIsServed
<1> QED BY <1>1, <1>2, <1>3, EventsTyped, BitsTyped, ScalarsTyped, PTL DEF Spec
-----------------------------------------------------------------------------
(* Time synchronisation and discovery.                                     *)

(* Where the time handler is while it is at work.                          *)
TimePlaces == {"poll", "stop", "log", "settle"}

(* The answer to a synchronisation is known by its status until the status *)
(* is read, and by the count of looks after that; between two runs of the  *)
(* handler the client is off and the status is reset.                      *)
AnswerInv ==
    /\ answered => callback \/ ntp_synced
    /\ sync_status = "COMPLETED" => answered
    /\ tpc = "poll" => n_retry < Timeout
    /\ tpc \in {"stop", "log", "settle"} /\ n_retry < Timeout => answered
    /\ tpc \notin {"poll", "stop"} => ~sntp
    /\ tpc \notin {"poll", "stop", "log"} => sync_status = "RESET"
    /\ tpc \notin TimePlaces /\ outcome = "synced" => answered /\ retries = 0

(* Discovery asks only until it has completed; what it writes down is the  *)
(* sender of the reply it has just received.                               *)
ControllerInv ==
    /\ tpc \in {"send", "recv", "data_host", "ntp_host", "complete"} => ~discovery_completed
    /\ tpc \in {"send", "recv", "data_host", "ntp_host", "complete", "dest"} => initialized
    /\ tpc \in {"data_host", "ntp_host", "complete", "dest"} => reply \in Controllers
    /\ tpc \in {"ntp_host", "complete", "dest"} => data_host = reply
    /\ tpc = "dest" => discovery_completed
    /\ discovery_completed => initialized /\ data_host \in Controllers
    /\ discovery_completed /\ tpc # "dest" => dest = data_host
    /\ cpc = "open" => discovery_completed
    /\ target # "none" => discovery_completed /\ target = data_host


(* The parts of TypeOK: the place, the two clients of the network, the     *)
(* hosts and the socket.                                                   *)
TimeType ==
    /\ retries \in 0..PrimaryMaxRetry + 1 /\ n_retry \in 0..Timeout
    /\ server \in Servers /\ sntp \in BOOLEAN /\ sync_status \in {"RESET", "COMPLETED"}
    /\ callback \in BOOLEAN /\ ntp_synced \in BOOLEAN
    /\ answered \in BOOLEAN /\ outcome \in {"none", "failed", "synced"}
    /\ good \subseteq Hosts /\ serverFlips \in 0..MaxFlips

PlaceType ==
    /\ tpc \in {"idle", "poll", "stop", "log", "settle", "keepalive", "send", "recv",
                "data_host", "ntp_host", "complete", "dest"}
    /\ tpc = "poll" => n_retry < Timeout
    /\ tpc \in {"data_host", "ntp_host", "complete", "dest"} => reply \in Controllers

HostType ==
    /\ discovery_completed \in BOOLEAN
    /\ ntp_host \in {"", "stored", "announced"} /\ data_host \in Controllers \cup {"stored"}
    /\ initialized \in BOOLEAN /\ dest \in Controllers \cup {"broadcast"}
    /\ reply \in Controllers \cup {"none", "stranger"} /\ inbox \in Seq(Packets) /\ asked \in BOOLEAN
    /\ cpc \in {"wait", "open"} /\ target \in Controllers \cup {"stored", "none"}

\* What the two handlers do not share.
TimeOnly == TimeHandler \/ SntpAnswer \/ Notify \/ (\E s \in Hosts : ServerFlips(s))
DiscoveryOnly == StartDiscovery \/ OpenFails \/ DiscoveryHandler \/ (\E p \in Packets : Deliver(p))

(* What the time handler, the SNTP client and the servers leave alone: all *)
(* that discovery and the data client keep.                                *)
LEMMA TimeOnlyFrame ==
    TimeOnly => UNCHANGED <<discovery_completed, hosts, socket, client>>
BY DEF TimeOnly, TimeHandler, SelectServer, PollDone, PollWait, SntpStop, LogStatus, Settle,
       SntpAnswer, Notify, ServerFlips, TimeStep

(* What discovery and its packets leave alone: all that the time handler   *)
(* and the data client keep.                                               *)
LEMMA DiscoveryOnlyFrame ==
    DiscoveryOnly => UNCHANGED <<sntpVars, ntp_synced, client, net>>
BY DEF DiscoveryOnly, StartDiscovery, OpenSocket, UseSocket, OpenFails, DiscoveryHandler,
       KeepAlive, SendRequest, SendFails, RecvFails, RecvJunk, RecvReply, StoreDataHost,
       StoreNtpHost, Complete, SetDestination, Deliver, DiscoveryStep

(* The data client's steps change nothing but its own state.               *)
LEMMA ClientFrame ==
    Client => UNCHANGED <<tpc, sntpVars, ntp_synced, discovery_completed, hosts, socket, net>>
BY DEF Client, ClientReady, ClientOpens, ClientOpenFails, ClientRestarts, ClientStep

(* Every step is one of the time handler and its client, of discovery, or  *)
(* of the data client.                                                     *)
LEMMA Parts ==
    [SyncNext]_syncVars => TimeOnly \/ DiscoveryOnly \/ Client \/ UNCHANGED syncVars
BY DEF SyncNext, Environment, TimeOnly, DiscoveryOnly

(* Every step keeps the types of the time handler.                         *)
LEMMA TimeTyped ==
    ASSUME TimeType, PlaceType, HostType, [SyncNext]_syncVars
    PROVE  TimeType'
<1> USE SyncAssumption DEF TimeType, PlaceType
<1>1. CASE TimeOnly
  <2>1. CASE SelectServer
    <3>1. Choices \subseteq Servers
        BY DEF Choices, Servers, Hosts, HostType
    <3>2. server' \in Servers /\ n_retry' \in 0 .. Timeout
        BY <2>1, <3>1 DEF SelectServer
    <3> QED BY <2>1, <3>2 DEF SelectServer, TimeStep, net
  <2>2. CASE PollWait
      BY <2>2 DEF PollWait, TimeStep, net
  <2>3. CASE PollDone \/ SntpStop \/ LogStatus
      BY <2>3 DEF PollDone, SntpStop, LogStatus, TimeStep, net
  <2>4. CASE Settle
      BY <2>4 DEF Settle, TimeStep, net
  <2>5. CASE SntpAnswer \/ Notify
      BY <2>5 DEF SntpAnswer, Notify, TimeStep, net
  <2>6. ASSUME NEW s \in Hosts, ServerFlips(s) PROVE TimeType'
      BY <2>6 DEF ServerFlips, sntpVars
  <2> QED BY <1>1, <2>1, <2>2, <2>3, <2>4, <2>5, <2>6 DEF TimeOnly, TimeHandler
<1>2. CASE DiscoveryOnly
    BY <1>2, DiscoveryOnlyFrame DEF sntpVars, net
<1>3. CASE Client
    BY <1>3, ClientFrame DEF sntpVars, net
<1>4. CASE UNCHANGED syncVars
    BY <1>4 DEF syncVars, sntpVars, net
<1> QED BY <1>1, <1>2, <1>3, <1>4, Parts

(* Every step keeps the place of the handler that runs, and what is        *)
(* certain there.                                                          *)
LEMMA PlaceTyped ==
    ASSUME TimeType, PlaceType, HostType, [SyncNext]_syncVars
    PROVE  PlaceType'
<1> USE SyncAssumption DEF TimeType, PlaceType
<1>1. CASE TimeOnly
  <2>1. reply' = reply
      BY <1>1, TimeOnlyFrame DEF socket
  <2> QED BY <1>1, <2>1
      DEF TimeOnly, TimeHandler, SelectServer, PollDone, PollWait, SntpStop, LogStatus, Settle,
          SntpAnswer, Notify, ServerFlips, TimeStep, Go, sntpVars
<1>2. CASE DiscoveryOnly
  <2>1. n_retry' = n_retry
      BY <1>2, DiscoveryOnlyFrame DEF sntpVars
  <2>2. CASE StartDiscovery \/ OpenFails
      BY <2>1, <2>2 DEF StartDiscovery, OpenSocket, UseSocket, OpenFails, Go, socket
  <2>3. CASE DiscoveryHandler
      BY <2>1, <2>3 DEF DiscoveryHandler,
       KeepAlive, SendRequest, SendFails, RecvFails, RecvJunk, RecvReply, StoreDataHost,
       StoreNtpHost, Complete, SetDestination, Go, socket
  <2>4. ASSUME NEW p \in Packets, Deliver(p) PROVE PlaceType'
      BY <2>1, <2>4 DEF Deliver
  <2> QED BY <1>2, <2>2, <2>3, <2>4 DEF DiscoveryOnly
<1>3. CASE Client
    BY <1>3, ClientFrame DEF sntpVars, socket
<1>4. CASE UNCHANGED syncVars
    BY <1>4 DEF syncVars, sntpVars, socket
<1> QED BY <1>1, <1>2, <1>3, <1>4, Parts

(* Every step keeps the types of discovery and of the data client.         *)
LEMMA HostTyped ==
    ASSUME PlaceType, HostType, [SyncNext]_syncVars
    PROVE  HostType'
<1> USE SyncAssumption DEF HostType
<1>1. CASE TimeOnly
    BY <1>1, TimeOnlyFrame DEF hosts, socket, client
<1>2. CASE DiscoveryOnly
  <2>1. UNCHANGED client
      BY <1>2, DiscoveryOnlyFrame
  <2> USE <2>1 DEF client
  <2>2. CASE StartDiscovery \/ OpenFails
      BY <2>2 DEF StartDiscovery, OpenSocket, UseSocket, OpenFails, hosts, socket
  <2>3. CASE KeepAlive \/ SendRequest \/ SendFails \/ RecvFails
      BY <2>3 DEF KeepAlive, SendRequest, SendFails, RecvFails, hosts, socket
  <2>4. CASE RecvJunk \/ RecvReply
    <3>1. inbox # <<>> /\ inbox' = Tail(inbox)
        BY <2>4 DEF RecvJunk, RecvReply
    <3> HIDE DEF Packets
    <3>2. inbox \in Seq(Packets)
        OBVIOUS
    <3>4. Tail(inbox) \in Seq(Packets)
        BY ONLY <3>1, <3>2
    <3>5. inbox' \in Seq(Packets)
        BY <3>1, <3>4
    <3>3. reply' \in Controllers \cup {"none", "stranger"}
        BY <2>4 DEF RecvJunk, RecvReply
    <3> QED BY <2>4, <3>5, <3>3 DEF RecvJunk, RecvReply, hosts
  <2>5. CASE StoreDataHost \/ StoreNtpHost
      BY <2>5 DEF StoreDataHost, StoreNtpHost, Go, socket, PlaceType
  <2>8. CASE Complete \/ SetDestination
      BY <2>8 DEF Complete, SetDestination, Go, hosts, socket, PlaceType
  <2>6. ASSUME NEW p \in Packets, Deliver(p) PROVE HostType'
    <3>1. inbox' = Append(inbox, p) /\ inbox \in Seq(Packets)
        BY <2>6 DEF Deliver
    <3>2. inbox' \in Seq(Packets)
        BY ONLY <3>1, <2>6
    <3> QED BY <2>6, <3>2 DEF Deliver, hosts
  <2> QED BY <1>2, <2>2, <2>3, <2>4, <2>5, <2>6, <2>8 DEF DiscoveryOnly, DiscoveryHandler
<1>3. CASE Client
  <2>1. UNCHANGED <<discovery_completed, hosts, socket>>
      BY <1>3, ClientFrame
  <2> QED BY <1>3, <2>1 DEF Client, ClientReady, ClientOpens, ClientOpenFails, ClientRestarts, hosts, socket
<1>4. CASE UNCHANGED syncVars
    BY <1>4 DEF syncVars, hosts, socket, client
<1> QED BY <1>1, <1>2, <1>3, <1>4, Parts

(* AnswerInv is inductive.                                                 *)
LEMMA AnswerStep ==
    ASSUME TimeType, PlaceType, AnswerInv, [SyncNext]_syncVars
    PROVE  AnswerInv'
<1> USE SyncAssumption DEF TimeType, PlaceType, AnswerInv, TimePlaces
<1>1. CASE TimeOnly
  <2> USE DEF Go, TimeStep
  <2>1. CASE SelectServer
      BY <2>1 DEF SelectServer
  <2>2. CASE PollWait
      BY <2>2 DEF PollWait
  <2>3. CASE PollDone \/ SntpStop \/ LogStatus
      BY <2>3 DEF PollDone, SntpStop, LogStatus
  <2>4. CASE Settle
      BY <2>4 DEF Settle
  <2>5. CASE SntpAnswer \/ Notify
      BY <2>5 DEF SntpAnswer, Notify
  <2>6. ASSUME NEW s \in Hosts, ServerFlips(s) PROVE AnswerInv'
      BY <2>6 DEF ServerFlips, sntpVars
  <2> QED BY <1>1, <2>1, <2>2, <2>3, <2>4, <2>5, <2>6 DEF TimeOnly, TimeHandler
<1>2. CASE DiscoveryOnly
  <2>1. UNCHANGED <<retries, n_retry, sntp, sync_status, callback, answered, outcome, ntp_synced>>
      BY <1>2, DiscoveryOnlyFrame DEF sntpVars
  <2>2. \/ UNCHANGED tpc
        \/ tpc \notin TimePlaces /\ tpc' \notin TimePlaces
      BY <1>2 DEF DiscoveryOnly, StartDiscovery, OpenSocket, UseSocket, OpenFails, DiscoveryHandler,
       KeepAlive, SendRequest, SendFails, RecvFails, RecvJunk, RecvReply, StoreDataHost,
       StoreNtpHost, Complete, SetDestination, Deliver, Go
  <2> QED BY <2>1, <2>2
<1>3. CASE Client
    BY <1>3, ClientFrame DEF sntpVars
<1>4. CASE UNCHANGED syncVars
    BY <1>4 DEF syncVars, sntpVars
<1> QED BY <1>1, <1>2, <1>3, <1>4, Parts

(* ControllerInv is inductive.                                             *)
LEMMA ControllerStep ==
    ASSUME PlaceType, HostType, ControllerInv, [SyncNext]_syncVars
    PROVE  ControllerInv'
<1> USE DEF PlaceType, ControllerInv
<1>1. CASE TimeOnly
  <2>1. UNCHANGED <<discovery_completed, data_host, initialized, dest, reply, cpc, target>>
      BY <1>1, TimeOnlyFrame DEF hosts, socket, client
  <2>2. \/ UNCHANGED tpc
        \/ tpc \in TimePlaces \cup {"idle"} /\ tpc' \in TimePlaces \cup {"idle"}
      BY <1>1 DEF TimeOnly, TimeHandler, SelectServer, PollDone, PollWait, SntpStop, LogStatus, Settle,
       SntpAnswer, Notify, ServerFlips, TimePlaces, Go
  <2> QED BY <2>1, <2>2 DEF TimePlaces
<1>2. CASE DiscoveryOnly
  <2>1. UNCHANGED client
      BY <1>2, DiscoveryOnlyFrame
  <2> USE <2>1 DEF client, Go
  <2>2. CASE StartDiscovery \/ OpenFails
      BY <2>2 DEF StartDiscovery, OpenSocket, UseSocket, OpenFails, hosts, socket
  <2>3. CASE KeepAlive \/ SendRequest \/ SendFails \/ RecvFails
      BY <2>3 DEF KeepAlive, SendRequest, SendFails, RecvFails, hosts, socket
  <2>4. CASE RecvJunk \/ RecvReply
      BY <2>4 DEF RecvJunk, RecvReply, hosts
  <2>5. CASE StoreDataHost \/ StoreNtpHost
      BY <2>5 DEF StoreDataHost, StoreNtpHost, socket
  <2>6. CASE Complete \/ SetDestination
      BY <2>6 DEF Complete, SetDestination, hosts, socket
  <2>7. ASSUME NEW p \in Packets, Deliver(p) PROVE ControllerInv'
      BY <2>7 DEF Deliver, hosts
  <2> QED BY <1>2, <2>2, <2>3, <2>4, <2>5, <2>6, <2>7 DEF DiscoveryOnly, DiscoveryHandler
<1>3. CASE Client
  <2>1. UNCHANGED <<tpc, discovery_completed, hosts, socket>>
      BY <1>3, ClientFrame
  <2> QED BY <1>3, <2>1
      DEF Client, ClientReady, ClientOpens, ClientOpenFails, ClientRestarts, hosts, socket
<1>4. CASE UNCHANGED syncVars
    BY <1>4 DEF syncVars, hosts, socket, client
<1> QED BY <1>1, <1>2, <1>3, <1>4, Parts

(* All parts hold when the node starts.                                    *)
LEMMA Started ==
    ASSUME SyncInit
    PROVE  TimeType /\ PlaceType /\ HostType /\ AnswerInv /\ ControllerInv
<1>1. retries = 0 /\ n_retry = 0 /\ serverFlips = 0 /\ good = Hosts /\ inbox = <<>>
    BY DEF SyncInit
<1>2. /\ retries \in 0..PrimaryMaxRetry + 1 /\ n_retry \in 0..Timeout
      /\ good \subseteq Hosts /\ serverFlips \in 0..MaxFlips
      /\ inbox \in Seq(Packets)
    BY <1>1, SyncAssumption
<1>3. TimeType
    BY <1>2 DEF SyncInit, TimeType, Servers
<1>4. PlaceType
    BY DEF SyncInit, PlaceType
<1>5. HostType
    BY <1>2 DEF SyncInit, HostType
<1>6. AnswerInv /\ ControllerInv
    BY DEF SyncInit, AnswerInv, ControllerInv, TimePlaces
<1> QED BY <1>3, <1>4, <1>5, <1>6

(* Every variable of time synchronisation and discovery keeps its type.    *)
THEOREM SyncTypeCorrect == SyncSpec => []SyncTypeOK
<1> DEFINE Inv == TimeType /\ PlaceType /\ HostType
<1>1. SyncInit => Inv
    BY Started
<1>2. Inv /\ [SyncNext]_syncVars => Inv'
    BY TimeTyped, PlaceTyped, HostTyped
<1>3. Inv => SyncTypeOK
    BY DEF SyncTypeOK, TimeType, PlaceType, HostType
<1> QED BY <1>1, <1>2, <1>3, PTL DEF SyncSpec

(* Of sys_time_sync_handler, for every retry limit and time-out: it        *)
(* reports a success only when an answer came to this very                 *)
(* synchronisation.                                                        *)
THEOREM NoFalseSuccess == SyncSpec => []SuccessIsAnswered
<1> DEFINE Inv == TimeType /\ PlaceType /\ HostType /\ AnswerInv
<1>1. SyncInit => Inv
    BY Started
<1>2. Inv /\ [SyncNext]_syncVars => Inv'
    BY TimeTyped, PlaceTyped, HostTyped, AnswerStep
<1>3. Inv => SuccessIsAnswered
    BY DEF AnswerInv, SuccessIsAnswered, TimePlaces
<1> QED BY <1>1, <1>2, <1>3, PTL DEF SyncSpec

(* Of sys_discovery_handler and app_data_client, for every set of          *)
(* controllers and every stream of packets: all who act on                 *)
(* discovery_completed meet one address.                                   *)
THEOREM OneControllerForAll == SyncSpec => []OneController
<1> DEFINE Inv == TimeType /\ PlaceType /\ HostType /\ ControllerInv
<1>1. SyncInit => Inv
    BY Started
<1>2. Inv /\ [SyncNext]_syncVars => Inv'
    BY TimeTyped, PlaceTyped, HostTyped, ControllerStep
<1>3. Inv => OneController
    BY DEF ControllerInv, OneController
<1> QED BY <1>1, <1>2, <1>3, PTL DEF SyncSpec

Stay == (ntp_synced => ntp_synced') /\ (discovery_completed => discovery_completed')
(* ntp_synced and discovery_completed are never reset: no step of the      *)
(* handlers, the network or the data client takes them back.  The model of *)
(* the LED takes this for granted (Forever).                               *)
THEOREM FlagsAreForever == SyncSpec => [][Stay]_syncVars
<1>1. [SyncNext]_syncVars => [Stay]_syncVars
  <2> SUFFICES ASSUME [SyncNext]_syncVars PROVE Stay
    OBVIOUS
  <2> USE DEF Stay
  <2>1. CASE TimeOnly
    <3>1. discovery_completed' = discovery_completed
       BY <2>1, TimeOnlyFrame
    <3>2. ntp_synced => ntp_synced'
       BY <2>1 DEF TimeOnly, TimeHandler, SelectServer, PollDone, PollWait, SntpStop, LogStatus, Settle,
       SntpAnswer, Notify, ServerFlips, TimeStep
    <3> QED BY <3>1, <3>2
  <2>2. CASE DiscoveryOnly
    <3>1. ntp_synced' = ntp_synced
       BY <2>2, DiscoveryOnlyFrame
    <3>2. discovery_completed => discovery_completed'
       BY <2>2 DEF DiscoveryOnly, StartDiscovery, OpenSocket, UseSocket, OpenFails, DiscoveryHandler,
       KeepAlive, SendRequest, SendFails, RecvFails, RecvJunk, RecvReply, StoreDataHost,
       StoreNtpHost, Complete, SetDestination, Deliver, DiscoveryStep
    <3> QED BY <3>1, <3>2
  <2>3. CASE Client
     BY <2>3, ClientFrame
  <2>4. CASE UNCHANGED syncVars
     BY <2>4 DEF syncVars
  <2> QED BY <2>1, <2>2, <2>3, <2>4, Parts
<1> QED BY <1>1, PTL DEF SyncSpec
-----------------------------------------------------------------------------
(* The LED.                                                                *)

Places == {"idle", "test", "select", "length", "start", "output", "status", "done"}

(* The parts of TypeOK.                                                    *)
CallType ==
    /\ pc \in [Callers -> Places]
    /\ op \in [Callers -> Patterns \cup Lights]

ShownType ==
    /\ led_status \in Patterns \cup Lights /\ period \in {50, 200}
    /\ selected \in Patterns /\ length \in {WaveLen, CodeLen}
    /\ out \in {"PWM"} \cup Lights /\ cb \in {"idle", "due"}
    /\ running \in BOOLEAN

AskType ==
    /\ state \in [Inputs -> BOOLEAN] /\ raising \subseteq TaskInputs
    /\ pending \in BOOLEAN /\ token \in BOOLEAN /\ event \in BOOLEAN /\ manual \in BOOLEAN

(* What the engine shows when it shows o.                                  *)
Shows(o) ==
    /\ running <=> o \in Patterns
    /\ running => selected = o /\ length = PatternLen(o) /\ period = Period(o)
    /\ ~running /\ ~late => out = o

(* A pattern is selected, a plain light put on the pin, never the other    *)
(* way round.                                                              *)
OpInv ==
    /\ \A c \in Callers : pc[c] \in {"select", "length", "start"} => op[c] \in Patterns
    /\ \A c \in Callers : pc[c] = "output" => op[c] \in Lights

(* Unless two callers have met there is one at a time.                     *)
AloneInv ==
    ~overlapped => \A c, d \in Callers : pc[c] # "idle" /\ pc[d] # "idle" => c = d

(* Before a caller has stopped the timer and after it has written          *)
(* led_status the engine shows led_status, in between the timer is off,    *)
(* and when only the status is to be written it shows the new one.         *)
EngineInv ==
    ~overlapped =>
        /\ (\A c \in Callers : pc[c] \in {"idle", "test", "done"}) => Shows(led_status)
        /\ \A c \in Callers : pc[c] \in {"select", "length", "start", "output"} => ~running
        /\ \A c \in Callers : pc[c] \in {"length", "start"} => selected = op[c]
        /\ \A c \in Callers : pc[c] = "start" => length = PatternLen(op[c])
        /\ \A c \in Callers : pc[c] = "status" => Shows(op[c])

Returns == HandlerReturns \/ RestReturns \/ PowerReturns
Timer == TimeoutDue \/ TimeoutShows

(* Every step keeps the types of the calls.                                *)
LEMMA CallTyped ==
    ASSUME CallType, [LedNext]_ledVars
    PROVE  CallType'
<1> USE DEF CallType, Places, Callers
<1>1. CASE State \/ LoopWakes \/ RestMode \/ Timer \/ UNCHANGED ledVars
  <2>1. UNCHANGED calls
      BY <1>1 DEF State, LoopWrites, ModeWritten, NtpSynced, Raise, Shown, LoopWakes, RestMode, Timer, TimeoutDue,
                  TimeoutShows, Callback, ledVars
  <2> QED BY <2>1 DEF calls
<1>2. ASSUME NEW c \in Callers, NEW o \in Patterns \cup Lights, NEW at \in {"test", "done"}, Enter(c, o, at)
      PROVE  CallType'
    BY <1>2 DEF Enter
<1>3. get_target_led_status \in Patterns \cup Lights
    BY DEF get_target_led_status, Patterns, Lights
<1>4. CASE HandlerReads
    BY <1>2, <1>3, <1>4 DEF HandlerReads
<1>5. CASE RestToggle \/ RestOff \/ PowerSave \/ DeepSleep
    BY <1>2, <1>5 DEF RestToggle, RestOff, PowerSave, DeepSleep, Calls, Lights
<1>6. ASSUME NEW c \in Callers, EngineStep(c) PROVE CallType'
  <2>1. UNCHANGED op /\ \E to \in Places : pc' = [pc EXCEPT ![c] = to]
      BY <1>6 DEF EngineStep, AlreadyShown, StopTimer, SelectPattern, SelectLength, StartTimer, Output, SetStatus, Moves
  <2> QED BY <2>1
<1>7. CASE Returns
    BY <1>7 DEF Returns, HandlerReturns, RestReturns, PowerReturns, Leave, Lights
<1> QED BY <1>1, <1>4, <1>5, <1>6, <1>7 DEF LedNext, Rest, Timer, Returns

(* A call that ends changes nothing of the other calls.                    *)
LEMMA Returning ==
    ASSUME CallType, NEW c \in Callers, Leave(c)
    PROVE  pc[c] = "done" /\ pc'[c] = "idle" /\ \A d \in Callers \ {c} : pc'[d] = pc[d] /\ op'[d] = op[d]
BY DEF Leave, CallType

(* A call that starts changes nothing of the others; if it meets one, that *)
(* is recorded.                                                            *)
LEMMA Entering ==
    ASSUME CallType, NEW c \in Callers, NEW o, NEW at, Enter(c, o, at)
    PROVE  /\ pc[c] = "idle" /\ pc'[c] = at /\ op'[c] = o
           /\ \A d \in Callers \ {c} : pc'[d] = pc[d] /\ op'[d] = op[d]
           /\ ~overlapped' => ~overlapped /\ \A d \in Callers \ {c} : pc[d] = "idle"
BY DEF Enter, Alone, CallType

(* A step inside a function changes nothing of the other calls.            *)
LEMMA Going ==
    ASSUME CallType, NEW c \in Callers, NEW from, NEW to, Moves(c, from, to)
    PROVE  /\ pc[c] = from /\ pc'[c] = to
           /\ \A d \in Callers \ {c} : pc'[d] = pc[d]
           /\ op' = op
BY DEF Moves, CallType

(* What changes of the flags, the loop, the mode and the timer callback    *)
(* leave alone.                                                            *)
LEMMA Frame ==
    ASSUME State \/ LoopWakes \/ RestMode \/ Timer \/ UNCHANGED ledVars
    PROVE  UNCHANGED <<calls, overlapped, led_status, timer, pattern>>
BY DEF State, LoopWrites, ModeWritten, NtpSynced, Raise, Shown, LoopWakes, RestMode, Timer, TimeoutDue,
       TimeoutShows, Callback, history, ledVars

(* What the start of a call leaves alone.                                  *)
LEMMA EntryFrame ==
    ASSUME HandlerReads \/ RestToggle \/ RestOff \/ PowerSave \/ DeepSleep
    PROVE  /\ UNCHANGED <<led_status, timer, pattern, cb, out, late>>
           /\ \E c \in Callers, o \in Patterns \cup Lights, at \in {"test", "done"} : Enter(c, o, at)
<1>1. get_target_led_status \in Patterns \cup Lights
    BY DEF get_target_led_status, Patterns, Lights
<1>2. CASE HandlerReads
    BY <1>1, <1>2 DEF HandlerReads, Callers
<1>3. CASE RestToggle \/ RestOff \/ PowerSave \/ DeepSleep
    BY <1>3 DEF RestToggle, RestOff, PowerSave, DeepSleep, Calls, Lights, Callers
<1> QED BY <1>2, <1>3

(* What the end of a call leaves alone; it is the end of one call.         *)
LEMMA ReturnFrame ==
    ASSUME CallType, Returns
    PROVE  /\ UNCHANGED <<led_status, timer, pattern, cb, out, late, overlapped>>
           /\ \E c \in Callers :
                /\ pc[c] = "done" /\ pc'[c] \in {"idle", "test"}
                /\ \A d \in Callers \ {c} : pc'[d] = pc[d] /\ op'[d] = op[d]
<1>1. UNCHANGED <<led_status, timer, pattern, cb, out, late, overlapped>>
    BY DEF Returns, HandlerReturns, RestReturns, PowerReturns, Returned, history
<1>2. CASE HandlerReturns
    BY <1>1, <1>2, Returning DEF HandlerReturns, Callers
<1>3. CASE RestReturns
    BY <1>1, <1>3, Returning DEF RestReturns, Callers
<1>4. CASE PowerReturns
  <2>1. CASE op["power"] = "ON" /\ manual
      BY <1>1, <1>4, <2>1 DEF PowerReturns, Callers, CallType
  <2>2. CASE ~(op["power"] = "ON" /\ manual)
      BY <1>1, <1>4, <2>2, Returning DEF PowerReturns, Callers
  <2> QED BY <2>1, <2>2
<1> QED BY <1>2, <1>3, <1>4 DEF Returns

(* The kinds of steps.                                                     *)
LEMMA Cases ==
    [LedNext]_ledVars =>
      \/ State \/ LoopWakes \/ RestMode \/ Timer \/ UNCHANGED ledVars
      \/ HandlerReads \/ RestToggle \/ RestOff \/ PowerSave \/ DeepSleep
      \/ Returns
      \/ \E c \in Callers : EngineStep(c)
BY DEF LedNext, Rest, Timer, Returns

(* OpInv is inductive.                                                     *)
LEMMA OpStep ==
    ASSUME CallType, OpInv, [LedNext]_ledVars
    PROVE  OpInv'
<1> USE DEF OpInv
<1>1. CASE State \/ LoopWakes \/ RestMode \/ Timer \/ UNCHANGED ledVars
    BY <1>1, Frame DEF calls
<1>2. CASE HandlerReads \/ RestToggle \/ RestOff \/ PowerSave \/ DeepSleep
    BY <1>2, EntryFrame, Entering
<1>3. CASE Returns
    BY <1>3, ReturnFrame
<1>4. ASSUME NEW c \in Callers, EngineStep(c) PROVE OpInv'
  <2>1. CASE AlreadyShown(c)
      BY <2>1, Going DEF AlreadyShown
  <2>2. CASE StopTimer(c)
    <3>1. op[c] \in Patterns \cup Lights
        BY DEF CallType
    <3> QED BY <2>2, <3>1, Going DEF StopTimer
  <2>3. CASE SelectPattern(c)
      BY <2>3, Going DEF SelectPattern
  <2>4. CASE SelectLength(c)
      BY <2>4, Going DEF SelectLength
  <2>5. CASE StartTimer(c)
      BY <2>5, Going DEF StartTimer
  <2>6. CASE Output(c)
      BY <2>6, Going DEF Output
  <2>7. CASE SetStatus(c)
      BY <2>7, Going DEF SetStatus
  <2> QED BY <1>4, <2>1, <2>2, <2>3, <2>4, <2>5, <2>6, <2>7 DEF EngineStep
<1> QED BY <1>1, <1>2, <1>3, <1>4, Cases

(* A step of the engine belongs to one call that is under way.             *)
LEMMA EngineMoves ==
    ASSUME CallType, NEW c \in Callers, EngineStep(c)
    PROVE  /\ pc[c] # "idle" /\ op' = op
           /\ \A d \in Callers \ {c} : pc'[d] = pc[d]
           /\ overlapped /\ ~overlapped' => ~running' /\ Alone(c) /\ StopTimer(c)
<1>1. op' = op
    BY DEF EngineStep, AlreadyShown, StopTimer, SelectPattern, SelectLength, StartTimer, Output, SetStatus, Engine, Moves
<1>2. \E from \in Places \ {"idle"}, to \in Places : Moves(c, from, to)
    BY DEF EngineStep, AlreadyShown, StopTimer, SelectPattern, SelectLength, StartTimer, Output, SetStatus, Places
<1>3. overlapped /\ ~overlapped' => ~running' /\ Alone(c) /\ StopTimer(c)
  <2>1. ASSUME StopTimer(c), overlapped, ~overlapped' PROVE ~running' /\ Alone(c)
      BY <2>1 DEF StopTimer
  <2>2. ASSUME ~StopTimer(c) PROVE overlapped' = overlapped
      BY <2>2 DEF EngineStep, AlreadyShown, SelectPattern, SelectLength, StartTimer, Output, SetStatus, history
  <2> QED BY <2>1, <2>2
<1> QED BY <1>1, <1>2, <1>3, Going

(* AloneInv is inductive.                                                  *)
LEMMA AloneStep ==
    ASSUME CallType, AloneInv, [LedNext]_ledVars
    PROVE  AloneInv'
<1> USE DEF AloneInv
<1>1. CASE State \/ LoopWakes \/ RestMode \/ Timer \/ UNCHANGED ledVars
    BY <1>1, Frame DEF calls
<1>2. CASE HandlerReads \/ RestToggle \/ RestOff \/ PowerSave \/ DeepSleep
    BY <1>2, EntryFrame, Entering
<1>3. CASE Returns
    BY <1>3, ReturnFrame
<1>4. ASSUME NEW c \in Callers, EngineStep(c) PROVE AloneInv'
  <2>1. CASE overlapped' \/ ~overlapped
      BY <1>4, <2>1, EngineMoves
  <2>2. CASE overlapped /\ ~overlapped'
    <3>1. \A d \in Callers \ {c} : pc'[d] = "idle"
        BY <1>4, <2>2, EngineMoves DEF Alone
    <3> QED BY <3>1
  <2> QED BY <2>1, <2>2
<1> QED BY <1>1, <1>2, <1>3, <1>4, Cases

(* Only one caller is in the engine, if one is and no two have met.        *)
LEMMA OthersIdle ==
    ASSUME AloneInv, ~overlapped, NEW c \in Callers, pc[c] # "idle"
    PROVE  \A d \in Callers \ {c} : pc[d] = "idle"
BY DEF AloneInv

(* Every step keeps the types of what the engine shows.                    *)
LEMMA ShownTyped ==
    ASSUME CallType, OpInv, ShownType, [LedNext]_ledVars
    PROVE  ShownType'
<1> USE DEF ShownType
<1>1. CASE State \/ LoopWakes \/ RestMode \/ UNCHANGED ledVars
    BY <1>1 DEF State, LoopWrites, ModeWritten, NtpSynced, Raise, Shown, LoopWakes, RestMode, ledVars,
                timer, pattern
<1>2. CASE Timer
    BY <1>2 DEF Timer, TimeoutDue, TimeoutShows, Callback, timer, pattern
<1>3. CASE HandlerReads \/ RestToggle \/ RestOff \/ PowerSave \/ DeepSleep
    BY <1>3, EntryFrame DEF timer, pattern
<1>4. CASE Returns
    BY <1>4, ReturnFrame DEF timer, pattern
<1>5. ASSUME NEW c \in Callers, EngineStep(c) PROVE ShownType'
  <2>1. CASE AlreadyShown(c)
      BY <2>1 DEF AlreadyShown, Engine, timer, pattern
  <2>2. CASE StopTimer(c)
      BY <2>2 DEF StopTimer, Engine, pattern
  <2>3. CASE SelectPattern(c)
      BY <2>3 DEF SelectPattern, Moves, OpInv, Engine, timer
  <2>4. CASE SelectLength(c)
    <3>1. PatternLen(op[c]) \in {WaveLen, CodeLen}
        BY DEF PatternLen
    <3> QED BY <2>4, <3>1 DEF SelectLength, Engine, timer
  <2>5. CASE StartTimer(c)
    <3>1. Period(op[c]) \in {50, 200}
        BY DEF Period
    <3> QED BY <2>5, <3>1 DEF StartTimer, Engine, pattern
  <2>6. CASE Output(c)
      BY <2>6 DEF Output, Moves, OpInv, Engine, timer, pattern
  <2>7. CASE SetStatus(c)
      BY <2>7 DEF SetStatus, CallType, Engine, timer, pattern
  <2> QED BY <1>5, <2>1, <2>2, <2>3, <2>4, <2>5, <2>6, <2>7 DEF EngineStep
<1> QED BY <1>1, <1>2, <1>3, <1>4, <1>5, Cases

(* EngineInv is inductive.                                                 *)
LEMMA EngineInvStep ==
    ASSUME CallType, ShownType, OpInv, AloneInv, EngineInv, [LedNext]_ledVars
    PROVE  EngineInv'
<1>1. CASE State \/ LoopWakes \/ RestMode \/ UNCHANGED ledVars
    BY <1>1 DEF State, LoopWrites, ModeWritten, NtpSynced, Raise, Shown, LoopWakes, RestMode, ledVars, timer, calls,
                pattern, history, EngineInv, Shows
<1>2. CASE Timer
  <2>1. UNCHANGED <<calls, overlapped, led_status, timer, pattern>>
      BY <1>2, Frame
  <2>2. ~running /\ ~late' => out' = out /\ ~late
      BY <1>2 DEF Timer, TimeoutDue, TimeoutShows
  <2> QED BY <2>1, <2>2 DEF calls, timer, pattern, EngineInv, Shows
<1>3. CASE HandlerReads \/ RestToggle \/ RestOff \/ PowerSave \/ DeepSleep
  <2> SUFFICES ASSUME ~overlapped' PROVE EngineInv'
      BY DEF EngineInv
  <2>1. UNCHANGED <<led_status, timer, pattern, out, late>>
      BY <1>3, EntryFrame
  <2>2. PICK c \in Callers, o \in Patterns \cup Lights, at \in {"test", "done"} : Enter(c, o, at)
      BY <1>3, EntryFrame
  <2>3. ~overlapped /\ \A d \in Callers : pc[d] = "idle"
      BY <2>2, Entering
  <2>4. \A d \in Callers : pc'[d] \in {"idle", "test", "done"}
      BY <2>2, <2>3, Entering
  <2>5. Shows(led_status)
      BY <2>3 DEF EngineInv
  <2>6. Shows(led_status)'
      BY <2>1, <2>5 DEF Shows, timer, pattern
  <2> QED BY <2>4, <2>6 DEF EngineInv
<1>4. CASE Returns
  <2> SUFFICES ASSUME ~overlapped' PROVE EngineInv'
      BY DEF EngineInv
  <2>1. UNCHANGED <<led_status, timer, pattern, out, late, overlapped>>
      BY <1>4, ReturnFrame
  <2>2. PICK c \in Callers : /\ pc[c] = "done" /\ pc'[c] \in {"idle", "test"}
                             /\ \A d \in Callers \ {c} : pc'[d] = pc[d]
      BY <1>4, ReturnFrame
  <2>3. \A d \in Callers \ {c} : pc[d] = "idle"
      BY <2>1, <2>2, OthersIdle
  <2>4. \A d \in Callers : pc'[d] \in {"idle", "test", "done"}
      BY <2>2, <2>3
  <2>5. Shows(led_status)
      BY <2>1, <2>2, <2>3 DEF EngineInv
  <2>6. Shows(led_status)'
      BY <2>1, <2>5 DEF Shows, timer, pattern
  <2> QED BY <2>4, <2>6 DEF EngineInv
<1>5. ASSUME NEW c \in Callers, EngineStep(c) PROVE EngineInv'
  <2> SUFFICES ASSUME ~overlapped' PROVE EngineInv'
      BY DEF EngineInv
  <2>1. op' = op /\ (overlapped => StopTimer(c) /\ ~running')
      BY <1>5, EngineMoves
  <2>2. \A d \in Callers \ {c} : pc[d] = "idle" /\ pc'[d] = "idle"
    <3>1. CASE ~overlapped
        BY <1>5, <3>1, EngineMoves, OthersIdle
    <3>2. CASE overlapped
        BY <1>5, <3>2, EngineMoves DEF Alone
    <3> QED BY <3>1, <3>2
  <2>3. ~overlapped /\ pc[c] \in {"test", "done"} => Shows(led_status)
      BY <2>2 DEF EngineInv
  <2>4. CASE StopTimer(c)
    <3>1. pc[c] = "test" /\ pc'[c] \in {"select", "output"}
        BY <2>4, Going DEF StopTimer
    <3>2. CASE overlapped
        BY <2>1, <2>2, <3>1, <3>2 DEF EngineInv
    <3>3. CASE ~overlapped
      <4>1. running' = FALSE
          BY <2>3, <2>4, <3>1, <3>3 DEF StopTimer, Shows, ShownType
      <4> QED BY <2>2, <3>1, <4>1 DEF EngineInv
    <3> QED BY <3>2, <3>3
  <2> SUFFICES ASSUME ~StopTimer(c) PROVE EngineInv'
      BY <2>4
  <2>5. ~overlapped
      BY <2>1
  <2>6. CASE AlreadyShown(c)
    <3>1. pc[c] = "test" /\ pc'[c] = "done"
        BY <2>6, Going DEF AlreadyShown
    <3>2. Shows(led_status)'
        BY <2>3, <2>5, <2>6, <3>1 DEF AlreadyShown, Shows, timer, pattern, history
    <3> QED BY <2>2, <3>1, <3>2 DEF EngineInv
  <2>7. CASE SelectPattern(c)
    <3>1. pc[c] = "select" /\ pc'[c] = "length"
        BY <2>7, Going DEF SelectPattern
    <3>2. ~running' /\ selected' = op'[c]
        BY <2>1, <2>5, <2>7, <3>1 DEF SelectPattern, EngineInv, timer
    <3> QED BY <2>2, <3>1, <3>2 DEF EngineInv
  <2>8. CASE SelectLength(c)
    <3>1. pc[c] = "length" /\ pc'[c] = "start"
        BY <2>8, Going DEF SelectLength
    <3>2. ~running' /\ selected' = op'[c] /\ length' = PatternLen(op'[c])
        BY <2>1, <2>5, <2>8, <3>1 DEF SelectLength, EngineInv, timer
    <3> QED BY <2>2, <3>1, <3>2 DEF EngineInv
  <2>9. CASE StartTimer(c)
    <3>1. pc[c] = "start" /\ pc'[c] = "status"
        BY <2>9, Going DEF StartTimer
    <3>2. op[c] \in Patterns /\ ~running /\ selected = op[c] /\ length = PatternLen(op[c])
        BY <2>5, <3>1 DEF EngineInv, OpInv
    <3>3. Shows(op[c])'
        BY <2>1, <2>9, <3>2 DEF StartTimer, Shows, pattern
    <3> QED BY <2>2, <3>1, <3>3 DEF EngineInv
  <2>10. CASE Output(c)
    <3>1. pc[c] = "output" /\ pc'[c] = "status"
        BY <2>10, Going DEF Output
    <3>2. op[c] \notin Patterns /\ ~running
        BY <2>5, <3>1 DEF EngineInv, OpInv, Lights, Patterns
    <3>3. Shows(op[c])'
        BY <2>1, <2>10, <3>2 DEF Output, Shows, timer
    <3> QED BY <2>2, <3>1, <3>3 DEF EngineInv
  <2>11. CASE SetStatus(c)
    <3>1. pc[c] = "status" /\ pc'[c] = "done"
        BY <2>11, Going DEF SetStatus
    <3>2. Shows(op[c])
        BY <2>5, <3>1 DEF EngineInv
    <3>3. Shows(led_status)'
        BY <2>11, <3>2 DEF SetStatus, Shows, timer, pattern, history
    <3> QED BY <2>2, <3>1, <3>3 DEF EngineInv
  <2> QED BY <1>5, <2>6, <2>7, <2>8, <2>9, <2>10, <2>11 DEF EngineStep
<1> QED BY <1>1, <1>2, <1>3, <1>4, <1>5, Cases

(* Every step keeps the types of the flags and the requests.               *)
LEMMA AskTyped ==
    ASSUME AskType, [LedNext]_ledVars
    PROVE  AskType'
<1> USE DEF AskType
<1>1. ASSUME NEW i \in Inputs, Flip(i) PROVE state' \in [Inputs -> BOOLEAN]
    BY <1>1 DEF Flip
<1>2. ASSUME NEW i \in LoopInputs, LoopWrites(i) PROVE AskType'
  <2>1. state' \in [Inputs -> BOOLEAN]
      BY <1>1, <1>2 DEF LoopWrites, Inputs
  <2> QED BY <1>2, <2>1 DEF LoopWrites, asking
<1>3. CASE ModeWritten \/ NtpSynced
  <2>1. state' \in [Inputs -> BOOLEAN]
      BY <1>1, <1>3 DEF ModeWritten, NtpSynced, Inputs, TaskInputs
  <2> QED BY <1>3, <2>1 DEF ModeWritten, NtpSynced, TaskInputs, asking
<1>4. ASSUME NEW i \in TaskInputs, Raise(i) PROVE AskType'
    BY <1>4 DEF Raise, asking
<1>5. CASE LoopWakes
    BY <1>5 DEF LoopWakes
<1>6. CASE HandlerReads
    BY <1>6 DEF HandlerReads, inputs
<1>7. CASE RestMode
    BY <1>7 DEF RestMode
<1>8. CASE RestToggle \/ RestOff \/ PowerSave \/ DeepSleep
    BY <1>8 DEF RestToggle, RestOff, PowerSave, DeepSleep, Calls, inputs
<1>9. ASSUME NEW c \in Callers, EngineStep(c) PROVE AskType'
  <2>1. Engine
      BY <1>9 DEF EngineStep, AlreadyShown, StopTimer, SelectPattern, SelectLength, StartTimer, Output, SetStatus
  <2> QED BY <2>1 DEF Engine, inputs, asking
<1>10. CASE Returns
    BY <1>10 DEF Returns, HandlerReturns, RestReturns, PowerReturns, Returned, inputs
<1>11. CASE Timer \/ UNCHANGED ledVars
    BY <1>11 DEF Timer, TimeoutDue, TimeoutShows, Callback, ledVars, inputs, asking
<1> QED BY <1>2, <1>3, <1>4, <1>5, <1>6, <1>7, <1>8, <1>9, <1>10, <1>11, Cases DEF State

(* All parts hold when the LED has been set up.                            *)
LEMMA InitialEngine ==
    ASSUME LedInit
    PROVE  CallType /\ OpInv /\ AloneInv /\ ShownType /\ AskType
<1>1. CallType
    BY DEF LedInit, CallType, Places, Lights
<1>2. OpInv /\ AloneInv
    BY DEF LedInit, OpInv, AloneInv
<1>3. ShownType
    BY DEF LedInit, ShownType, Patterns, PatternLen, Period
<1>4. AskType
    BY DEF LedInit, AskType
<1> QED BY <1>1, <1>2, <1>3, <1>4

(* Every variable of the LED keeps its type, for all lengths and bounds.   *)
THEOREM LedTypeCorrect == LedSpec => []LedTypeOK
<1> DEFINE Inv == CallType /\ OpInv /\ ShownType /\ AskType
<1>1. LedInit => Inv
    BY InitialEngine
<1>2. Inv /\ [LedNext]_ledVars => Inv'
    BY CallTyped, OpStep, ShownTyped, AskTyped
<1>3. Inv => LedTypeOK
    BY DEF CallType, ShownType, AskType, LedTypeOK, Places
<1> QED BY <1>1, <1>2, <1>3, PTL DEF LedSpec

(* Of blink.c, however many requests come: unless two callers have met in  *)
(* the engine, timer, pattern, its length, period and pin are what         *)
(* led_status says; and what such a meeting has left behind is gone once a *)
(* caller alone in the engine leaves the timer stopped.                    *)
THEOREM LedAlwaysShows == LedSpec => []LedShows
<1> DEFINE Inv == CallType /\ ShownType /\ OpInv /\ AloneInv /\ EngineInv
<1>1. LedInit => Inv
  <2> SUFFICES ASSUME LedInit PROVE EngineInv
      BY InitialEngine
  <2>1. Shows(led_status)
      BY DEF LedInit, Shows, Patterns
  <2> QED BY <2>1 DEF LedInit, EngineInv
<1>2. Inv /\ [LedNext]_ledVars => Inv'
    BY CallTyped, ShownTyped, OpStep, AloneStep, EngineInvStep
<1>3. Inv => LedShows
    BY DEF LedShows, EngineInv, Idle, Shows
<1> QED BY <1>1, <1>2, <1>3, PTL DEF LedSpec

-----------------------------------------------------------------------------
(* The sequence code.                                                      *)

(* The equations of Code, one per step of the pattern, for a given code.   *)
IsCode(code, bits) ==
    code = [i \in 0..27 |->
              IF i < 4 THEN Sync[i + 1]
              ELSE LET swap == bits[(i - 4) \div 2] = 1
                   IN  IF i % 2 = 0 THEN (IF swap THEN code[i - 1] ELSE code[i - 2])
                       ELSE (IF swap THEN code[i - 3] ELSE code[i - 2])]

(* The ones among the bits up to the k-th; after an odd number of them the *)
(* pairs are turned round.                                                 *)
Ones(bits, k) == {j \in 0..k : bits[j] = 1}
Turned(bits, k) == Cardinality(Ones(bits, k)) % 2 = 1

(* A one turns the pair, a zero does not.                                  *)
LEMMA TurnedStep ==
    ASSUME NEW bits, NEW k \in 0..11
    PROVE  Turned(bits, k) <=> IF bits[k] = 1 THEN ~Turned(bits, k - 1) ELSE Turned(bits, k - 1)
<1> DEFINE S == Ones(bits, k - 1)
<1>1. IsFiniteSet(S)
  <2>1. IsFiniteSet(0 .. k - 1)
      BY FS_Interval
  <2>2. S \subseteq 0 .. k - 1
      BY DEF Ones
  <2> QED BY <2>1, <2>2, FS_Subset
<1>2. Cardinality(S) \in Nat /\ k \notin S
    BY <1>1, FS_CardinalityType DEF Ones
<1>3. CASE bits[k] = 1
  <2>1. Ones(bits, k) = S \cup {k}
      BY <1>3 DEF Ones
  <2> HIDE DEF S
  <2>2. Cardinality(Ones(bits, k)) = Cardinality(S) + 1
      BY <1>1, <1>2, <2>1, FS_AddElement
  <2>3. Turned(bits, k) <=> ~(Cardinality(S) % 2 = 1)
      BY <1>2, <2>2 DEF Turned
  <2> QED BY <1>3, <2>3 DEF Turned, S
<1>4. CASE bits[k] # 1
  <2>1. Ones(bits, k) = S
      BY <1>4 DEF Ones
  <2> QED BY <1>4, <2>1 DEF Turned
<1> QED BY <1>3, <1>4

(* Before the first bit nothing is turned.                                 *)
LEMMA NotTurned == ASSUME NEW bits PROVE ~Turned(bits, -1)
<1>1. Ones(bits, -1) = {}
    BY DEF Ones
<1> QED BY <1>1, FS_EmptySet DEF Turned

(* The four steps of the start.                                            *)
LEMMA SyncSteps == Sync[1] = Bright /\ Sync[2] = Bright /\ Sync[3] = Bright /\ Sync[4] = Dim
BY DEF Sync

(* Halving, for the places of a pair.                                      *)
LEMMA Half ==
    ASSUME NEW i \in Int, NEW k \in Int, i = (2 * k) + 1
    PROVE  i \div 2 = k /\ i % 2 = 1
OBVIOUS

(* The same before the first place.                                        *)
LEMMA HalfOfMinusOne ==
    ASSUME NEW i \in Int, i = -1
    PROVE  i \div 2 = -1
<1>1. i = (2 * (-1)) + 1
    OBVIOUS
<1>2. i = (2 * (-1)) + 1 => i \div 2 = -1
    BY Half
<1> QED BY <1>1, <1>2

(* The recursive definition of the code has a solution: the pair of a      *)
(* place is the first one, turned as often as there were ones.             *)
LEMMA CodeExists ==
    ASSUME NEW bits
    PROVE  \E w : IsCode(w, bits)
<1> DEFINE Light(i, k) == IF (i % 2 = 0) = ~Turned(bits, k) THEN Bright ELSE Dim
           w == [i \in 0..27 |-> IF i < 2 THEN Bright ELSE Light(i, (i - 4) \div 2)]
<1>1. ASSUME NEW i \in 0..27, i < 4
      PROVE  w[i] = Sync[i + 1]
  <2>1. CASE i < 2
      BY <1>1, <2>1, SyncSteps
  <2>2. CASE i = 2
    <3>1. (i - 4) \div 2 = -1 /\ i % 2 = 0 /\ ~(i < 2)
        BY <2>2
    <3>2. w[i] = Bright
        BY <3>1, NotTurned
    <3> QED BY <2>2, <3>2, SyncSteps
  <2>3. CASE i = 3
    <3> DEFINE m == i - 4
    <3>1. m = -1 /\ m \in Int
        BY <2>3
    <3> HIDE DEF m
    <3>2. m \div 2 = -1
        BY <3>1, HalfOfMinusOne
    <3>3. w[i] = Light(i, m \div 2) /\ ~(i % 2 = 0)
        BY <2>3 DEF m
    <3>4. w[i] = Dim
        BY <3>2, <3>3, NotTurned
    <3> QED BY <2>3, <3>4, SyncSteps
  <2> QED BY <1>1, <2>1, <2>2, <2>3
<1>2. ASSUME NEW i \in 4..27
      PROVE  w[i] = IF i % 2 = 0
                    THEN (IF bits[(i - 4) \div 2] = 1 THEN w[i - 1] ELSE w[i - 2])
                    ELSE (IF bits[(i - 4) \div 2] = 1 THEN w[i - 3] ELSE w[i - 2])
  <2> DEFINE k == (i - 4) \div 2
  <2>1. k \in 0..11 /\ ((i - 2) - 4) \div 2 = k - 1 /\ (i - 2) % 2 = i % 2
      OBVIOUS
  <2>2. i % 2 = 0 => ((i - 1) - 4) \div 2 = k - 1 /\ (i - 1) % 2 = 1
      OBVIOUS
  <2>3. i % 2 # 0 => ((i - 3) - 4) \div 2 = k - 1 /\ (i - 3) % 2 = 0 /\ i % 2 = 1
      OBVIOUS
  <2>4. Turned(bits, k) <=> IF bits[k] = 1 THEN ~Turned(bits, k - 1) ELSE Turned(bits, k - 1)
      BY <2>1, TurnedStep
  <2>5. /\ w[i] = Light(i, k)
        /\ w[i - 2] = Light(i - 2, k - 1)
        /\ i % 2 = 0 => w[i - 1] = Light(i - 1, k - 1)
        /\ i % 2 # 0 => w[i - 3] = Light(i - 3, k - 1)
      BY <2>1, <2>2, <2>3
  <2> HIDE DEF w, k
  <2> QED BY <2>1, <2>2, <2>3, <2>4, <2>5 DEF k
<1>3. w = [i \in 0..27 |->
              IF i < 4 THEN Sync[i + 1]
              ELSE LET swap == bits[(i - 4) \div 2] = 1
                   IN  IF i % 2 = 0 THEN (IF swap THEN w[i - 1] ELSE w[i - 2])
                       ELSE (IF swap THEN w[i - 3] ELSE w[i - 2])]
  <2> DEFINE v == [i \in 0..27 |->
              IF i < 4 THEN Sync[i + 1]
              ELSE LET swap == bits[(i - 4) \div 2] = 1
                   IN  IF i % 2 = 0 THEN (IF swap THEN w[i - 1] ELSE w[i - 2])
                       ELSE (IF swap THEN w[i - 3] ELSE w[i - 2])]
  <2>1. \A i \in 0..27 : w[i] = v[i]
    <3> SUFFICES ASSUME NEW i \in 0..27 PROVE w[i] = v[i]
        OBVIOUS
    <3> HIDE DEF w
    <3>1. CASE i < 4
        BY <1>1, <3>1
    <3>2. CASE ~(i < 4)
      <4>1. i \in 4..27
          BY <3>2
      <4> QED BY <1>2, <3>2, <4>1
    <3> QED BY <3>1, <3>2
  <2>2. w = [i \in 0..27 |-> w[i]]
      OBVIOUS
  <2>3. v = [i \in 0..27 |-> v[i]]
      OBVIOUS
  <2>4. w = v
    <3> HIDE DEF w, v
    <3> QED BY <2>1, <2>2, <2>3, Zenon
  <2> HIDE DEF w
  <2> QED BY <2>4
<1> HIDE DEF w
<1> QED BY <1>3 DEF IsCode

(* So the code satisfies its definition.                                   *)
LEMMA CodeUnfolds ==
    ASSUME NEW bits
    PROVE  IsCode(Code(bits), bits)
<1>1. PICK w : IsCode(w, bits)
    BY CodeExists
<1> QED BY <1>1 DEF IsCode, Code

(* The lights of the pair k of a code: the sync steps end with pair -1.    *)
First(code, k) == code[(2 * k) + 4]
Second(code, k) == code[(2 * k) + 5]
Differ(code, k) ==
    \/ First(code, k) = Bright /\ Second(code, k) = Dim
    \/ First(code, k) = Dim /\ Second(code, k) = Bright

(* The rule of the code, by pairs.                                         *)
LEMMA Pairs ==
    ASSUME NEW bits, NEW k \in 0..11
    PROVE  LET code == Code(bits)
           IN  IF bits[k] = 1
               THEN First(code, k) = Second(code, k - 1) /\ Second(code, k) = First(code, k - 1)
               ELSE First(code, k) = First(code, k - 1) /\ Second(code, k) = Second(code, k - 1)
<1> DEFINE code == Code(bits)
           i == (2 * k) + 4
           j == (2 * k) + 5
<1>1. IsCode(code, bits)
    BY CodeUnfolds
<1>2. /\ i \in 4..27 /\ i % 2 = 0 /\ (i - 4) \div 2 = k
      /\ j \in 4..27 /\ j % 2 = 1 /\ (j - 4) \div 2 = k
    OBVIOUS
<1>3. /\ i - 1 = (2 * (k - 1)) + 5 /\ i - 2 = (2 * (k - 1)) + 4
      /\ j - 2 = (2 * (k - 1)) + 5 /\ j - 3 = (2 * (k - 1)) + 4
    OBVIOUS
<1> HIDE DEF code, i, j
<1>4. code[i] = IF bits[k] = 1 THEN code[i - 1] ELSE code[i - 2]
    BY <1>1, <1>2 DEF IsCode
<1>5. code[j] = IF bits[k] = 1 THEN code[j - 3] ELSE code[j - 2]
    BY <1>1, <1>2 DEF IsCode
<1> QED BY <1>3, <1>4, <1>5 DEF First, Second, code, i, j

(* The start: three bright steps and a dim one.                            *)
LEMMA SyncPair ==
    ASSUME NEW bits
    PROVE  LET code == Code(bits)
           IN  /\ code[0] = Bright /\ code[1] = Bright /\ code[2] = Bright /\ code[3] = Dim
               /\ Differ(code, -1)
<1> DEFINE code == Code(bits)
<1>1. IsCode(code, bits)
    BY CodeUnfolds
<1> HIDE DEF code
<1>2. \A i \in 0..3 : code[i] = Sync[i + 1]
    BY <1>1 DEF IsCode
<1>3. code[0] = Bright /\ code[1] = Bright /\ code[2] = Bright /\ code[3] = Dim
    BY <1>2, SyncSteps
<1> QED BY <1>3 DEF Differ, First, Second, code

(* Every pair but the first one of the sync steps has a bright and a dim   *)
(* light: turning a pair round and repeating it keep that.                 *)
LEMMA PairsDiffer ==
    ASSUME NEW bits
    PROVE  \A k \in -1..11 : Differ(Code(bits), k)
<1> DEFINE D(k) == Differ(Code(bits), k)
<1>1. D(-1)
    BY SyncPair
<1>2. ASSUME NEW k \in 0..11, D(k - 1) PROVE D(k)
    BY <1>2, Pairs DEF Differ
<1> HIDE DEF D
<1>3. D(0)
    BY <1>1, <1>2
<1>4. D(1)
    BY <1>3, <1>2
<1>5. D(2)
    BY <1>4, <1>2
<1>6. D(3)
    BY <1>5, <1>2
<1>7. D(4)
    BY <1>6, <1>2
<1>8. D(5)
    BY <1>7, <1>2
<1>9. D(6)
    BY <1>8, <1>2
<1>10. D(7)
    BY <1>9, <1>2
<1>11. D(8)
    BY <1>10, <1>2
<1>12. D(9)
    BY <1>11, <1>2
<1>13. D(10)
    BY <1>12, <1>2
<1>14. D(11)
    BY <1>13, <1>2
<1>15. \A k \in -1..11 : D(k)
    BY <1>1, <1>3, <1>4, <1>5, <1>6, <1>7, <1>8, <1>9, <1>10, <1>11, <1>12, <1>13, <1>14
<1> QED BY <1>15 DEF D

(* The sync steps occur at the start only.                                 *)
LEMMA StartIsUnique ==
    ASSUME NEW bits, NEW i \in 0..27
    PROVE  StartsAt(Code(bits), i) <=> i = 0
<1> DEFINE code == Code(bits)
<1>1. /\ code[0] = Bright /\ code[1] = Bright /\ code[2] = Bright /\ code[3] = Dim
    BY SyncPair
<1>2. \A k \in -1..11 : Differ(code, k)
    BY PairsDiffer
<1>3. Bright # Dim
    BY DEF Bright, Dim
<1> HIDE DEF code
<1>4. CASE i = 0
    BY <1>1, <1>4 DEF StartsAt, code
<1>5. ASSUME i # 0, StartsAt(code, i) PROVE FALSE
  <2>1. code[(i + 3) % 28] = Dim /\ \A j \in 0..2 : code[(i + j) % 28] = Bright
      BY <1>5 DEF StartsAt
  <2>2. CASE i = 27
    <3>1. (i + 3) % 28 = 2
        BY <2>2
    <3> QED BY <1>1, <1>3, <2>1, <3>1
  <2>3. CASE i < 27 /\ i % 2 = 0
    <3>1. \E k \in -1..11 : i = (2 * k) + 4
        BY <1>5, <2>3
    <3>2. PICK k \in -1..11 : i = (2 * k) + 4
        BY <3>1
    <3>3. (i + 0) % 28 = (2 * k) + 4 /\ (i + 1) % 28 = (2 * k) + 5
        BY <2>3, <3>2
    <3>4. code[(2 * k) + 4] = Bright /\ code[(2 * k) + 5] = Bright
        BY <2>1, <3>3
    <3> QED BY <1>2, <1>3, <3>4 DEF Differ, First, Second
  <2>4. CASE i < 27 /\ i % 2 = 1
    <3>1. \E k \in -1..11 : i = (2 * k) + 3
        BY <2>4
    <3>2. PICK k \in -1..11 : i = (2 * k) + 3
        BY <3>1
    <3>3. (i + 1) % 28 = (2 * k) + 4 /\ (i + 2) % 28 = (2 * k) + 5
        BY <2>4, <3>2
    <3>4. code[(2 * k) + 4] = Bright /\ code[(2 * k) + 5] = Bright
        BY <2>1, <3>3
    <3> QED BY <1>2, <1>3, <3>4 DEF Differ, First, Second
  <2> QED BY <2>2, <2>3, <2>4
<1> QED BY <1>4, <1>5 DEF code

(* A bit of a number is 0 or 1.                                            *)
LEMMA BitIsBit ==
    ASSUME NEW n \in Nat, NEW k \in 0..7
    PROVE  Bit(n, k) \in {0, 1}
<1> DEFINE w == 2^k
<1>1. w \in {1, 2, 4, 8, 16, 32, 64, 128}
  <2>1. CASE k = 0
      BY <2>1
  <2>2. CASE k = 1
      BY <2>2
  <2>3. CASE k = 2
      BY <2>3
  <2>4. CASE k = 3
      BY <2>4
  <2>5. CASE k = 4
      BY <2>5
  <2>6. CASE k = 5
      BY <2>6
  <2>7. CASE k = 6
      BY <2>7
  <2>8. CASE k = 7
      BY <2>8
  <2> QED BY <2>1, <2>2, <2>3, <2>4, <2>5, <2>6, <2>7, <2>8
<1> HIDE DEF w
<1>2. (n \div w) % 2 \in {0, 1}
    BY <1>1
<1> QED BY <1>2 DEF Bit, w

(* fill_u8_hamming leaves each data bit at its place.                      *)
LEMMA DataAtPlace ==
    ASSUME NEW seq \in 0..255, NEW garbage, NEW i \in 1..8
    PROVE  /\ DataPlaces[i] \in {2, 4, 5, 6, 8, 9, 10, 11}
           /\ fill_u8_hamming(seq, garbage)[DataPlaces[i]] = Bit(seq, 8 - i)
<1> DEFINE p == DataPlaces[i]
<1>1. p \in {2, 4, 5, 6, 8, 9, 10, 11}
    BY DEF DataPlaces
<1>2. \A j \in 1..8 : DataPlaces[j] = p => j = i
    BY DEF DataPlaces
<1>3. (CHOOSE j \in 1..8 : DataPlaces[j] = p) = i
    BY <1>2
<1>4. DataBits(seq)[p] = Bit(seq, 8 - i)
    BY <1>1, <1>3 DEF DataBits
<1> HIDE DEF p
<1>5. fill_u8_hamming(seq, garbage)[p] = DataBits(seq)[p]
    BY <1>1 DEF fill_u8_hamming
<1> QED BY <1>1, <1>4, <1>5 DEF p

(* Of fill_u8_hamming and blink_prepare_pattern: for all 256 numbers and   *)
(* whatever the parities were made from, the start can be found and the    *)
(* number read.                                                            *)
THEOREM CodeAlwaysDecodes == Decodes
<1> SUFFICES ASSUME NEW seq \in 0..255, NEW garbage \in [ParityPlaces -> {0, 1}]
             PROVE  LET bits == fill_u8_hamming(seq, garbage)
                        code == [i \in 0..27 |-> Code(bits)[i]]
                    IN  /\ \A i \in 0..27 : StartsAt(code, i) <=> i = 0
                        /\ \A i \in 1..8 : Received(code)[DataPlaces[i]] = Bit(seq, 8 - i)
    BY DEF Decodes
<1> DEFINE bits == fill_u8_hamming(seq, garbage)
           code == [i \in 0..27 |-> Code(bits)[i]]
<1>1. code = Code(bits)
  <2>1. IsCode(Code(bits), bits)
      BY CodeUnfolds
  <2> HIDE DEF bits
  <2> QED BY <2>1 DEF IsCode
<1>2. \A i \in 0..27 : StartsAt(code, i) <=> i = 0
    BY <1>1, StartIsUnique
<1>3. ASSUME NEW i \in 1..8 PROVE Received(code)[DataPlaces[i]] = Bit(seq, 8 - i)
  <2> DEFINE k == DataPlaces[i]
  <2>1. k \in 0..11 /\ bits[k] = Bit(seq, 8 - i) /\ Bit(seq, 8 - i) \in {0, 1}
    <3>1. k \in {2, 4, 5, 6, 8, 9, 10, 11} /\ bits[k] = Bit(seq, 8 - i)
        BY DataAtPlace
    <3>2. 8 - i \in 0..7 /\ seq \in Nat
        OBVIOUS
    <3>3. Bit(seq, 8 - i) \in {0, 1}
        BY <3>2, BitIsBit
    <3> QED BY <3>1, <3>3
  <2> HIDE DEF k, bits
  <2>2. Differ(code, k - 1)
      BY <1>1, <2>1, PairsDiffer
  <2>3. IF bits[k] = 1 THEN First(code, k) = Second(code, k - 1)
                       ELSE First(code, k) = First(code, k - 1)
      BY <1>1, <2>1, Pairs
  <2>4. First(code, k) = First(code, k - 1) <=> bits[k] # 1
      BY <2>2, <2>3 DEF Differ, Bright, Dim
  <2>5. First(code, k) = code[4 + 2*k] /\ First(code, k - 1) = code[2 + 2*k]
    <3>1. (2 * k) + 4 = 4 + 2*k /\ (2 * (k - 1)) + 4 = 2 + 2*k
        BY <2>1
    <3> QED BY <3>1 DEF First
  <2> HIDE DEF code
  <2>6. Received(code)[k] = IF code[4 + 2*k] = code[2 + 2*k] THEN 0 ELSE 1
      BY <2>1 DEF Received
  <2> QED BY <2>1, <2>4, <2>5, <2>6 DEF k
<1> QED BY <1>2, <1>3

(* So whenever the LED blinks the sequence number it can be read from it.  *)
THEOREM CodeAlwaysReadable == LedSpec => []CodeDecodes
<1>1. CodeDecodes
    BY CodeAlwaysDecodes DEF CodeDecodes
<1> QED BY <1>1, PTL
=============================================================================
