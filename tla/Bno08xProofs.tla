---------------------------- MODULE Bno08xProofs ----------------------------
(***************************************************************************)
(* Proofs about Bno08x, for any number of tasks, reports, restarts and     *)
(* faults: the types, and the bits of the reports, of which each that is   *)
(* set is true of the sensor.                                              *)
(*                                                                         *)
(* The second rests on what the callers have left to do: their lists of    *)
(* steps stay well formed, so that a step is known to follow and to        *)
(* precede others, and a caller that is about to set or to clear a bit is  *)
(* known to have had its command sent.                                     *)
(***************************************************************************)
EXTENDS Bno08x, TLAPS

\* What a wait has returned, and whether a reset reason is queued.
OkType == ok \in [Callers -> BOOLEAN] /\ idq \in BOOLEAN

\* What an edge of the line does: the SPI task is notified, or nothing, ...
Wakes ==
    /\ UNCHANGED <<device, looping, tasks, imu, callers, history>>
    /\ UNCHANGED <<intr, notify>> \/ (handle # 0 /\ intr' = FALSE /\ notify' = notify \cup {handle})
\* ... and what it does to the sensor.
Asserts == hub # "low" /\ UNCHANGED <<hub, hubOut, hubReports>> /\ (low' = low \/ low' = TRUE)

(* An edge wakes the SPI task, is lost or restarts the node.               *)
LEMMA EdgeIs ==
    ASSUME HubAssert \/ HubRetry
    PROVE  (Wakes \/ Restart) /\ Asserts
<1>1. Edge
    BY DEF HubAssert, HubRetry
<1>2. Wakes \/ Restart
    BY <1>1 DEF Edge, HintHandler, EdgeLost, NullHandle, Wakes, line
<1>3. Asserts
    BY DEF HubAssert, HubRetry, Asserts, sensor
<1> QED BY <1>2, <1>3

(* Every step keeps OkType.                                                *)
LEMMA OkStep ==
    ASSUME OkType, [Next]_vars
    PROVE  OkType'
<1> USE DEF OkType
<1>1. ASSUME NEW c \in Callers, NEW s \in BOOLEAN, Result(c, s) PROVE ok' \in [Callers -> BOOLEAN]
    BY <1>1 DEF Result
<1>2. ASSUME HubReport \/ HubFault \/ Wakes PROVE OkType'
    BY <1>2 DEF HubReport, HubFault, Wakes, callers, device
<1>8. ASSUME Restart PROVE OkType'
    BY <1>8 DEF Restart
<1>3. ASSUME NEW g \in Gens, SpiTask(g) PROVE OkType'
    BY <1>3 DEF SpiTask, SpiLoop, SpiSend, SpiReceive, Serve, callers, device
<1>4. ASSUME NEW g \in Gens, DataParse(g) PROVE OkType'
    BY <1>4 DEF DataParse, ParseProductId, callers
<1>5. ASSUME NEW c \in Callers, StartRead(c) \/ StartCall(c) PROVE OkType'
    BY <1>5 DEF StartRead, StartCall, device
<1>6. ASSUME NEW c \in Callers, CallerStep(c) PROVE OkType'
  <2>1. CASE WaitTx(c) \/ WaitRx(c)
    <3>1. \E bit \in Bits : Await(c, bit)
        BY <2>1 DEF WaitTx, WaitRx, Bits
    <3>2. \E b \in BOOLEAN : Decide(c, b)
        BY <3>1 DEF Await
    <3>3. \E b \in BOOLEAN : Result(c, b)
        BY <3>2 DEF Decide
    <3>4. idq' = idq
        BY <2>1 DEF WaitTx, WaitRx
    <3> QED BY <1>1, <3>3, <3>4
  <2>2. CASE Wipe(c)
    <3>1. ok[c] \in BOOLEAN
        OBVIOUS
    <3>2. \E b \in BOOLEAN : Result(c, b)
        BY <2>2, <3>1 DEF Wipe, Decide
    <3>3. idq' = idq
        BY <2>2 DEF Wipe
    <3> QED BY <1>1, <3>2, <3>3
  <2>3. CASE TakeReason(c)
    <3>1. Result(c, idq) /\ idq' = FALSE
        BY <2>3 DEF TakeReason
    <3>2. ok' \in [Callers -> BOOLEAN]
        BY <1>1, <3>1
    <3>3. idq' \in BOOLEAN
        BY <3>1
    <3> QED BY <3>2, <3>3
  <2>4. CASE WaitVerdict(c)
    <3>1. (ok' = ok \/ Result(c, FALSE)) /\ idq' = idq
        BY <2>4 DEF WaitVerdict, device
    <3> QED BY <1>1, <3>1
  <2>5. CASE Judge(c)
    <3>1. Result(c, "valid" \in bits) /\ idq' = idq
        BY <2>5 DEF Judge, device
    <3>2. ("valid" \in bits) \in BOOLEAN
        OBVIOUS
    <3>3. ok' \in [Callers -> BOOLEAN]
        BY <1>1, <3>1, <3>2
    <3> QED BY <3>1, <3>3
  <2>6. CASE Configured(c) \/ EndToggle(c) \/ EndBoot(c)
    <3>1. Result(c, TRUE) /\ idq' = idq
        BY <2>6 DEF Configured, EndToggle, EndBoot, device
    <3> QED BY <1>1, <3>1
  <2>7. CASE \/ Listen(c) \/ FlushRx(c) \/ ClearReports(c) \/ ResetPin(c) \/ QueuePacket(c) \/ Forget(c)
             \/ Spawn(c) \/ CheckInit(c) \/ EnableNext(c) \/ SetReport(c) \/ Unmask(c) \/ UnsetReport(c)
             \/ Mask(c) \/ DataAvailable(c)
      BY <2>7 DEF Listen, FlushRx, ClearReports, ResetPin, QueuePacket, Forget, Spawn, CheckInit, EnableNext,
           SetReport, Unmask, UnsetReport, Mask, DataAvailable, device
  <2> QED BY <1>6, <2>1, <2>2, <2>3, <2>4, <2>5, <2>6, <2>7 DEF CallerStep
<1>7. ASSUME UNCHANGED vars PROVE OkType'
    BY <1>7 DEF vars, callers, device
<1> QED BY <1>2, <1>3, <1>4, <1>5, <1>6, <1>7, <1>8, EdgeIs DEF Next, Callers

-----------------------------------------------------------------------------
(* What a caller has left to do.  A list of steps is well formed if every  *)
(* step has the neighbours that the calls give it; a caller that is in the *)
(* middle of a call has lost those before its next step.                   *)

\* The steps that a branch may jump to, and the place just after the end.
Landings == {"wipe", "unless", "forget", "check", "boot", "on"}
Lands(s, m) == m = Len(s) + 1 \/ (m \in 1 .. Len(s) /\ s[m][1] \in Landings)

\* A packet has a known kind and, if it enables, a report.
Typed(s, j) ==
    /\ s[j][1] = "queue" => /\ s[j][2] \in Commands /\ s[j][3] \in 0 .. NReports
                            /\ s[j][2] = "enable" => s[j][3] \in Reports
    /\ s[j][1] \in {"set", "enable"} => s[j][3] \in Reports
    /\ s[j][1] = "flush" => s[j][3] \in 1 .. NFlush
\* A command is waited for; the bit of a report to disable is cleared after.
AfterQueue(s, j) ==
    s[j][1] = "queue" =>
        /\ j + 2 <= Len(s) /\ s[j+1][1] = "listen" /\ s[j+2][1] = "tx"
        /\ s[j][2] = "disable" => j + 3 <= Len(s) /\ s[j+3] = At("unset", s[j][3])
\* Nobody waits but for a command.
BeforeTx(s, j) ==
    s[j][1] = "tx" => /\ j = 1 \/ s[j-1][1] = "listen"
                      /\ j <= 2 \/ s[j-2][1] = "queue"
\* The bit of a report is set after the command that enables it.
BeforeSet(s, j) ==
    s[j][1] = "set" => /\ j = 1 \/ s[j-1][1] = "tx"
                       /\ j <= 3 \/ s[j-3] = Queue("enable", s[j][3])
\* It is cleared by a call that has done nothing else but the command.
BeforeUnset(s, j) ==
    s[j][1] = "unset" => /\ j = 1 \/ s[j-1][1] = "tx"
                         /\ \A i \in 1 .. j-1 : s[i][1] \in {"queue", "listen", "tx"}
\* All bits are cleared before the sensor is reset.
BeforeReset(s, j) ==
    /\ s[j][1] = "low" => /\ j = 1 \/ s[j-1][1] = "clear"
                          /\ j < Len(s) /\ s[j+1][1] = "high"
    /\ s[j][1] = "high" => j = 1 \/ s[j-1][1] = "low"
    /\ s[j][1] = "queue" /\ s[j][2] = "reset" => j = 1 \/ s[j-1][1] = "clear"
\* Where branches land; the first report to enable is the last step but one.
Jumps(s, j) ==
    /\ s[j][1] = "unless" => Lands(s, j + 1 + s[j][3])
    /\ s[j][1] \in {"valid", "check"} => Lands(s, j + 2)
    /\ s[j][1] = "enable" => Len(s) = j + 1 /\ s[j+1][1] \in {"boot", "on"}

FormedAt(s, j) ==
    /\ Typed(s, j) /\ AfterQueue(s, j) /\ BeforeTx(s, j) /\ BeforeSet(s, j)
    /\ BeforeUnset(s, j) /\ BeforeReset(s, j) /\ Jumps(s, j)
WellFormed(s) == \A j \in 1 .. Len(s) : FormedAt(s, j)

\* The steps of the readers.
ReadNames == {"avail", "listen", "rx", "unless", "valid", "judge", "wipe"}
TodoInv ==
    /\ todo \in [Callers -> Seq(Step)]
    /\ \A c \in Callers : WellFormed(todo[c])
    /\ \A r \in Readers : \A j \in DOMAIN todo[r] : todo[r][j][1] \in ReadNames

\* The caller has queued a command and has not yet got its bit.
Waits(s) == s # <<>> /\ (s[1][1] = "tx" \/ (s[1][1] = "listen" /\ Len(s) > 1 /\ s[2][1] = "tx"))
Awaited(s) == IF s[1][1] = "tx" THEN 2 ELSE 3  \* the step after the wait

\* If no two calls overlapped: at most one administrator is at work, and
\* nothing is queued or done that nobody waits for.
OneAdmin == \A a, b \in Admins : todo[a] # <<>> /\ todo[b] # <<>> => a = b
CalmInv == (\A a \in Admins : ~Waits(todo[a])) => txq = <<>> /\ "tx" \notin bits

-----------------------------------------------------------------------------
(* Suffixes: a caller takes its steps in order.                            *)

Suffix(t, s, n) ==
    /\ t \in Seq(Step) /\ Len(t) = Len(s) - n
    /\ \A i \in 1 .. Len(t) : t[i] = s[n + i]

\* The next step is none of those that need something of the driver's state.
Plain(s) ==
    /\ ~Waits(s)
    /\ s # <<>> => /\ s[1][1] \notin {"set", "unset", "low", "high"}
                   /\ ~(s[1][1] = "queue" /\ s[1][2] = "reset")

(* What is left after one step is a suffix ...                             *)
LEMMA TailIsSuffix ==
    ASSUME NEW s \in Seq(Step), s # <<>>
    PROVE  1 \in 1 .. Len(s) /\ Suffix(Tail(s), s, 1)
BY DEF Suffix

(* ... and after a jump.                                                   *)
LEMMA DropIsSuffix ==
    ASSUME NEW s \in Seq(Step), NEW n \in 0 .. Len(s)
    PROVE  Suffix(Drop(s, n), s, n)
BY DEF Suffix, Drop

(* The number that a step carries is a natural number.                     *)
LEMMA StepFields ==
    ASSUME NEW p \in Step
    PROVE  p[1] \in StepNames /\ p[2] \in Commands \cup {"none"} /\ p[3] \in Nat
<1>1. NReports + NFlush + 12 \in Nat
    BY BnoAssumption
<1> QED BY <1>1 DEF Step

(* Whatever a caller has left of a well formed list is well formed: the    *)
(* conditions on the steps before a step are void where the list was cut.  *)
LEMMA SuffixFormed ==
    ASSUME NEW s \in Seq(Step), WellFormed(s), NEW n \in 0 .. Len(s), NEW t, Suffix(t, s, n)
    PROVE  WellFormed(t)
<1> SUFFICES ASSUME NEW j \in 1 .. Len(t)
             PROVE  FormedAt(t, j)
    BY DEF WellFormed
<1>1. t \in Seq(Step) /\ Len(t) = Len(s) - n /\ \A i \in 1 .. Len(t) : t[i] = s[n + i]
    BY DEF Suffix
<1>2. PICK k \in 1 .. Len(s) : k = n + j
    BY <1>1
<1>3. /\ t[j] = s[k] /\ Len(t) - j = Len(s) - k /\ j <= k /\ n \in Nat
      /\ j > 1 => t[j - 1] = s[k - 1]
      /\ j > 2 => t[j - 2] = s[k - 2]
      /\ j > 3 => t[j - 3] = s[k - 3]
  <2>1. t[j] = s[k]
      BY <1>1, <1>2
  <2>2. ASSUME j > 1 PROVE t[j - 1] = s[k - 1]
    <3>1. j - 1 \in 1 .. Len(t) /\ n + (j - 1) = k - 1
        BY <1>1, <1>2, <2>2
    <3> QED BY <1>1, <3>1
  <2>3. ASSUME j > 2 PROVE t[j - 2] = s[k - 2]
    <3>1. j - 2 \in 1 .. Len(t) /\ n + (j - 2) = k - 2
        BY <1>1, <1>2, <2>3
    <3> QED BY <1>1, <3>1
  <2>4. ASSUME j > 3 PROVE t[j - 3] = s[k - 3]
    <3>1. j - 3 \in 1 .. Len(t) /\ n + (j - 3) = k - 3
        BY <1>1, <1>2, <2>4
    <3> QED BY <1>1, <3>1
  <2>5. Len(t) - j = Len(s) - k /\ j <= k /\ n \in Nat
      BY <1>1, <1>2
  <2> QED BY <2>1, <2>2, <2>3, <2>4, <2>5
<1>4. ASSUME NEW m \in Nat, k + m <= Len(s) PROVE j + m <= Len(t) /\ t[j + m] = s[k + m]
  <2>1. j + m \in 1 .. Len(t) /\ n + (j + m) = k + m
      BY <1>1, <1>2, <1>4
  <2> QED BY <1>1, <2>1
<1>5. ASSUME NEW i \in 1 .. j - 1 PROVE n + i \in 1 .. k - 1 /\ t[i] = s[n + i]
    BY <1>1, <1>2
<1>6. /\ Typed(s, k) /\ AfterQueue(s, k) /\ BeforeTx(s, k) /\ BeforeSet(s, k)
      /\ BeforeUnset(s, k) /\ BeforeReset(s, k) /\ Jumps(s, k)
    BY <1>2 DEF WellFormed, FormedAt
<1>7. AfterQueue(t, j)
  <2>1. /\ k + 1 <= Len(s) => j + 1 <= Len(t) /\ t[j + 1] = s[k + 1]
        /\ k + 2 <= Len(s) => j + 2 <= Len(t) /\ t[j + 2] = s[k + 2]
        /\ k + 3 <= Len(s) => j + 3 <= Len(t) /\ t[j + 3] = s[k + 3]
      BY <1>4
  <2> SUFFICES ASSUME t[j][1] = "queue" PROVE AfterQueue(t, j)
      BY DEF AfterQueue
  <2>2. k + 2 <= Len(s) /\ s[k + 1][1] = "listen" /\ s[k + 2][1] = "tx"
      BY <1>3, <1>6 DEF AfterQueue
  <2>3. k + 1 <= Len(s)
      BY <1>2, <2>2
  <2>4. t[j][2] = "disable" => k + 3 <= Len(s) /\ s[k + 3] = At("unset", t[j][3])
      BY <1>3, <1>6 DEF AfterQueue
  <2> QED BY <2>1, <2>2, <2>3, <2>4 DEF AfterQueue
<1>8. BeforeTx(t, j)
    BY <1>2, <1>3, <1>6 DEF BeforeTx
<1>9. BeforeSet(t, j)
  <2>1. t[j][1] = "set" => k = 1 \/ s[k - 1][1] = "tx"
      BY <1>3, <1>6 DEF BeforeSet
  <2>2. t[j][1] = "set" => k <= 3 \/ s[k - 3] = Queue("enable", t[j][3])
      BY <1>3, <1>6 DEF BeforeSet
  <2>3. (k = 1 => j = 1) /\ (k <= 3 => j <= 3)
      BY <1>2, <1>3
  <2> QED BY <1>3, <2>1, <2>2, <2>3 DEF BeforeSet
<1>10. BeforeUnset(t, j)
  <2> SUFFICES ASSUME t[j][1] = "unset" PROVE BeforeUnset(t, j)
      BY DEF BeforeUnset
  <2>1. (k = 1 \/ s[k - 1][1] = "tx") /\ \A i \in 1 .. k - 1 : s[i][1] \in {"queue", "listen", "tx"}
      BY <1>3, <1>6 DEF BeforeUnset
  <2>2. j = 1 \/ t[j - 1][1] = "tx"
      BY <1>2, <1>3, <2>1
  <2>3. \A i \in 1 .. j - 1 : t[i][1] \in {"queue", "listen", "tx"}
      BY <1>5, <2>1
  <2> QED BY <2>2, <2>3 DEF BeforeUnset
<1>11. BeforeReset(t, j)
  <2>1. k + 1 <= Len(s) => j + 1 <= Len(t) /\ t[j + 1] = s[k + 1]
      BY <1>4
  <2>2. k < Len(s) => k + 1 <= Len(s) /\ j < Len(t)
      BY <1>3, <2>1
  <2> QED BY <1>2, <1>3, <1>6, <2>1, <2>2 DEF BeforeReset
<1>12. ASSUME NEW m \in Nat, Lands(s, k + m) PROVE Lands(t, j + m)
  <2>1. CASE k + m = Len(s) + 1
    <3>1. j + m = Len(t) + 1
        BY <1>1, <1>2, <2>1
    <3> QED BY <3>1 DEF Lands
  <2>2. CASE k + m \in 1 .. Len(s) /\ s[k + m][1] \in Landings
    <3>1. j + m \in 1 .. Len(t) /\ t[j + m] = s[k + m]
        BY <1>4, <2>2
    <3> QED BY <2>2, <3>1 DEF Lands
  <2> QED BY <1>12, <2>1, <2>2 DEF Lands
<1>13. t[j][3] \in Nat
    BY <1>1, StepFields
<1>14. Jumps(t, j)
  <2>1. ASSUME t[j][1] = "unless" PROVE Lands(t, j + 1 + t[j][3])
    <3>1. Lands(s, k + 1 + t[j][3])
        BY <1>3, <1>6, <2>1 DEF Jumps
    <3>2. PICK m \in Nat : m = t[j][3]
        BY <1>13
    <3>3. k + 1 + m = k + (1 + m) /\ j + 1 + m = j + (1 + m) /\ 1 + m \in Nat
        BY <1>2
    <3> QED BY <1>12, <3>1, <3>2, <3>3
  <2>2. ASSUME t[j][1] \in {"valid", "check"} PROVE Lands(t, j + 2)
    <3>1. Lands(s, k + 2)
        BY <1>3, <1>6, <2>2 DEF Jumps
    <3> QED BY <1>12, <3>1
  <2>3. ASSUME t[j][1] = "enable" PROVE Len(t) = j + 1 /\ t[j + 1][1] \in {"boot", "on"}
    <3>1. Len(s) = k + 1 /\ s[k + 1][1] \in {"boot", "on"}
        BY <1>3, <1>6, <2>3 DEF Jumps
    <3>2. Len(t) = j + 1 /\ k + 1 <= Len(s)
        BY <1>1, <1>2, <3>1
    <3> QED BY <1>4, <3>1, <3>2
  <2> QED BY <2>1, <2>2, <2>3 DEF Jumps
<1>15. Typed(t, j)
    BY <1>3, <1>6 DEF Typed
<1> QED BY <1>7, <1>8, <1>9, <1>10, <1>11, <1>14, <1>15 DEF FormedAt

(* A suffix of a suffix is a suffix.                                       *)
LEMMA SuffixOfSuffix ==
    ASSUME NEW s \in Seq(Step), NEW n \in 0 .. Len(s), NEW t, Suffix(t, s, n),
           NEW m \in 0 .. Len(t), NEW u, Suffix(u, t, m)
    PROVE  n + m \in 0 .. Len(s) /\ Suffix(u, s, n + m)
<1>1. /\ t \in Seq(Step) /\ Len(t) = Len(s) - n /\ u \in Seq(Step) /\ Len(u) = Len(t) - m
      /\ \A i \in 1 .. Len(t) : t[i] = s[n + i]
      /\ \A i \in 1 .. Len(u) : u[i] = t[m + i]
    BY DEF Suffix
<1>2. n + m \in 0 .. Len(s) /\ Len(u) = Len(s) - (n + m)
    BY <1>1
<1>3. ASSUME NEW i \in 1 .. Len(u) PROVE u[i] = s[(n + m) + i]
  <2>1. m + i \in 1 .. Len(t) /\ n + (m + i) = (n + m) + i
      BY <1>1
  <2> QED BY <1>1, <2>1
<1> QED BY <1>1, <1>2, <1>3 DEF Suffix

(* Most steps are followed by a plain list ...                             *)
LEMMA PopIsPlain ==
    ASSUME NEW s \in Seq(Step), WellFormed(s), s # <<>>, NEW t, Suffix(t, s, 1),
           s[1][1] \notin {"queue", "tx", "clear", "low"}, ~Waits(s)
    PROVE  Plain(t)
<1> SUFFICES ASSUME t # <<>> PROVE Plain(t)
    BY DEF Plain, Waits
<1>1. t \in Seq(Step) /\ Len(t) = Len(s) - 1 /\ Len(t) >= 1 /\ t[1] = s[2] /\ (Len(t) > 1 => t[2] = s[3])
    BY DEF Suffix
<1>2. BeforeTx(s, 2) /\ BeforeSet(s, 2) /\ BeforeUnset(s, 2) /\ BeforeReset(s, 2)
    BY <1>1 DEF WellFormed, FormedAt
<1>3. Len(t) > 1 => BeforeTx(s, 3)
    BY <1>1 DEF WellFormed, FormedAt
<1>4. t[1][1] # "tx"
    BY <1>1, <1>2 DEF BeforeTx, Waits
<1>5. ~(t[1][1] = "listen" /\ Len(t) > 1 /\ t[2][1] = "tx")
    BY <1>1, <1>3 DEF BeforeTx
<1>6. t[1][1] \notin {"set", "unset", "low", "high"} /\ ~(t[1][1] = "queue" /\ t[1][2] = "reset")
    BY <1>1, <1>2 DEF BeforeSet, BeforeUnset, BeforeReset
<1> QED BY <1>4, <1>5, <1>6 DEF Plain, Waits

(* ... and so is every jump.                                               *)
LEMMA LandingIsPlain ==
    ASSUME NEW s \in Seq(Step), NEW n \in 1 .. Len(s), Lands(s, n + 1), NEW t, Suffix(t, s, n)
    PROVE  Plain(t)
<1> SUFFICES ASSUME t # <<>> PROVE Plain(t)
    BY DEF Plain, Waits
<1>1. t \in Seq(Step) /\ Len(t) = Len(s) - n /\ Len(t) >= 1 /\ t[1] = s[n + 1]
    BY DEF Suffix
<1>2. t[1][1] \in Landings
    BY <1>1 DEF Lands
<1> QED BY <1>2 DEF Plain, Waits, Landings

(* A branch drops nothing, or it was at an "unless" and lands.             *)
LEMMA BranchIs ==
    ASSUME NEW s \in Seq(Step), WellFormed(s), NEW b \in BOOLEAN
    PROVE  \E n \in 0 .. Len(s) :
             /\ Suffix(Branch(s, b), s, n)
             /\ \/ n = 0 /\ Branch(s, b) = s
                \/ s # <<>> /\ s[1][1] = "unless" /\ Plain(Branch(s, b))
<1>1. CASE ~(s # <<>> /\ s[1][1] = "unless")
  <2>1. Branch(s, b) = s
      BY <1>1 DEF Branch
  <2>2. 0 \in 0 .. Len(s) /\ Suffix(s, s, 0)
      BY DEF Suffix
  <2> QED BY <2>1, <2>2
<1>2. CASE s # <<>> /\ s[1][1] = "unless" /\ b
  <2>1. Branch(s, b) = Drop(s, 1) /\ 1 \in 0 .. Len(s)
      BY <1>2 DEF Branch
  <2>2. Suffix(Branch(s, b), s, 1)
      BY <2>1, DropIsSuffix
  <2>3. Plain(Branch(s, b))
      BY <1>2, <2>2, PopIsPlain DEF Waits
  <2> QED BY <1>2, <2>1, <2>2, <2>3
<1>3. CASE s # <<>> /\ s[1][1] = "unless" /\ ~b
  <2> DEFINE n == 1 + s[1][3]
  <2>1. 1 \in 1 .. Len(s) /\ s[1] \in Step
      BY <1>3
  <2>2. s[1][3] \in Nat
      BY <2>1, StepFields
  <2>3. Lands(s, n + 1)
    <3>1. Jumps(s, 1)
        BY <2>1 DEF WellFormed, FormedAt
    <3> QED BY <1>3, <2>2, <3>1 DEF Jumps
  <2>4. n \in 1 .. Len(s) /\ n \in 0 .. Len(s)
      BY <2>1, <2>2, <2>3 DEF Lands
  <2>5. Branch(s, b) = Drop(s, n)
      BY <1>3 DEF Branch
  <2>6. Suffix(Branch(s, b), s, n)
      BY <2>4, <2>5, DropIsSuffix
  <2>7. Plain(Branch(s, b))
      BY <2>3, <2>4, <2>6, LandingIsPlain
  <2> QED BY <1>3, <2>4, <2>6, <2>7
<1> QED BY <1>1, <1>2, <1>3

-----------------------------------------------------------------------------
(* The calls of the driver, written out.                                   *)

HardResetCall ==
    <<Do("clear"), Do("low"), Do("high"), Do("listen"), Do("rx"), Unless(2), Do("listen"),
      Do("rx")>>

(* Every call of the driver is well formed: BNO08x_hard_reset, ...         *)
LEMMA HardResetFormed ==
    WellFormed(HardResetCall)
<1> SUFFICES ASSUME NEW j \in 1 .. 8
             PROVE  FormedAt(HardResetCall, j)
    BY DEF WellFormed, HardResetCall
<1> USE BnoAssumption DEF HardResetCall, Do, At, Queue, Unless, Reports
<1> QED BY DEF FormedAt, Typed, AfterQueue, BeforeTx, BeforeSet, BeforeUnset, BeforeReset, Jumps, Lands,
               Landings, Commands

BootCall ==
    <<Do("forget"), Do("spawn"), Do("clear"), Do("low"), Do("high"), Do("listen"), Do("rx"),
      Unless(2), Do("listen"), Do("rx"), Unless(12), Queue("id", 0), Do("listen"), Do("tx"),
      Unless(8), Do("listen"), Do("rx"), Unless(2), Do("valid"), Do("judge"), Do("wipe"),
      Unless(1), Do("reason"), Do("check"), At("enable", 1), Do("boot")>>

(* ... bno08x_init, ...                                                    *)
LEMMA BootFormed ==
    WellFormed(BootCall)
<1> SUFFICES ASSUME NEW j \in 1 .. 26
             PROVE  FormedAt(BootCall, j)
    BY DEF WellFormed, BootCall
<1> USE BnoAssumption DEF BootCall, Do, At, Queue, Unless, Reports
<1>1. Typed(BootCall, j)
    BY DEF Typed, Commands
<1>2. AfterQueue(BootCall, j)
    BY DEF AfterQueue
<1>3. BeforeTx(BootCall, j)
    BY DEF BeforeTx
<1>4. BeforeSet(BootCall, j)
    BY DEF BeforeSet
<1>5. BeforeUnset(BootCall, j)
    BY DEF BeforeUnset
<1>6. BeforeReset(BootCall, j)
    BY DEF BeforeReset
<1>7. Jumps(BootCall, j)
    BY DEF Jumps, Lands, Landings
<1> QED BY <1>1, <1>2, <1>3, <1>4, <1>5, <1>6, <1>7 DEF FormedAt

ToggleOnCall ==
    <<Do("clear"), Do("low"), Do("high"), Do("listen"), Do("rx"), Unless(2), Do("listen"),
      Do("rx"), Do("forget"), Do("spawn"), Do("clear"), Do("low"), Do("high"), Do("listen"),
      Do("rx"), Unless(2), Do("listen"), Do("rx"), Unless(12), Queue("id", 0), Do("listen"),
      Do("tx"), Unless(8), Do("listen"), Do("rx"), Unless(2), Do("valid"), Do("judge"),
      Do("wipe"), Unless(1), Do("reason"), Do("check"), At("enable", 1), Do("on")>>

(* ... bno08x_toggle that enables, ...                                     *)
LEMMA ToggleOnFormed ==
    WellFormed(ToggleOnCall)
<1> SUFFICES ASSUME NEW j \in 1 .. 34
             PROVE  FormedAt(ToggleOnCall, j)
    BY DEF WellFormed, ToggleOnCall
<1> USE BnoAssumption DEF ToggleOnCall, Do, At, Queue, Unless, Reports
<1>1. Typed(ToggleOnCall, j)
    BY DEF Typed, Commands
<1>2. AfterQueue(ToggleOnCall, j)
    BY DEF AfterQueue
<1>3. BeforeTx(ToggleOnCall, j)
    BY DEF BeforeTx
<1>4. BeforeSet(ToggleOnCall, j)
    BY DEF BeforeSet
<1>5. BeforeUnset(ToggleOnCall, j)
    BY DEF BeforeUnset
<1>6. BeforeReset(ToggleOnCall, j)
    BY DEF BeforeReset
<1>7. Jumps(ToggleOnCall, j)
    BY DEF Jumps, Lands, Landings
<1> QED BY <1>1, <1>2, <1>3, <1>4, <1>5, <1>6, <1>7 DEF FormedAt

SoftResetCall ==
    <<Do("clear"), Queue("reset", 0), Do("listen"), Do("tx"), Do("listen"),
      At("flush", NFlush)>>

(* ... BNO08x_soft_reset, ...                                              *)
LEMMA SoftResetFormed ==
    WellFormed(SoftResetCall)
<1> SUFFICES ASSUME NEW j \in 1 .. 6
             PROVE  FormedAt(SoftResetCall, j)
    BY DEF WellFormed, SoftResetCall
<1> USE BnoAssumption DEF SoftResetCall, Do, At, Queue, Unless, Reports
<1> QED BY DEF FormedAt, Typed, AfterQueue, BeforeTx, BeforeSet, BeforeUnset, BeforeReset, Jumps, Lands,
               Landings, Commands

ModeCall(kind) ==
    <<Queue(kind, 0), Do("listen"), Do("tx"), Do("listen"), At("flush", NFlush)>>

(* ... BNO08x_mode_on and BNO08x_mode_sleep, ...                           *)
LEMMA ModeFormed ==
    ASSUME NEW kind \in {"on", "sleep"}
    PROVE  WellFormed(ModeCall(kind))
<1> SUFFICES ASSUME NEW j \in 1 .. 5
             PROVE  FormedAt(ModeCall(kind), j)
    BY DEF WellFormed, ModeCall
<1> USE BnoAssumption DEF ModeCall, Do, At, Queue, Unless, Reports
<1> QED BY DEF FormedAt, Typed, AfterQueue, BeforeTx, BeforeSet, BeforeUnset, BeforeReset, Jumps, Lands,
               Landings, Commands

ToggleOffCall ==
    <<Queue("sleep", 0), Do("listen"), Do("tx"), Do("listen"), At("flush", NFlush),
      Do("off")>>

(* ... bno08x_toggle that disables, ...                                    *)
LEMMA ToggleOffFormed ==
    WellFormed(ToggleOffCall)
<1> SUFFICES ASSUME NEW j \in 1 .. 6
             PROVE  FormedAt(ToggleOffCall, j)
    BY DEF WellFormed, ToggleOffCall
<1> USE BnoAssumption DEF ToggleOffCall, Do, At, Queue, Unless, Reports
<1> QED BY DEF FormedAt, Typed, AfterQueue, BeforeTx, BeforeSet, BeforeUnset, BeforeReset, Jumps, Lands,
               Landings, Commands

CommandCall(kind) ==
    <<Queue(kind, 0), Do("listen"), Do("tx")>>

(* ... the calibration and tare commands, ...                              *)
LEMMA CommandFormed ==
    ASSUME NEW kind \in {"calibrate", "tare"}
    PROVE  WellFormed(CommandCall(kind))
<1> SUFFICES ASSUME NEW j \in 1 .. 3
             PROVE  FormedAt(CommandCall(kind), j)
    BY DEF WellFormed, CommandCall
<1> USE BnoAssumption DEF CommandCall, Do, At, Queue, Unless, Reports
<1> QED BY DEF FormedAt, Typed, AfterQueue, BeforeTx, BeforeSet, BeforeUnset, BeforeReset, Jumps, Lands,
               Landings, Commands

DisableCall(r) ==
    <<Queue("disable", r), Do("listen"), Do("tx"), At("unset", r), Do("mask")>>

(* ... BNO08x_disable_report, ...                                          *)
LEMMA DisableFormed ==
    ASSUME NEW r \in Reports
    PROVE  WellFormed(DisableCall(r))
<1> SUFFICES ASSUME NEW j \in 1 .. 5
             PROVE  FormedAt(DisableCall(r), j)
    BY DEF WellFormed, DisableCall
<1> USE BnoAssumption DEF DisableCall, Do, At, Queue, Unless, Reports
<1> QED BY DEF FormedAt, Typed, AfterQueue, BeforeTx, BeforeSet, BeforeUnset, BeforeReset, Jumps, Lands,
               Landings, Commands

ReadCall ==
    <<Do("avail"), Do("listen"), Do("rx"), Unless(2), Do("valid"), Do("judge"), Do("wipe")>>

(* ... bno08x_read, ...                                                    *)
LEMMA ReadFormed ==
    WellFormed(ReadCall)
<1> SUFFICES ASSUME NEW j \in 1 .. 7
             PROVE  FormedAt(ReadCall, j)
    BY DEF WellFormed, ReadCall
<1> USE BnoAssumption DEF ReadCall, Do, At, Queue, Unless, Reports
<1> QED BY DEF FormedAt, Typed, AfterQueue, BeforeTx, BeforeSet, BeforeUnset, BeforeReset, Jumps, Lands,
               Landings, Commands

EnableTail(r, x, y) ==
    <<Queue("enable", r), Do("listen"), Do("tx"), At("set", r), At("unmask", r),
      Do("listen"), At("flush", NFlush), x, y>>

(* ... and what EnableNext puts ahead of the end of bno08x_config.         *)
LEMMA EnableTailFormed ==
    ASSUME NEW r \in Reports, NEW x \in Step, NEW y \in Step,
           x = Do("configured") \/ (r < NReports /\ x = At("enable", r + 1)), y[1] \in {"boot", "on"}
    PROVE  WellFormed(EnableTail(r, x, y))
<1> SUFFICES ASSUME NEW j \in 1 .. 9
             PROVE  FormedAt(EnableTail(r, x, y), j)
    BY DEF WellFormed, EnableTail
<1> USE BnoAssumption DEF EnableTail, Do, At, Queue, Unless, Reports
<1> QED BY DEF FormedAt, Typed, AfterQueue, BeforeTx, BeforeSet, BeforeUnset, BeforeReset, Jumps, Lands,
               Landings, Commands

(* Two sequences are equal if they have the same length and elements.      *)
LEMMA Same ==
    ASSUME NEW S, NEW s \in Seq(S), NEW t \in Seq(S), Len(s) = Len(t), \A i \in 1 .. Len(s) : s[i] = t[i]
    PROVE  s = t
OBVIOUS

(* The steps of the calls are steps.                                       *)
LEMMA AtIsStep ==
    ASSUME NEW name \in StepNames, NEW n \in 0 .. NReports + NFlush + 12
    PROVE  At(name, n) \in Step
BY DEF At, Step

(* ... those that queue a packet, ...                                      *)
LEMMA QueueIsStep ==
    ASSUME NEW kind \in Commands, NEW n \in 0 .. NReports
    PROVE  Queue(kind, n) \in Step
<1>1. n \in 0 .. NReports + NFlush + 12
    BY BnoAssumption
<1> QED BY <1>1 DEF Queue, Step, StepNames

(* ... those with a small number, ...                                      *)
LEMMA SmallIsStep ==
    ASSUME NEW name \in StepNames, NEW n \in 0 .. 12
    PROVE  At(name, n) \in Step
<1>1. n \in 0 .. NReports + NFlush + 12
    BY BnoAssumption
<1> QED BY <1>1, AtIsStep

(* ... those with none, ...                                                *)
LEMMA DoIsStep ==
    ASSUME NEW name \in StepNames
    PROVE  Do(name) \in Step
<1>1. Do(name) = At(name, 0) /\ 0 \in 0 .. 12
    BY DEF Do, At
<1> QED BY <1>1, SmallIsStep

(* ... and so are all that several calls have.                             *)
LEMMA Steps ==
    /\ Do("clear") \in Step /\ Do("low") \in Step /\ Do("high") \in Step /\ Do("listen") \in Step
    /\ Do("rx") \in Step /\ Do("tx") \in Step /\ Do("valid") \in Step /\ Do("judge") \in Step
    /\ Do("wipe") \in Step /\ Do("reason") \in Step /\ Do("forget") \in Step /\ Do("spawn") \in Step
    /\ Do("check") \in Step /\ Do("boot") \in Step /\ Do("on") \in Step /\ Do("off") \in Step
    /\ Do("mask") \in Step /\ Do("avail") \in Step /\ Do("configured") \in Step
    /\ Unless(1) \in Step /\ Unless(2) \in Step /\ Unless(8) \in Step /\ Unless(12) \in Step
    /\ At("enable", 1) \in Step /\ At("flush", NFlush) \in Step /\ Queue("id", 0) \in Step
<1>1. NFlush \in 0 .. NReports + NFlush + 12 /\ 0 \in 0 .. NReports
    BY BnoAssumption
<1>2. \A name \in StepNames : Do(name) \in Step
    BY DoIsStep
<1>3. At("flush", NFlush) \in Step
    BY <1>1, AtIsStep DEF StepNames
<1>4. Queue("id", 0) \in Step
    BY <1>1, QueueIsStep DEF Commands
<1>5. Unless(1) \in Step /\ Unless(2) \in Step /\ Unless(8) \in Step /\ Unless(12) \in Step
    BY SmallIsStep DEF Unless, StepNames
<1>6. At("enable", 1) \in Step
    BY SmallIsStep DEF StepNames
<1> QED BY <1>2, <1>3, <1>4, <1>5, <1>6 DEF StepNames

(* The calls are what is written out above: BNO08x_hard_reset, ...         *)
LEMMA HardResetIs == hard_reset = HardResetCall /\ HardResetCall \in Seq(Step)
<1> DEFINE a == <<Do("clear"), Do("low"), Do("high")>>
           b == <<Do("listen"), Do("rx")>>
           u == <<Unless(2)>>
<1>1. a \in Seq(Step) /\ b \in Seq(Step) /\ u \in Seq(Step) /\ HardResetCall \in Seq(Step)
   BY Steps DEF HardResetCall
<1>2. hard_reset = ((a \o b) \o u) \o b
   BY DEF hard_reset, wait_for_rx_done
<1>3. hard_reset \in Seq(Step) /\ Len(hard_reset) = 8
   BY <1>1, <1>2
<1>4. \A i \in 1..8 : hard_reset[i] = HardResetCall[i]
   BY <1>1, <1>2 DEF HardResetCall
<1> QED BY <1>1, <1>3, <1>4, Same DEF HardResetCall

ReasonCall ==
    <<Queue("id", 0), Do("listen"), Do("tx"), Unless(8), Do("listen"), Do("rx"), Unless(2),
      Do("valid"), Do("judge"), Do("wipe"), Unless(1), Do("reason")>>
ConfigCall ==
    <<Do("forget"), Do("spawn"), Do("clear"), Do("low"), Do("high"), Do("listen"), Do("rx"),
      Unless(2), Do("listen"), Do("rx"), Unless(12), Queue("id", 0), Do("listen"), Do("tx"),
      Unless(8), Do("listen"), Do("rx"), Unless(2), Do("valid"), Do("judge"), Do("wipe"),
      Unless(1), Do("reason"), Do("check"), At("enable", 1)>>

(* ... BNO08x_get_reset_reason, ...                                        *)
LEMMA ReasonIs ==
    get_reset_reason = ReasonCall /\ ReasonCall \in Seq(Step)
<1> DEFINE q == <<Queue("id", 0)>>
           b == <<Do("listen"), Do("tx")>>
           u == <<Unless(8)>>
           d == <<Do("listen"), Do("rx"), Unless(2), Do("valid"), Do("judge"), Do("wipe")>>
           e == <<Unless(1), Do("reason")>>
<1>1. /\ q \in Seq(Step) /\ b \in Seq(Step) /\ u \in Seq(Step)
      /\ d \in Seq(Step) /\ e \in Seq(Step) /\ ReasonCall \in Seq(Step)
    BY Steps DEF ReasonCall
<1>2. get_reset_reason = (((q \o b) \o u) \o d) \o e
    BY DEF get_reset_reason, wait_for_tx_done, wait_for_data
<1>3. get_reset_reason \in Seq(Step) /\ Len(get_reset_reason) = 12
    BY <1>1, <1>2
<1>4. \A i \in 1 .. 12 : get_reset_reason[i] = ReasonCall[i]
    BY <1>1, <1>2 DEF ReasonCall
<1> QED BY <1>1, <1>3, <1>4, Same DEF ReasonCall

(* ... bno08x_config, ...                                                  *)
LEMMA ConfigIs ==
    config = ConfigCall /\ ConfigCall \in Seq(Step)
<1> DEFINE f == <<Do("forget"), Do("spawn")>>
           u == <<Unless(12)>>
           e == <<Do("check"), At("enable", 1)>>
<1>1. f \in Seq(Step) /\ u \in Seq(Step) /\ e \in Seq(Step) /\ ConfigCall \in Seq(Step)
    BY Steps DEF ConfigCall
<1>2. config = (((f \o HardResetCall) \o u) \o ReasonCall) \o e
    BY HardResetIs, ReasonIs DEF config, initialize
<1>3. config \in Seq(Step) /\ Len(config) = 25
    BY <1>1, <1>2, HardResetIs, ReasonIs DEF HardResetCall, ReasonCall
<1>4. \A i \in 1 .. 25 : config[i] = ConfigCall[i]
    BY <1>1, <1>2, HardResetIs, ReasonIs DEF ConfigCall, HardResetCall, ReasonCall
<1> QED BY <1>1, <1>3, <1>4, Same DEF ConfigCall

(* ... bno08x_init, ...                                                    *)
LEMMA BootIs ==
    boot = BootCall /\ BootCall \in Seq(Step)
<1> DEFINE e == <<Do("boot")>>
<1>1. e \in Seq(Step) /\ BootCall \in Seq(Step)
    BY Steps DEF BootCall
<1>2. boot = ConfigCall \o e
    BY ConfigIs DEF boot
<1>3. boot \in Seq(Step) /\ Len(boot) = 26
    BY <1>1, <1>2, ConfigIs DEF ConfigCall
<1>4. \A i \in 1 .. 26 : boot[i] = BootCall[i]
    BY <1>1, <1>2, ConfigIs DEF BootCall, ConfigCall
<1> QED BY <1>1, <1>3, <1>4, Same DEF BootCall

(* ... bno08x_toggle that enables, ...                                     *)
LEMMA ToggleOnIs ==
    toggle_on = ToggleOnCall /\ ToggleOnCall \in Seq(Step)
<1> DEFINE e == <<Do("on")>>
<1>1. e \in Seq(Step) /\ ToggleOnCall \in Seq(Step)
    BY Steps DEF ToggleOnCall
<1>2. toggle_on = (HardResetCall \o ConfigCall) \o e
    BY HardResetIs, ConfigIs DEF toggle_on
<1>3. toggle_on \in Seq(Step) /\ Len(toggle_on) = 34
    BY <1>1, <1>2, HardResetIs, ConfigIs DEF HardResetCall, ConfigCall
<1>4. \A i \in 1 .. 34 : toggle_on[i] = ToggleOnCall[i]
    BY <1>1, <1>2, HardResetIs, ConfigIs DEF ToggleOnCall, HardResetCall, ConfigCall
<1> QED BY <1>1, <1>3, <1>4, Same DEF ToggleOnCall

(* ... BNO08x_soft_reset, ...                                              *)
LEMMA SoftResetIs ==
    soft_reset = SoftResetCall /\ SoftResetCall \in Seq(Step)
<1> DEFINE q == <<Do("clear"), Queue("reset", 0)>>
           b == <<Do("listen"), Do("tx")>>
           f == <<Do("listen"), At("flush", NFlush)>>
<1>1. Queue("reset", 0) \in Step
    BY QueueIsStep, BnoAssumption DEF Commands
<1>2. q \in Seq(Step) /\ b \in Seq(Step) /\ f \in Seq(Step) /\ SoftResetCall \in Seq(Step)
    BY <1>1, Steps DEF SoftResetCall
<1>3. soft_reset = (q \o b) \o f
    BY DEF soft_reset, wait_for_tx_done, Flush
<1>4. soft_reset \in Seq(Step) /\ Len(soft_reset) = 6
    BY <1>2, <1>3
<1>5. \A i \in 1 .. 6 : soft_reset[i] = SoftResetCall[i]
    BY <1>2, <1>3 DEF SoftResetCall
<1> QED BY <1>2, <1>4, <1>5, Same DEF SoftResetCall

(* ... BNO08x_mode_on and BNO08x_mode_sleep, ...                           *)
LEMMA ModeIs ==
    ASSUME NEW kind \in {"on", "sleep"}
    PROVE  mode(kind) = ModeCall(kind) /\ ModeCall(kind) \in Seq(Step)
<1> DEFINE q == <<Queue(kind, 0)>>
           b == <<Do("listen"), Do("tx")>>
           f == <<Do("listen"), At("flush", NFlush)>>
<1>1. Queue(kind, 0) \in Step
    BY QueueIsStep, BnoAssumption DEF Commands
<1>2. q \in Seq(Step) /\ b \in Seq(Step) /\ f \in Seq(Step) /\ ModeCall(kind) \in Seq(Step)
    BY <1>1, Steps DEF ModeCall
<1>3. mode(kind) = (q \o b) \o f
    BY DEF mode, wait_for_tx_done, Flush
<1>4. mode(kind) \in Seq(Step) /\ Len(mode(kind)) = 5
    BY <1>2, <1>3
<1>5. \A i \in 1 .. 5 : mode(kind)[i] = ModeCall(kind)[i]
    BY <1>2, <1>3 DEF ModeCall
<1> QED BY <1>2, <1>4, <1>5, Same DEF ModeCall

(* ... bno08x_toggle that disables, ...                                    *)
LEMMA ToggleOffIs ==
    toggle_off = ToggleOffCall /\ ToggleOffCall \in Seq(Step)
<1> DEFINE m == ModeCall("sleep")
           e == <<Do("off")>>
<1>1. Queue("sleep", 0) \in Step
    BY QueueIsStep, BnoAssumption DEF Commands
<1>2. m \in Seq(Step) /\ e \in Seq(Step) /\ ToggleOffCall \in Seq(Step)
    BY <1>1, ModeIs, Steps DEF ToggleOffCall
<1>3. toggle_off = m \o e
    BY ModeIs DEF toggle_off
<1>4. toggle_off \in Seq(Step) /\ Len(toggle_off) = 6
    BY <1>2, <1>3 DEF ModeCall
<1>5. \A i \in 1 .. 6 : toggle_off[i] = ToggleOffCall[i]
    BY <1>2, <1>3 DEF ToggleOffCall, ModeCall
<1> QED BY <1>2, <1>4, <1>5, Same DEF ToggleOffCall

(* ... the calibration and tare commands, ...                              *)
LEMMA CommandIs ==
    ASSUME NEW kind \in {"calibrate", "tare"}
    PROVE  command(kind) = CommandCall(kind) /\ CommandCall(kind) \in Seq(Step)
<1> DEFINE q == <<Queue(kind, 0)>>
           b == <<Do("listen"), Do("tx")>>
<1>1. Queue(kind, 0) \in Step
    BY QueueIsStep, BnoAssumption DEF Commands
<1>2. q \in Seq(Step) /\ b \in Seq(Step) /\ CommandCall(kind) \in Seq(Step)
    BY <1>1, Steps DEF CommandCall
<1>3. command(kind) = q \o b
    BY DEF command, wait_for_tx_done
<1>4. command(kind) \in Seq(Step) /\ Len(command(kind)) = 3
    BY <1>2, <1>3
<1>5. \A i \in 1 .. 3 : command(kind)[i] = CommandCall(kind)[i]
    BY <1>2, <1>3 DEF CommandCall
<1> QED BY <1>2, <1>4, <1>5, Same DEF CommandCall

(* ... BNO08x_disable_report, ...                                          *)
LEMMA DisableIs ==
    ASSUME NEW r \in Reports
    PROVE  disable[r] = DisableCall(r) /\ DisableCall(r) \in Seq(Step)
<1> DEFINE q == <<Queue("disable", r)>>
           b == <<Do("listen"), Do("tx")>>
           u == <<At("unset", r), Do("mask")>>
<1>1. Queue("disable", r) \in Step /\ At("unset", r) \in Step
    BY QueueIsStep, AtIsStep, BnoAssumption DEF Commands, Reports, StepNames
<1>2. q \in Seq(Step) /\ b \in Seq(Step) /\ u \in Seq(Step) /\ DisableCall(r) \in Seq(Step)
    BY <1>1, Steps DEF DisableCall
<1>3. disable[r] = (q \o b) \o u
    BY DEF disable, disable_report, wait_for_tx_done
<1>4. disable[r] \in Seq(Step) /\ Len(disable[r]) = 5
    BY <1>2, <1>3
<1>5. \A i \in 1 .. 5 : disable[r][i] = DisableCall(r)[i]
    BY <1>2, <1>3 DEF DisableCall
<1> QED BY <1>2, <1>4, <1>5, Same DEF DisableCall

(* ... bno08x_read, ...                                                    *)
LEMMA ReadIs ==
    read = ReadCall /\ ReadCall \in Seq(Step)
<1> DEFINE a == <<Do("avail")>>
           d == <<Do("listen"), Do("rx"), Unless(2), Do("valid"), Do("judge"), Do("wipe")>>
<1>1. a \in Seq(Step) /\ d \in Seq(Step) /\ ReadCall \in Seq(Step)
    BY Steps DEF ReadCall
<1>2. read = a \o d
    BY DEF read, wait_for_data
<1>3. read \in Seq(Step) /\ Len(read) = 7
    BY <1>1, <1>2
<1>4. \A i \in 1 .. 7 : read[i] = ReadCall[i]
    BY <1>1, <1>2 DEF ReadCall
<1> QED BY <1>1, <1>3, <1>4, Same DEF ReadCall

(* ... and what EnableNext prepends.                                       *)
LEMMA EnableIs ==
    ASSUME NEW r \in Reports, NEW x \in Step, NEW y \in Step
    PROVE  enable[r] \o <<x, y>> = EnableTail(r, x, y) /\ EnableTail(r, x, y) \in Seq(Step)
<1> DEFINE q == <<Queue("enable", r)>>
           b == <<Do("listen"), Do("tx")>>
           u == <<At("set", r), At("unmask", r)>>
           f == <<Do("listen"), At("flush", NFlush)>>
           v == <<x, y>>
           e == enable[r] \o v
<1>1. Queue("enable", r) \in Step /\ At("set", r) \in Step /\ At("unmask", r) \in Step
    BY QueueIsStep, AtIsStep, BnoAssumption DEF Commands, Reports, StepNames
<1>2. /\ q \in Seq(Step) /\ b \in Seq(Step) /\ u \in Seq(Step)
      /\ f \in Seq(Step) /\ v \in Seq(Step) /\ EnableTail(r, x, y) \in Seq(Step)
    BY <1>1, Steps DEF EnableTail
<1>3. e = (((q \o b) \o u) \o f) \o v
    BY DEF enable, enable_report, wait_for_tx_done, Flush
<1> HIDE DEF e
<1>4. e \in Seq(Step) /\ Len(e) = 9
    BY <1>2, <1>3
<1>5. \A i \in 1 .. 9 : e[i] = EnableTail(r, x, y)[i]
    BY <1>2, <1>3 DEF EnableTail
<1> QED BY <1>2, <1>4, <1>5, Same DEF EnableTail, e

-----------------------------------------------------------------------------
(* What a step leaves of the list.                                         *)

NoUnset(s) == \A i \in 1 .. Len(s) : s[i][1] # "unset"
\* t is what a step of a caller may leave of s.
Leaves(s, t) ==
    /\ t \in Seq(Step) /\ WellFormed(t)
    /\ Suffix(t, s, 1) \/ (Plain(t) /\ NoUnset(s))
    /\ s[1][1] \notin {"flush", "enable"} => \E n \in 1 .. Len(s) : Suffix(t, s, n)

(* The step that clears the bit of a report has only its command and the   *)
(* wait for it before it.                                                  *)
LEMMA NoUnsetAhead ==
    ASSUME NEW s \in Seq(Step), WellFormed(s), s # <<>>,
           \E i \in 1 .. Len(s) : i <= 2 /\ s[i][1] \notin {"queue", "listen", "tx", "unset"},
           s[1][1] # "unset"
    PROVE  NoUnset(s)
<1> SUFFICES ASSUME NEW j \in 1 .. Len(s), s[j][1] = "unset" PROVE FALSE
    BY DEF NoUnset
<1>1. PICK i \in 1 .. Len(s) : i <= 2 /\ s[i][1] \notin {"queue", "listen", "tx", "unset"}
    OBVIOUS
<1>2. BeforeUnset(s, j)
    BY DEF WellFormed, FormedAt
<1>3. \A k \in 1 .. j - 1 : s[k][1] \in {"queue", "listen", "tx"}
    BY <1>2 DEF BeforeUnset
<1>4. j # 1 /\ j # i
    BY <1>1
<1>5. i \in 1 .. j - 1
    BY <1>1, <1>4
<1> QED BY <1>1, <1>3, <1>5

(* What Continue leaves of a list, ...                                     *)
LEMMA TailAfter ==
    ASSUME NEW s \in Seq(Step), WellFormed(s), s # <<>>
    PROVE  Leaves(s, Tail(s))
<1>1. 1 \in 1 .. Len(s) /\ 1 \in 0 .. Len(s) /\ Suffix(Tail(s), s, 1)
    BY TailIsSuffix
<1>2. WellFormed(Tail(s))
    BY <1>1, SuffixFormed
<1> QED BY <1>1, <1>2 DEF Leaves, Suffix

(* ... what a verdict that timed out and a failed initialisation leave ... *)
LEMMA DropAfter ==
    ASSUME NEW s \in Seq(Step), WellFormed(s), s # <<>>, s[1][1] \in {"valid", "check"}
    PROVE  Leaves(s, Drop(s, 2)) /\ Plain(Drop(s, 2))
<1>1. 1 \in 1 .. Len(s)
    OBVIOUS
<1>2. Jumps(s, 1)
    BY <1>1 DEF WellFormed, FormedAt
<1>3. Lands(s, 3)
    BY <1>2 DEF Jumps
<1>4. 2 \in 1 .. Len(s) /\ 2 \in 0 .. Len(s)
    BY <1>1, <1>3 DEF Lands
<1>5. Suffix(Drop(s, 2), s, 2)
    BY <1>4, DropIsSuffix
<1>6. WellFormed(Drop(s, 2)) /\ Plain(Drop(s, 2))
    BY <1>3, <1>4, <1>5, SuffixFormed, LandingIsPlain
<1>7. NoUnset(s)
    BY <1>1, NoUnsetAhead
<1> QED BY <1>4, <1>5, <1>6, <1>7 DEF Leaves, Suffix

(* ... and what a wait leaves.                                             *)
LEMMA DecidedAfter ==
    ASSUME NEW s \in Seq(Step), WellFormed(s), s # <<>>, NEW b \in BOOLEAN, s[1][1] # "unset"
    PROVE  Leaves(s, Branch(Branch(Tail(s), b), b))
<1> DEFINE r == Tail(s)
           u == Branch(r, b)
           t == Branch(u, b)
<1>1. 1 \in 0 .. Len(s) /\ Suffix(r, s, 1) /\ r \in Seq(Step)
    BY TailIsSuffix DEF Suffix
<1>2. WellFormed(r)
    BY <1>1, SuffixFormed
<1>3. PICK n \in 0 .. Len(r) : /\ Suffix(u, r, n)
                               /\ \/ n = 0 /\ u = r
                                  \/ r # <<>> /\ r[1][1] = "unless" /\ Plain(u)
    BY <1>1, <1>2, BranchIs
<1>4. WellFormed(u) /\ u \in Seq(Step)
    BY <1>1, <1>2, <1>3, SuffixFormed DEF Suffix
<1>5. PICK m \in 0 .. Len(u) : /\ Suffix(t, u, m)
                               /\ \/ m = 0 /\ t = u
                                  \/ u # <<>> /\ u[1][1] = "unless" /\ Plain(t)
    BY <1>4, BranchIs
<1>6. WellFormed(t) /\ t \in Seq(Step)
    BY <1>4, <1>5, SuffixFormed DEF Suffix
<1>7. n + m \in 0 .. Len(r) /\ Suffix(t, r, n + m)
    BY <1>1, <1>3, <1>5, SuffixOfSuffix
<1>8. 1 + (n + m) \in 0 .. Len(s) /\ Suffix(t, s, 1 + (n + m))
    BY <1>1, <1>7, SuffixOfSuffix
<1>9. 1 + (n + m) \in 1 .. Len(s)
    BY <1>3, <1>5, <1>8 DEF Suffix
<1>10. t = r \/ (Plain(t) /\ r # <<>> /\ r[1][1] = "unless")
    BY <1>3, <1>5
<1>11. ASSUME r # <<>>, r[1][1] = "unless" PROVE NoUnset(s)
  <2>1. 2 \in 1 .. Len(s) /\ s[2][1] = "unless"
      BY <1>1, <1>11
  <2> QED BY <2>1, NoUnsetAhead
<1> QED BY <1>1, <1>6, <1>8, <1>9, <1>10, <1>11 DEF Leaves

(* A flush that starts another wait keeps the list well formed.            *)
LEMMA FlushFormed ==
    ASSUME NEW s \in Seq(Step), WellFormed(s), s # <<>>, s[1][1] = "flush",
           NEW t \in Seq(Step), Len(t) = Len(s) + 1, t[1] = Do("listen"),
           NEW n \in 1 .. NFlush, t[2] = At("flush", n),
           \A i \in 3 .. Len(t) : t[i] = s[i - 1]
    PROVE  WellFormed(t)
<1> SUFFICES ASSUME NEW j \in 1 .. Len(t)
             PROVE  FormedAt(t, j)
    BY DEF WellFormed
<1>1. CASE j = 1
  <2>1. t[j][1] = "listen"
      BY <1>1 DEF Do
  <2> QED BY <2>1 DEF FormedAt, Typed, AfterQueue, BeforeTx, BeforeSet, BeforeUnset, BeforeReset, Jumps
<1>2. CASE j = 2
  <2>1. t[j][1] = "flush" /\ t[j][3] = n
      BY <1>2 DEF At
  <2> QED BY <2>1 DEF FormedAt, Typed, AfterQueue, BeforeTx, BeforeSet, BeforeUnset, BeforeReset, Jumps
<1>3. CASE j > 2
  <2>1. PICK k \in 2 .. Len(s) : k = j - 1
      BY <1>3
  <2>2. /\ t[j] = s[k] /\ j = k + 1 /\ k \in 1 .. Len(s)
        /\ k > 2 => t[j - 1] = s[k - 1] /\ k - 1 \in 1 .. Len(s)
        /\ k > 3 => t[j - 2] = s[k - 2]
        /\ k > 4 => t[j - 3] = s[k - 3]
        /\ k + 1 <= Len(s) => j + 1 <= Len(t) /\ t[j + 1] = s[k + 1]
        /\ k + 2 <= Len(s) => j + 2 <= Len(t) /\ t[j + 2] = s[k + 2]
        /\ k + 3 <= Len(s) => j + 3 <= Len(t) /\ t[j + 3] = s[k + 3]
    <3>1. t[j] = s[k] /\ j = k + 1 /\ k \in 1 .. Len(s)
        BY <1>3, <2>1
    <3>2. ASSUME k > 2 PROVE t[j - 1] = s[k - 1] /\ k - 1 \in 1 .. Len(s)
      <4>1. j - 1 \in 3 .. Len(t) /\ j - 1 - 1 = k - 1
          BY <2>1, <3>1, <3>2
      <4> QED BY <4>1, <3>1
    <3>3. ASSUME k > 3 PROVE t[j - 2] = s[k - 2]
      <4>1. j - 2 \in 3 .. Len(t) /\ j - 2 - 1 = k - 2
          BY <2>1, <3>1, <3>3
      <4> QED BY <4>1
    <3>4. ASSUME k > 4 PROVE t[j - 3] = s[k - 3]
      <4>1. j - 3 \in 3 .. Len(t) /\ j - 3 - 1 = k - 3
          BY <2>1, <3>1, <3>4
      <4> QED BY <4>1
    <3>5. ASSUME NEW m \in Nat, k + m <= Len(s) PROVE j + m <= Len(t) /\ t[j + m] = s[k + m]
      <4>1. j + m \in 3 .. Len(t) /\ j + m - 1 = k + m
          BY <2>1, <3>1, <3>5
      <4> QED BY <4>1
    <3>6. /\ k + 1 <= Len(s) => j + 1 <= Len(t) /\ t[j + 1] = s[k + 1]
          /\ k + 2 <= Len(s) => j + 2 <= Len(t) /\ t[j + 2] = s[k + 2]
          /\ k + 3 <= Len(s) => j + 3 <= Len(t) /\ t[j + 3] = s[k + 3]
        BY <3>5
    <3> QED BY <3>1, <3>2, <3>3, <3>4, <3>6
  <2>3. /\ Typed(s, k) /\ AfterQueue(s, k) /\ BeforeTx(s, k) /\ BeforeSet(s, k)
        /\ BeforeUnset(s, k) /\ BeforeReset(s, k) /\ Jumps(s, k)
      BY <2>2 DEF WellFormed, FormedAt
  <2>4. /\ t[2][1] = "flush" /\ t[1][1] = "listen"
        /\ k = 2 => s[k - 1][1] = "flush"
        /\ k = 3 => s[k - 2][1] = "flush"
        /\ k = 4 => s[k - 3][1] = "flush"
      BY DEF At, Do
  <2>5. Typed(t, j)
      BY <2>2, <2>3 DEF Typed
  <2>6. AfterQueue(t, j)
    <3> SUFFICES ASSUME t[j][1] = "queue" PROVE AfterQueue(t, j)
        BY DEF AfterQueue
    <3>1. k + 2 <= Len(s) /\ s[k + 1][1] = "listen" /\ s[k + 2][1] = "tx"
        BY <2>2, <2>3 DEF AfterQueue
    <3>2. k + 1 <= Len(s)
        BY <2>1, <3>1
    <3>3. t[j][2] = "disable" => k + 3 <= Len(s) /\ s[k + 3] = At("unset", t[j][3])
        BY <2>2, <2>3 DEF AfterQueue
    <3> QED BY <2>2, <3>1, <3>2, <3>3 DEF AfterQueue
  <2>7. s[k][1] # "set" \/ k > 2
      BY <2>1, <2>3, <2>4 DEF BeforeSet
  <2>8. s[k][1] # "tx" \/ k > 3
      BY <2>1, <2>3, <2>4 DEF BeforeTx
  <2>9. BeforeTx(t, j)
    <3> SUFFICES ASSUME t[j][1] = "tx" PROVE BeforeTx(t, j)
        BY DEF BeforeTx
    <3>1. k > 3 /\ s[k - 1][1] = "listen" /\ s[k - 2][1] = "queue"
        BY <2>2, <2>3, <2>8 DEF BeforeTx
    <3> QED BY <2>2, <3>1 DEF BeforeTx
  <2>10. BeforeSet(t, j)
    <3> SUFFICES ASSUME t[j][1] = "set" PROVE BeforeSet(t, j)
        BY DEF BeforeSet
    <3>1. k > 2 /\ s[k - 1][1] = "tx"
        BY <2>2, <2>3, <2>7 DEF BeforeSet
    <3>2. BeforeTx(s, k - 1)
        BY <2>2, <3>1 DEF WellFormed, FormedAt
    <3>3. k # 3
      <4>1. k = 3 => s[k - 1 - 1][1] = "flush"
          BY <2>4
      <4> QED BY <3>1, <3>2, <4>1 DEF BeforeTx
    <3>4. k > 3 /\ s[k - 3] = Queue("enable", s[k][3])
        BY <2>1, <2>2, <2>3, <3>1, <3>3 DEF BeforeSet
    <3>5. k # 4
        BY <2>4, <3>4 DEF Queue
    <3>6. k > 4 /\ k > 2
        BY <2>1, <3>4, <3>5
    <3> QED BY <2>2, <3>1, <3>4, <3>6 DEF BeforeSet
  <2>11. BeforeUnset(t, j)
    <3>1. 1 \in 1 .. k - 1
        BY <2>1
    <3>2. s[k][1] # "unset"
        BY <2>3, <3>1 DEF BeforeUnset
    <3> QED BY <2>2, <3>2 DEF BeforeUnset
  <2>12. BeforeReset(t, j)
    <3>1. k = 2 => s[k][1] \notin {"low", "high"} /\ ~(s[k][1] = "queue" /\ s[k][2] = "reset")
        BY <2>3, <2>4 DEF BeforeReset
    <3>2. k = 2 \/ k > 2
        BY <2>1
    <3>3. k < Len(s) => k + 1 <= Len(s) /\ j < Len(t)
        BY <2>1, <2>2
    <3> QED BY <2>2, <2>3, <3>1, <3>2, <3>3 DEF BeforeReset
  <2>13. ASSUME NEW m \in Nat, Lands(s, k + m) PROVE Lands(t, j + m)
    <3>1. CASE k + m = Len(s) + 1
      <4>1. j + m = Len(t) + 1
          BY <2>1, <2>2, <3>1
      <4> QED BY <4>1 DEF Lands
    <3>2. CASE k + m \in 1 .. Len(s) /\ s[k + m][1] \in Landings
      <4>1. j + m \in 3 .. Len(t) /\ j + m - 1 = k + m /\ j + m \in 1 .. Len(t)
          BY <2>1, <2>2, <3>2
      <4> QED BY <3>2, <4>1 DEF Lands
    <3> QED BY <2>13, <3>1, <3>2 DEF Lands
  <2>14. Jumps(t, j)
    <3>1. ASSUME t[j][1] = "unless" PROVE Lands(t, j + 1 + t[j][3])
      <4>1. Lands(s, k + 1 + t[j][3])
          BY <2>2, <2>3, <3>1 DEF Jumps
      <4>2. PICK m \in Nat : m = t[j][3]
          BY StepFields
      <4>3. k + 1 + m = k + (1 + m) /\ j + 1 + m = j + (1 + m) /\ 1 + m \in Nat
          BY <2>1
      <4> QED BY <2>13, <4>1, <4>2, <4>3
    <3>2. ASSUME t[j][1] \in {"valid", "check"} PROVE Lands(t, j + 2)
      <4>1. Lands(s, k + 2)
          BY <2>2, <2>3, <3>2 DEF Jumps
      <4> QED BY <2>13, <4>1
    <3>3. ASSUME t[j][1] = "enable" PROVE Len(t) = j + 1 /\ t[j + 1][1] \in {"boot", "on"}
      <4>1. Len(s) = k + 1 /\ s[k + 1][1] \in {"boot", "on"}
          BY <2>2, <2>3, <3>3 DEF Jumps
      <4>2. Len(t) = j + 1 /\ k + 1 <= Len(s)
          BY <2>1, <2>2, <4>1
      <4> QED BY <2>2, <4>1, <4>2
    <3> QED BY <3>1, <3>2, <3>3 DEF Jumps
  <2> QED BY <2>5, <2>6, <2>9, <2>10, <2>11, <2>12, <2>14 DEF FormedAt
<1> QED BY <1>1, <1>2, <1>3

(* The elements of a concatenation.                                        *)
LEMMA Joined ==
    ASSUME NEW p \in Seq(Step), NEW r \in Seq(Step)
    PROVE  /\ p \o r \in Seq(Step) /\ Len(p \o r) = Len(p) + Len(r)
           /\ \A i \in 1 .. Len(p) : (p \o r)[i] = p[i]
           /\ \A i \in 1 .. Len(r) : (p \o r)[Len(p) + i] = r[i]
OBVIOUS

\* What FlushRx leaves of s.
FlushLeft(s) == (IF s[1][3] > 1 THEN Flush(s[1][3] - 1) ELSE <<>>) \o Tail(s)

(* What FlushRx leaves of a list.                                          *)
LEMMA FlushAfter ==
    ASSUME NEW s \in Seq(Step), WellFormed(s), s # <<>>, s[1][1] = "flush"
    PROVE  Leaves(s, FlushLeft(s)) /\ Plain(FlushLeft(s))
<1>1. Typed(s, 1) /\ s[1] \in Step
    BY DEF WellFormed, FormedAt
<1>2. PICK n \in 1 .. NFlush : n = s[1][3]
    BY <1>1 DEF Typed
<1>3. NoUnset(s)
    BY NoUnsetAhead
<1>4. NFlush \in Nat
    BY BnoAssumption
<1>5. CASE n > 1
  <2> DEFINE p == Flush(n - 1)
             r == Tail(s)
             t == p \o r
  <2>1. FlushLeft(s) = t
      BY <1>2, <1>5 DEF FlushLeft
  <2>2. n - 1 \in 1 .. NFlush /\ n - 1 \in 0 .. NReports + NFlush + 12
      BY <1>4, <1>5, BnoAssumption
  <2>3. Do("listen") \in Step /\ At("flush", n - 1) \in Step
      BY <2>2, DoIsStep, AtIsStep DEF StepNames
  <2>4. p = <<Do("listen"), At("flush", n - 1)>>
      BY DEF Flush
  <2> HIDE DEF p
  <2>5. p \in Seq(Step) /\ Len(p) = 2 /\ p[1] = Do("listen") /\ p[2] = At("flush", n - 1)
      BY <2>3, <2>4
  <2>6. r \in Seq(Step) /\ Len(r) = Len(s) - 1 /\ Len(s) \in Nat /\ \A i \in 1 .. Len(r) : r[i] = s[i + 1]
      OBVIOUS
  <2> HIDE DEF r
  <2>7. t \in Seq(Step) /\ Len(t) = Len(s) + 1 /\ t[1] = Do("listen") /\ t[2] = At("flush", n - 1)
    <3>1. 1 \in 1 .. Len(p) /\ 2 \in 1 .. Len(p)
        BY <2>5
    <3>2. t \in Seq(Step) /\ Len(t) = Len(p) + Len(r) /\ t[1] = p[1] /\ t[2] = p[2]
        BY <2>5, <2>6, <3>1, Joined
    <3> QED BY <2>5, <2>6, <3>2
  <2>8. \A i \in 3 .. Len(t) : t[i] = s[i - 1]
    <3> SUFFICES ASSUME NEW i \in 3 .. Len(t) PROVE t[i] = s[i - 1]
        OBVIOUS
    <3>1. i - 2 \in 1 .. Len(r) /\ i - 2 + 1 = i - 1 /\ Len(p) + (i - 2) = i
        BY <2>5, <2>6, <2>7
    <3>2. t[Len(p) + (i - 2)] = r[i - 2]
        BY <2>5, <2>6, <3>1, Joined
    <3> QED BY <2>6, <3>1, <3>2
  <2> HIDE DEF t
  <2>9. WellFormed(t)
      BY <2>2, <2>7, <2>8, FlushFormed
  <2>10. Plain(t)
      BY <2>7 DEF Plain, Waits, Do, At
  <2> QED BY <1>3, <2>1, <2>7, <2>9, <2>10 DEF Leaves
<1>6. CASE ~(n > 1)
  <2>1. FlushLeft(s) = <<>> \o Tail(s)
      BY <1>2, <1>6 DEF FlushLeft
  <2>2. Tail(s) \in Seq(Step)
      OBVIOUS
  <2>3. FlushLeft(s) = Tail(s)
      BY <2>1, <2>2
  <2>4. Suffix(Tail(s), s, 1)
      BY TailIsSuffix
  <2>5. Plain(Tail(s))
      BY <2>4, PopIsPlain DEF Waits
  <2> QED BY <2>3, <2>5, TailAfter
<1> QED BY <1>5, <1>6

\* What EnableNext leaves of s.
EnableLeft(s) ==
    enable[s[1][3]]
      \o <<IF s[1][3] < NReports THEN At("enable", s[1][3] + 1) ELSE Do("configured")>>
      \o Tail(s)

(* What EnableNext leaves of a list.                                       *)
LEMMA EnableAfter ==
    ASSUME NEW s \in Seq(Step), WellFormed(s), s # <<>>, s[1][1] = "enable"
    PROVE  Leaves(s, EnableLeft(s)) /\ Plain(EnableLeft(s))
<1> DEFINE r == s[1][3]
           x == IF r < NReports THEN At("enable", r + 1) ELSE Do("configured")
           y == s[2]
           t == EnableLeft(s)
<1>1. 1 \in 1 .. Len(s)
    OBVIOUS
<1>2. Typed(s, 1) /\ Jumps(s, 1)
    BY <1>1 DEF WellFormed, FormedAt
<1>3. r \in Reports
    BY <1>2 DEF Typed
<1>4. Len(s) = 2 /\ y[1] \in {"boot", "on"}
    BY <1>2 DEF Jumps
<1>5. y \in Step
    BY <1>4
<1>6. NoUnset(s)
    BY <1>1, NoUnsetAhead
<1>7. Tail(s) = <<y>>
  <2> DEFINE z == Tail(s)
             w == <<y>>
  <2>1. Suffix(z, s, 1) /\ Len(s) = 2
      BY <1>4, TailIsSuffix
  <2>2. w \in Seq(Step) /\ Len(w) = 1 /\ w[1] = y
      BY <1>5
  <2> HIDE DEF z, w
  <2>3. z \in Seq(Step) /\ Len(z) = 1 /\ z[1] = y
      BY <2>1 DEF Suffix
  <2>4. z = w
      BY <2>2, <2>3, Same
  <2> QED BY <2>4 DEF z, w
<1>8. t = (enable[r] \o <<x>>) \o <<y>>
    BY <1>7 DEF EnableLeft
<1> HIDE DEF r, t
<1>9. x = Do("configured") \/ (r < NReports /\ x = At("enable", r + 1))
    OBVIOUS
<1>10. x \in Step
  <2>1. CASE r < NReports
    <3>1. r + 1 \in 0 .. NReports + NFlush + 12
        BY <1>3, <2>1, BnoAssumption DEF Reports
    <3>2. At("enable", r + 1) \in Step
        BY <3>1, AtIsStep DEF StepNames
    <3> QED BY <2>1, <3>2
  <2>2. CASE ~(r < NReports)
      BY <2>2, Steps
  <2> QED BY <2>1, <2>2
<1> HIDE DEF x, y
<1>11. enable[r] \in Seq(Step)
  <2> DEFINE q == <<Queue("enable", r)>>
             b == <<Do("listen"), Do("tx")>>
             u == <<At("set", r), At("unmask", r)>>
             f == <<Do("listen"), At("flush", NFlush)>>
  <2>1. Queue("enable", r) \in Step /\ At("set", r) \in Step /\ At("unmask", r) \in Step
      BY <1>3, QueueIsStep, AtIsStep, BnoAssumption DEF Commands, Reports, StepNames
  <2>2. q \in Seq(Step) /\ b \in Seq(Step) /\ u \in Seq(Step) /\ f \in Seq(Step)
      BY <2>1, Steps
  <2>3. enable[r] = ((q \o b) \o u) \o f
      BY <1>3 DEF enable, enable_report, wait_for_tx_done, Flush
  <2> QED BY <2>2, <2>3
<1>12. t = enable[r] \o <<x, y>>
  <2>1. <<x>> \in Seq(Step) /\ <<y>> \in Seq(Step) /\ <<x, y>> \in Seq(Step)
      BY <1>5, <1>10
  <2>2. <<x>> \o <<y>> = <<x, y>>
    <3>1. <<x>> \o <<y>> \in Seq(Step) /\ Len(<<x>> \o <<y>>) = 2
        BY <2>1
    <3>2. \A i \in 1 .. 2 : (<<x>> \o <<y>>)[i] = <<x, y>>[i]
        BY <2>1
    <3> QED BY <2>1, <3>1, <3>2, Same
  <2>3. (enable[r] \o <<x>>) \o <<y>> = enable[r] \o (<<x>> \o <<y>>)
      BY <1>11, <2>1
  <2> QED BY <1>8, <2>2, <2>3
<1>13. enable[r] \o <<x, y>> = EnableTail(r, x, y) /\ EnableTail(r, x, y) \in Seq(Step)
    BY <1>3, <1>5, <1>10, EnableIs
<1>14. t = EnableTail(r, x, y) /\ t \in Seq(Step)
    BY <1>12, <1>13
<1>15. WellFormed(t)
    BY <1>3, <1>4, <1>5, <1>9, <1>10, <1>14, EnableTailFormed
<1>16. Plain(t)
    BY <1>14 DEF EnableTail, Plain, Waits, Queue, Do
<1> QED BY <1>6, <1>14, <1>15, <1>16 DEF Leaves, t

\* The step of c leaves a list as it may.
Left(c) == \E t : todo' = [todo EXCEPT ![c] = t] /\ Leaves(todo[c], t)

(* Every step of a caller leaves a suffix of its list, or starts another   *)
(* flush or the next report of bno08x_config.                              *)
LEMMA CallerTodo ==
    ASSUME TodoInv, NEW c \in Callers, CallerStep(c), ok \in [Callers -> BOOLEAN]
    PROVE  todo[c] # <<>> /\ \E t : todo' = [todo EXCEPT ![c] = t] /\ Leaves(todo[c], t)
<1> DEFINE s == todo[c]
<1>1. s \in Seq(Step) /\ WellFormed(s)
    BY DEF TodoInv
<1> HIDE DEF s
<1>2. ASSUME s # <<>>, Continue(c) PROVE s # <<>> /\ Left(c)
  <2>1. todo' = [todo EXCEPT ![c] = Tail(s)]
      BY <1>2 DEF Continue, s
  <2> QED BY <1>1, <1>2, <2>1, TailAfter DEF Left, s
<1>3. ASSUME s # <<>>, s[1][1] \in {"valid", "check"}, todo' = [todo EXCEPT ![c] = Drop(@, 2)]
      PROVE  s # <<>> /\ Left(c)
  <2>1. todo' = [todo EXCEPT ![c] = Drop(s, 2)]
      BY <1>3 DEF s
  <2> QED BY <1>1, <1>3, <2>1, DropAfter DEF Left, s
<1>4. ASSUME s # <<>>, s[1][1] # "unset", NEW b \in BOOLEAN, Decide(c, b)
      PROVE  s # <<>> /\ Left(c)
  <2>1. todo' = [todo EXCEPT ![c] = Branch(Branch(Tail(s), b), b)]
      BY <1>4 DEF Decide, Rest, s
  <2> QED BY <1>1, <1>4, <2>1, DecidedAfter DEF Left, s
<1>5. CASE \/ Listen(c) \/ Judge(c) \/ ClearReports(c) \/ ResetPin(c) \/ QueuePacket(c) \/ TakeReason(c)
           \/ Forget(c) \/ Spawn(c) \/ SetReport(c) \/ Unmask(c) \/ UnsetReport(c) \/ Mask(c)
           \/ Configured(c) \/ EndToggle(c) \/ EndBoot(c)
  <2>1. s # <<>> /\ Continue(c)
      BY <1>5 DEF Listen, Judge, ClearReports, ResetPin, QueuePacket, TakeReason, Forget, Spawn, SetReport,
                  Unmask, UnsetReport, Mask, Configured, EndToggle, EndBoot, Next1, s
  <2> QED BY <1>2, <2>1 DEF Left, s
<1>6. CASE WaitTx(c) \/ WaitRx(c) \/ Wipe(c)
  <2>1. s # <<>> /\ s[1][1] # "unset"
      BY <1>6 DEF WaitTx, WaitRx, Wipe, Next1, s
  <2>2. \E b \in BOOLEAN : Decide(c, b)
      BY <1>6 DEF WaitTx, WaitRx, Wipe, Await
  <2> QED BY <1>4, <2>1, <2>2 DEF Left, s
<1>7. CASE WaitVerdict(c)
  <2>1. s # <<>> /\ s[1][1] = "valid"
      BY <1>7 DEF WaitVerdict, Next1, s
  <2>2. Continue(c) \/ todo' = [todo EXCEPT ![c] = Drop(@, 2)]
      BY <1>7 DEF WaitVerdict
  <2> QED BY <1>2, <1>3, <2>1, <2>2 DEF Left, s
<1>8. CASE CheckInit(c)
  <2>1. s # <<>> /\ s[1][1] = "check"
      BY <1>8 DEF CheckInit, Next1, s
  <2>2. Continue(c) \/ todo' = [todo EXCEPT ![c] = Drop(@, 2)]
      BY <1>8 DEF CheckInit
  <2> QED BY <1>2, <1>3, <2>1, <2>2 DEF Left, s
<1>9. CASE FlushRx(c)
  <2>1. s # <<>> /\ s[1][1] = "flush"
      BY <1>9 DEF FlushRx, Next1, s
  <2>2. todo' = [todo EXCEPT ![c] = FlushLeft(s)]
      BY <1>9 DEF FlushRx, FlushLeft, Report, s
  <2> QED BY <1>1, <2>1, <2>2, FlushAfter DEF Left, s
<1>10. CASE EnableNext(c)
  <2>1. s # <<>> /\ s[1][1] = "enable"
      BY <1>10 DEF EnableNext, Next1, s
  <2>2. todo' = [todo EXCEPT ![c] = EnableLeft(s)]
      BY <1>10 DEF EnableNext, EnableLeft, Report, s
  <2> QED BY <1>1, <2>1, <2>2, EnableAfter DEF Left, s
<1>11. CASE DataAvailable(c)
  <2>1. s # <<>> /\ s[1][1] = "avail"
      BY <1>11 DEF DataAvailable, Next1, s
  <2>2. todo' = [todo EXCEPT ![c] = Tail(s)] \/ todo' = [todo EXCEPT ![c] = <<>>]
      BY <1>11 DEF DataAvailable, s
  <2>3. Leaves(s, <<>>)
    <3>1. 1 \in 1 .. Len(s) /\ Len(s) \in 1 .. Len(s)
        BY <1>1, <2>1
    <3>2. NoUnset(s)
        BY <1>1, <2>1, <3>1, NoUnsetAhead
    <3>3. WellFormed(<<>>) /\ Plain(<<>>) /\ Suffix(<<>>, s, Len(s)) /\ <<>> \in Seq(Step)
        BY <1>1 DEF WellFormed, FormedAt, Plain, Waits, Suffix
    <3> QED BY <3>1, <3>2, <3>3 DEF Leaves
  <2> QED BY <1>1, <2>1, <2>2, <2>3, TailAfter DEF Left, s
<1> QED BY <1>5, <1>6, <1>7, <1>8, <1>9, <1>10, <1>11 DEF CallerStep, Left, s

\* A list that a call may start with.
IsCall(p) == p \in Seq(Step) /\ WellFormed(p) /\ Plain(p)

(* Every call starts with a plain, well formed list.                       *)
LEMMA CallsFormed ==
    IsCall(boot) /\ IsCall(read) /\ IsCall(toggle_on) /\ IsCall(toggle_off) /\ \A p \in AdminCalls : IsCall(p)
<1>1. IsCall(boot)
    BY BootIs, BootFormed DEF IsCall, BootCall, Plain, Waits, Do
<1>2. IsCall(read)
    BY ReadIs, ReadFormed DEF IsCall, ReadCall, Plain, Waits, Do
<1>3. IsCall(toggle_on)
    BY ToggleOnIs, ToggleOnFormed DEF IsCall, ToggleOnCall, Plain, Waits, Do
<1>4. IsCall(toggle_off)
    BY ToggleOffIs, ToggleOffFormed DEF IsCall, ToggleOffCall, Plain, Waits, Do, Queue
<1>5. IsCall(hard_reset)
    BY HardResetIs, HardResetFormed DEF IsCall, HardResetCall, Plain, Waits, Do
<1>6. IsCall(soft_reset)
    BY SoftResetIs, SoftResetFormed DEF IsCall, SoftResetCall, Plain, Waits, Do
<1>7. IsCall(mode("on"))
  <2>1. mode("on") = ModeCall("on") /\ ModeCall("on") \in Seq(Step)
      BY ModeIs
  <2>2. Plain(ModeCall("on"))
      BY DEF ModeCall, Plain, Waits, Do, Queue
  <2> QED BY <2>1, <2>2, ModeFormed DEF IsCall
<1>8. ASSUME NEW k \in {"calibrate", "tare"} PROVE IsCall(command(k))
  <2>1. command(k) = CommandCall(k) /\ CommandCall(k) \in Seq(Step)
      BY CommandIs
  <2>2. Plain(CommandCall(k))
      BY DEF CommandCall, Plain, Waits, Do, Queue
  <2> QED BY <2>1, <2>2, CommandFormed DEF IsCall
<1>9. ASSUME NEW r \in Reports PROVE IsCall(disable[r])
  <2>1. disable[r] = DisableCall(r) /\ DisableCall(r) \in Seq(Step)
      BY DisableIs
  <2>2. Plain(DisableCall(r))
      BY DEF DisableCall, Plain, Waits, Do, Queue
  <2> QED BY <2>1, <2>2, DisableFormed DEF IsCall
<1>10. IsCall(calibrate) /\ IsCall(tare)
    BY <1>8 DEF calibrate, tare
<1>11. ASSUME NEW p \in AdminCalls PROVE IsCall(p)
  <2>1. PICK k \in Requests : p \in Request[k]
      BY DEF AdminCalls
  <2>2. k \in {"hard_reset", "soft_reset", "on", "calibrate", "tare", "disable"}
      BY BnoAssumption
  <2>3. CASE k = "disable"
    <3>1. \E r \in Reports : p = disable[r]
        BY <2>1, <2>3 DEF Request
    <3> QED BY <1>9, <3>1
  <2>4. CASE k # "disable"
    <3>1. p \in {hard_reset, soft_reset, mode("on"), calibrate, tare}
        BY <2>1, <2>2, <2>4 DEF Request
    <3> QED BY <1>5, <1>6, <1>7, <1>10, <3>1
  <2> QED BY <2>3, <2>4
<1> QED BY <1>1, <1>2, <1>3, <1>4, <1>11

(* A read has no step that commands the sensor.                            *)
LEMMA ReadsNames == \A j \in 1 .. Len(read) : read[j][1] \in ReadNames
<1>1. \A j \in 1 .. 7 : ReadCall[j][1] \in ReadNames
    BY DEF ReadCall, ReadNames, Do, Unless, At
<1> QED BY <1>1, ReadIs DEF ReadCall

(* A caller is given another list.                                         *)
LEMMA TodoSet ==
    ASSUME TodoInv, NEW c \in Callers, NEW t \in Seq(Step), WellFormed(t),
           c \in Readers => \A j \in 1 .. Len(t) : t[j][1] \in ReadNames,
           todo' = [todo EXCEPT ![c] = t]
    PROVE  TodoInv'
<1>1. todo' \in [Callers -> Seq(Step)]
    BY DEF TodoInv
<1>2. \A d \in Callers : todo'[d] = IF d = c THEN t ELSE todo[d]
    BY DEF TodoInv
<1>3. \A d \in Callers : WellFormed(todo'[d])
    BY <1>2 DEF TodoInv
<1>4. ASSUME NEW d \in Readers PROVE \A j \in 1 .. Len(todo'[d]) : todo'[d][j][1] \in ReadNames
  <2>1. d \in Callers
      BY DEF Callers
  <2>2. CASE d = c
      BY <1>2, <2>1, <2>2
  <2>3. CASE d # c
      BY <1>2, <2>1, <2>3 DEF TodoInv
  <2> QED BY <2>2, <2>3
<1> QED BY <1>1, <1>3, <1>4 DEF TodoInv

\* What TodoInv says of a function f of the callers.
TodoAtBoot(f) ==
    /\ f \in [Callers -> Seq(Step)]
    /\ \A c \in Callers : WellFormed(f[c])
    /\ \A r \in Readers : \A j \in DOMAIN f[r] : f[r][j][1] \in ReadNames

(* The main task is about to configure the sensor.                         *)
LEMMA BootTodo ==
    ASSUME NEW m \in Admins
    PROVE  TodoAtBoot([c \in Callers |-> IF c = m THEN boot ELSE <<>>])
<1> DEFINE f == [c \in Callers |-> IF c = m THEN boot ELSE <<>>]
<1>1. <<>> \in Seq(Step) /\ WellFormed(<<>>)
    BY DEF WellFormed, FormedAt
<1>2. \A c \in Callers : f[c] = boot \/ f[c] = <<>>
    OBVIOUS
<1>3. f \in [Callers -> Seq(Step)]
    BY <1>1, CallsFormed DEF IsCall
<1>4. \A c \in Readers : f[c] = <<>>
    BY BnoAssumption DEF Callers
<1> HIDE DEF f
<1>5. TodoAtBoot(f)
    BY <1>1, <1>2, <1>3, <1>4, CallsFormed DEF TodoAtBoot, IsCall
<1> QED BY <1>5 DEF f

(* TodoInv is inductive, ...                                               *)
LEMMA TodoStep ==
    ASSUME TodoInv, OkType, [Next]_vars
    PROVE  TodoInv'
<1>1. ASSUME UNCHANGED todo PROVE TodoInv'
    BY <1>1 DEF TodoInv
<1>2. ASSUME HubReport \/ HubFault \/ Wakes PROVE TodoInv'
    BY <1>1, <1>2 DEF HubReport, HubFault, Wakes, callers
<1>9. ASSUME Restart PROVE TodoInv'
  <2>1. PICK m \in Admins : todo' = [c \in Callers |-> IF c = m THEN boot ELSE <<>>]
      BY <1>9 DEF Restart
  <2>2. TodoAtBoot(todo')
      BY <2>1, BootTodo
  <2> QED BY <2>2 DEF TodoAtBoot, TodoInv
<1>3. ASSUME NEW g \in Gens, SpiTask(g) PROVE TodoInv'
    BY <1>1, <1>3 DEF SpiTask, SpiLoop, SpiSend, SpiReceive, Serve, callers
<1>4. ASSUME NEW g \in Gens, DataParse(g) PROVE TodoInv'
    BY <1>1, <1>4 DEF DataParse, callers
<1>5. ASSUME NEW c \in Readers, StartRead(c) PROVE TodoInv'
  <2>1. todo' = [todo EXCEPT ![c] = read] /\ c \in Callers
      BY <1>5 DEF StartRead, Callers
  <2> QED BY <2>1, CallsFormed, ReadsNames, TodoSet DEF IsCall
<1>6. ASSUME NEW c \in Admins, StartCall(c) PROVE TodoInv'
  <2>1. c \in Callers /\ c \notin Readers
      BY BnoAssumption DEF Callers
  <2>2. \E t : IsCall(t) /\ todo' = [todo EXCEPT ![c] = t]
      BY <1>6, CallsFormed DEF StartCall
  <2> QED BY <2>1, <2>2, TodoSet DEF IsCall
<1>7. ASSUME NEW c \in Callers, CallerStep(c) PROVE TodoInv'
  <2> DEFINE s == todo[c]
  <2>1. PICK t : s # <<>> /\ todo' = [todo EXCEPT ![c] = t] /\ Leaves(s, t)
      BY <1>7, CallerTodo DEF OkType
  <2>2. t \in Seq(Step) /\ WellFormed(t) /\ s \in Seq(Step)
      BY <2>1 DEF Leaves, TodoInv
  <2>3. ASSUME c \in Readers PROVE \A j \in 1 .. Len(t) : t[j][1] \in ReadNames
    <3>1. \A j \in 1 .. Len(s) : s[j][1] \in ReadNames
        BY <2>3 DEF TodoInv
    <3>2. s[1][1] \notin {"flush", "enable"}
        BY <2>1, <2>2, <3>1 DEF ReadNames
    <3>3. PICK n \in 1 .. Len(s) : Suffix(t, s, n)
        BY <2>1, <3>2 DEF Leaves
    <3>4. ASSUME NEW j \in 1 .. Len(t) PROVE t[j][1] \in ReadNames
      <4>1. n + j \in 1 .. Len(s) /\ t[j] = s[n + j]
          BY <2>2, <3>3 DEF Suffix
      <4> QED BY <3>1, <4>1
    <3> QED BY <3>4
  <2> QED BY <2>1, <2>2, <2>3, TodoSet
<1>8. ASSUME UNCHANGED vars PROVE TodoInv'
    BY <1>1, <1>8 DEF vars, callers
<1> QED BY <1>2, <1>3, <1>4, <1>5, <1>6, <1>7, <1>8, <1>9, EdgeIs DEF Next

(* ... and holds when the main task is about to configure the sensor.      *)
LEMMA TodoInit == Init => TodoInv
<1> SUFFICES ASSUME Init PROVE TodoInv
    OBVIOUS
<1>1. PICK m \in Admins : todo = [c \in Callers |-> IF c = m THEN boot ELSE <<>>]
    BY DEF Init
<1>2. TodoAtBoot(todo)
    BY <1>1, BootTodo
<1> QED BY <1>2 DEF TodoAtBoot, TodoInv

-----------------------------------------------------------------------------
(* Types.                                                                  *)

Packets == {p \in Commands \X (0 .. NReports) : p[1] = "enable" => p[2] \in Reports}
Held(S) == {<<>>} \cup {<<p>> : p \in S}
DeviceType ==
    /\ bits \subseteq Bits /\ reports \subseteq Reports
    /\ rxq \in Held(Answers) /\ proc \in [Gens -> Held(Answers)]
TxType == txq \in Held(Packets)
LineType == intr \in BOOLEAN /\ notify \subseteq Gens /\ looping \subseteq Gens
TaskType == gens \in 0 .. MaxGens /\ handle \in 0 .. MaxGens
HubType ==
    /\ hub \in {"up", "asleep", "low"} /\ hubReports \subseteq Reports
    /\ hubOut \in Seq(Answers) /\ low \in BOOLEAN
RestType ==
    /\ status \in {"ready", "fail"} /\ enabled \in BOOLEAN /\ booted \in BOOLEAN
    /\ calls \in 0 .. MaxCalls /\ faults \in 0 .. MaxFaults
    /\ clean \in BOOLEAN

(* The step that a caller is about to take.                                *)
LEMMA HeadTyped ==
    ASSUME TodoInv, NEW c \in Callers, todo[c] # <<>>
    PROVE  /\ todo[c] \in Seq(Step) /\ 1 \in 1 .. Len(todo[c])
           /\ Typed(todo[c], 1) /\ AfterQueue(todo[c], 1) /\ Jumps(todo[c], 1)
BY DEF TodoInv, WellFormed, FormedAt

(* The packet in a queue of one item.                                      *)
LEMMA HeldSome ==
    ASSUME NEW S, NEW q \in Held(S), q # <<>>
    PROVE  q[1] \in S /\ q = <<q[1]>>
BY DEF Held

(* The types hold again after a restart of the node.                       *)
LEMMA RestartTypes ==
    ASSUME Restart, RestType
    PROVE  DeviceType' /\ TxType' /\ LineType' /\ TaskType' /\ RestType'
<1>1. DeviceType' /\ TxType'
    BY DEF Restart, DeviceType, TxType, Held
<1>2. LineType'
    BY DEF Restart, LineType
<1>3. TaskType'
  <2>1. gens' = 0 /\ handle' = 0 /\ 0 \in 0 .. MaxGens
      BY BnoAssumption DEF Restart
  <2> QED BY <2>1 DEF TaskType
<1>4. RestType'
  <2>1. /\ status' = "ready" /\ enabled' = FALSE /\ booted' = FALSE /\ clean' = TRUE
        /\ calls' = calls /\ faults' = faults
      BY DEF Restart
  <2> QED BY <2>1 DEF RestType
<1> QED BY <1>1, <1>2, <1>3, <1>4

(* Each part of the types is inductive, given those it rests on: the event *)
(* groups and what was received, ...                                       *)
LEMMA DeviceStep ==
    ASSUME DeviceType, HubType, TaskType, RestType, TodoInv, [Next]_vars
    PROVE  DeviceType'
<1> USE DEF DeviceType
<1>1. ASSUME UNCHANGED <<bits, reports, rxq, proc>> PROVE DeviceType'
    BY <1>1
<1>2. ASSUME HubReport \/ HubFault \/ Wakes PROVE DeviceType'
    BY <1>1, <1>2 DEF HubReport, HubFault, Wakes, device, tasks
<1>9. ASSUME NEW g \in Gens, SpiLoop(g) PROVE DeviceType'
    BY <1>1, <1>9 DEF SpiLoop, device, tasks
<1>3. ASSUME NEW g \in Gens, SpiSend(g) PROVE DeviceType'
    BY <1>3 DEF SpiSend, Bits
<1>4. ASSUME NEW g \in Gens, SpiReceive(g) PROVE DeviceType'
  <2>1. reports' = reports /\ bits' \subseteq Bits
      BY <1>4 DEF SpiReceive, Bits
  <2>2. hubOut # <<>> => hubOut[1] \in Answers
      BY DEF HubType
  <2>3. hubOut # <<>> => <<hubOut[1]>> \in Held(Answers)
      BY <2>2 DEF Held
  <2>4. rxq' \in Held(Answers)
      BY <1>4, <2>3 DEF SpiReceive
  <2>5. proc' = proc \/ (hubOut # <<>> /\ \E d \in 1 .. gens : proc' = [proc EXCEPT ![d] = <<hubOut[1]>>])
      BY <1>4 DEF SpiReceive
  <2>6. 1 .. gens \subseteq Gens
      BY BnoAssumption DEF TaskType, Gens
  <2>7. proc' \in [Gens -> Held(Answers)]
      BY <2>3, <2>5, <2>6
  <2> QED BY <2>1, <2>4, <2>7
<1>5. ASSUME NEW g \in Gens, DataParse(g) PROVE DeviceType'
  <2>1. reports' = reports /\ bits' \subseteq Bits
      BY <1>5 DEF DataParse, Bits
  <2>2. <<>> \in Held(Answers)
      BY DEF Held
  <2> QED BY <1>5, <2>1, <2>2 DEF DataParse
<1>6. ASSUME NEW c \in Callers, StartRead(c) \/ StartCall(c) PROVE DeviceType'
    BY <1>1, <1>6 DEF StartRead, StartCall, device, tasks
<1>7. ASSUME NEW c \in Callers, CallerStep(c) PROVE DeviceType'
  <2>1. CASE WaitTx(c) \/ WaitRx(c) \/ FlushRx(c) \/ Wipe(c)
    <3>1. UNCHANGED <<reports, rxq, proc>>
        BY <2>1 DEF WaitTx, WaitRx, FlushRx, Wipe, tasks
    <3>2. bits' \subseteq bits
        BY <2>1 DEF WaitTx, WaitRx, FlushRx, Wipe, Await
    <3> QED BY <3>1, <3>2
  <2>2. CASE SetReport(c)
    <3>1. todo[c] # <<>> /\ todo[c][1][1] = "set"
        BY <2>2 DEF SetReport, Next1
    <3>2. Report(c) \in Reports
        BY <3>1, HeadTyped DEF Typed, Report
    <3> QED BY <2>2, <3>2 DEF SetReport, tasks
  <2>3. CASE UnsetReport(c) \/ ClearReports(c)
      BY <2>3 DEF UnsetReport, ClearReports, tasks
  <2>4. CASE \/ Listen(c) \/ WaitVerdict(c) \/ Judge(c) \/ ResetPin(c) \/ QueuePacket(c) \/ TakeReason(c)
             \/ Forget(c) \/ Spawn(c) \/ CheckInit(c) \/ EnableNext(c) \/ Unmask(c) \/ Mask(c)
             \/ Configured(c) \/ EndToggle(c) \/ EndBoot(c) \/ DataAvailable(c)
    <3>1. UNCHANGED <<bits, reports, rxq, proc>>
        BY <2>4 DEF Listen, WaitVerdict, Judge, ResetPin, QueuePacket, TakeReason, Forget, Spawn, CheckInit,
             EnableNext, Unmask, Mask, Configured, EndToggle, EndBoot, DataAvailable, device, tasks
    <3> QED BY <1>1, <3>1
  <2> QED BY <1>7, <2>1, <2>2, <2>3, <2>4 DEF CallerStep
<1>8. ASSUME UNCHANGED vars PROVE DeviceType'
    BY <1>1, <1>8 DEF vars, device, tasks
<1> QED BY <1>2, <1>3, <1>4, <1>5, <1>6, <1>7, <1>8, <1>9, EdgeIs, RestartTypes DEF Next, SpiTask, Callers

(* ... the packet to send, ...                                             *)
LEMMA TxStep ==
    ASSUME TxType, RestType, TodoInv, [Next]_vars
    PROVE  TxType'
<1> USE DEF TxType
<1>1. ASSUME UNCHANGED txq PROVE TxType'
    BY <1>1
<1>2. ASSUME HubReport \/ HubFault \/ Wakes PROVE TxType'
    BY <1>1, <1>2 DEF HubReport, HubFault, Wakes, device
<1>3. ASSUME NEW g \in Gens, SpiTask(g) PROVE TxType'
  <2>1. CASE SpiLoop(g) \/ SpiReceive(g)
      BY <1>1, <2>1 DEF SpiLoop, SpiReceive, device
  <2>2. CASE SpiSend(g)
      BY <2>2 DEF SpiSend, Held
  <2> QED BY <1>3, <2>1, <2>2 DEF SpiTask
<1>4. ASSUME NEW g \in Gens, DataParse(g) PROVE TxType'
    BY <1>1, <1>4 DEF DataParse
<1>5. ASSUME NEW c \in Callers, StartRead(c) \/ StartCall(c) PROVE TxType'
    BY <1>1, <1>5 DEF StartRead, StartCall, device
<1>6. ASSUME NEW c \in Callers, CallerStep(c) PROVE TxType'
  <2>1. CASE QueuePacket(c)
    <3> DEFINE p == <<todo[c][1][2], todo[c][1][3]>>
    <3>1. todo[c] # <<>> /\ todo[c][1][1] = "queue" /\ (txq' = txq \/ txq' = <<p>>)
        BY <2>1 DEF QueuePacket, Next1, Report
    <3>2. p[1] \in Commands /\ p[2] \in 0 .. NReports /\ (p[1] = "enable" => p[2] \in Reports)
        BY <3>1, HeadTyped DEF Typed
    <3>3. p \in Packets
        BY <3>2 DEF Packets
    <3> QED BY <3>1, <3>3 DEF Held
  <2>2. CASE ~QueuePacket(c)
    <3>1. UNCHANGED txq
        BY <1>6, <2>2 DEF CallerStep, Listen, WaitTx, WaitRx, FlushRx, WaitVerdict, Judge, Wipe, ClearReports,
             ResetPin, TakeReason, Forget, Spawn, CheckInit, EnableNext, SetReport, Unmask, UnsetReport, Mask,
             Configured, EndToggle, EndBoot, DataAvailable, device
    <3> QED BY <1>1, <3>1
  <2> QED BY <2>1, <2>2
<1>7. ASSUME UNCHANGED vars PROVE TxType'
    BY <1>1, <1>7 DEF vars, device
<1> QED BY <1>2, <1>3, <1>4, <1>5, <1>6, <1>7, EdgeIs, RestartTypes DEF Next, Callers

(* ... the interrupt, the notifications and the loops, ...                 *)
LEMMA LineStep ==
    ASSUME LineType, TaskType, RestType, OkType, [Next]_vars
    PROVE  LineType'
<1> USE DEF LineType
<1>1. ASSUME UNCHANGED line PROVE LineType'
    BY <1>1 DEF line
<1>2. ASSUME Wakes PROVE LineType'
  <2>1. CASE UNCHANGED <<intr, notify>>
      BY <1>2, <2>1 DEF Wakes
  <2>2. CASE handle # 0 /\ intr' = FALSE /\ notify' = notify \cup {handle}
    <3>1. handle \in Gens
        BY <2>2, BnoAssumption DEF TaskType, Gens
    <3> QED BY <1>2, <2>2, <3>1 DEF Wakes
  <2> QED BY <1>2, <2>1, <2>2 DEF Wakes
<1>3. ASSUME NEW g \in Gens, SpiTask(g) PROVE LineType'
  <2>1. CASE SpiLoop(g)
    <3>1. intr' \in BOOLEAN
        BY <2>1 DEF SpiLoop
    <3> QED BY <2>1, <3>1 DEF SpiLoop
  <2>2. CASE SpiSend(g) \/ SpiReceive(g)
      BY <2>2 DEF SpiSend, SpiReceive, Serve
  <2> QED BY <1>3, <2>1, <2>2 DEF SpiTask
<1>4. ASSUME NEW g \in Gens, HubReport \/ HubFault \/ DataParse(g) PROVE LineType'
    BY <1>1, <1>4 DEF HubReport, HubFault, DataParse
<1>5. ASSUME NEW c \in Callers, StartRead(c) \/ StartCall(c) PROVE LineType'
    BY <1>1, <1>5 DEF StartRead, StartCall
<1>6. ASSUME NEW c \in Callers, CallerStep(c) PROVE LineType'
  <2>1. notify' = notify
      BY <1>6 DEF CallerStep, Listen, WaitTx, WaitRx, FlushRx, WaitVerdict, Judge, Wipe, ClearReports, ResetPin,
           QueuePacket, TakeReason, Forget, Spawn, CheckInit, EnableNext, SetReport, Unmask, UnsetReport, Mask,
           Configured, EndToggle, EndBoot, DataAvailable, line
  <2>2. CASE Listen(c) \/ Unmask(c) \/ Mask(c)
    <3>1. ok[c] \in BOOLEAN
        BY DEF OkType
    <3>2. intr' \in BOOLEAN /\ looping' = looping
        BY <2>2, <3>1 DEF Listen, Unmask, Mask
    <3> QED BY <2>1, <3>2
  <2>4. CASE Spawn(c)
    <3>1. gens + 1 \in Gens
        BY <2>4, BnoAssumption DEF Spawn, TaskType, Gens
    <3> QED BY <2>1, <2>4, <3>1 DEF Spawn
  <2>3. CASE ~(Listen(c) \/ Spawn(c) \/ Unmask(c) \/ Mask(c))
    <3>1. intr' = intr /\ looping' = looping
        BY <1>6, <2>3 DEF CallerStep, WaitTx, WaitRx, FlushRx, WaitVerdict, Judge, Wipe, ClearReports,
             ResetPin, QueuePacket, TakeReason, Forget, CheckInit, EnableNext, SetReport, UnsetReport,
             Configured, EndToggle, EndBoot, DataAvailable, line
    <3> QED BY <2>1, <3>1
  <2> QED BY <2>2, <2>3, <2>4
<1>7. ASSUME UNCHANGED vars PROVE LineType'
    BY <1>1, <1>7 DEF vars
<1>8. \E g \in Gens : TRUE
    BY BnoAssumption DEF Gens
<1> QED BY <1>2, <1>3, <1>4, <1>5, <1>6, <1>7, <1>8, EdgeIs, RestartTypes DEF Next, Callers

(* ... the tasks, of which no more than MaxGens are created, ...           *)
LEMMA TaskStep ==
    ASSUME TaskType, RestType, [Next]_vars
    PROVE  TaskType'
<1> USE DEF TaskType
<1>1. ASSUME UNCHANGED <<gens, handle>> PROVE TaskType'
    BY <1>1
<1>2. ASSUME NEW c \in Callers, Forget(c) \/ Spawn(c) PROVE TaskType'
    BY <1>2, BnoAssumption DEF Forget, Spawn
<1>3. ASSUME NEW c \in Callers, CallerStep(c), ~(Forget(c) \/ Spawn(c)) PROVE TaskType'
  <2>1. UNCHANGED <<gens, handle>>
      BY <1>3 DEF CallerStep, Listen, WaitTx, WaitRx, FlushRx, WaitVerdict, Judge, Wipe, ClearReports, ResetPin,
           QueuePacket, TakeReason, CheckInit, EnableNext, SetReport, Unmask, UnsetReport, Mask,
           Configured, EndToggle, EndBoot, DataAvailable, tasks
  <2> QED BY <1>1, <2>1
<1>4. ASSUME NEW c \in Callers, StartRead(c) \/ StartCall(c) PROVE TaskType'
    BY <1>1, <1>4 DEF StartRead, StartCall, tasks
<1>5. ASSUME NEW g \in Gens, SpiTask(g) \/ DataParse(g) PROVE TaskType'
    BY <1>1, <1>5 DEF SpiTask, SpiLoop, SpiSend, SpiReceive, Serve, DataParse, tasks
<1>6. ASSUME HubReport \/ HubFault \/ Wakes \/ UNCHANGED vars PROVE TaskType'
    BY <1>1, <1>6 DEF HubReport, HubFault, Wakes, vars, tasks
<1> QED BY <1>2, <1>3, <1>4, <1>5, <1>6, EdgeIs, RestartTypes DEF Next, Callers

(* What the sensor sends has the type of packets to receive.               *)
LEMMA PacketsTyped ==
    /\ <<>> \in Seq(Answers) /\ <<"data">> \in Seq(Answers) /\ Boot \in Seq(Answers)
    /\ \A k \in Commands : Answer(k) \in Seq(Answers)
<1>1. "data" \in Answers /\ "ack" \in Answers /\ "id" \in Answers
    BY DEF Answers
<1>2. /\ <<>> \in Seq(Answers) /\ <<"data">> \in Seq(Answers) /\ <<"ack">> \in Seq(Answers)
      /\ <<"id">> \in Seq(Answers) /\ <<"ack", "data">> \in Seq(Answers)
    BY <1>1
<1>3. \A k \in Commands : Answer(k) \in {<<>>, <<"data">>, <<"ack">>, <<"id">>}
    BY Zenon DEF Answer
<1> QED BY <1>2, <1>3 DEF Boot

(* ... the sensor ...                                                      *)
LEMMA HubStep ==
    ASSUME HubType, TxType, [Next]_vars
    PROVE  HubType'
<1> USE DEF HubType
<1>1. ASSUME UNCHANGED sensor PROVE HubType'
    BY <1>1 DEF sensor
<1>2. ASSUME HubReport \/ HubFault PROVE HubType'
  <2>1. hubOut' \in Seq(Answers)
      BY <1>2, PacketsTyped DEF HubReport, HubFault
  <2>2. low' \in BOOLEAN /\ hub' = hub /\ hubReports' = hubReports
      BY <1>2 DEF HubReport, HubFault
  <2> QED BY <2>1, <2>2
<1>3. ASSUME NEW g \in Gens, SpiSend(g) PROVE HubType'
  <2>1. txq[1] \in Packets /\ Deliver(txq[1])
      BY <1>3, HeldSome DEF SpiSend, TxType
  <2>2. CASE hub = "low"
      BY <1>1, <2>1, <2>2 DEF Deliver
  <2>3. CASE hub # "low"
    <3>1. hub' \in {"up", "asleep", "low"} /\ low' \in BOOLEAN
        BY <2>1, <2>3 DEF Deliver
    <3>2. hubReports' \subseteq Reports
        BY <2>1, <2>3 DEF Deliver, Packets
    <3>3. \A k \in Commands : Answer(k) \in Seq(Answers)
        BY PacketsTyped
    <3>4. Boot \in Seq(Answers)
        BY PacketsTyped
    <3>5. txq[1][1] \in Commands
        BY <2>1 DEF Packets
    <3>6. hubOut' = Boot \/ hubOut' = hubOut \o Answer(txq[1][1])
        BY <2>1, <2>3 DEF Deliver
    <3>7. hubOut' \in Seq(Answers)
      <4>1. Answer(txq[1][1]) \in Seq(Answers)
          BY <3>3, <3>5
      <4>2. hubOut \o Answer(txq[1][1]) \in Seq(Answers)
          BY <4>1
      <4> QED BY <3>4, <3>6, <4>2
    <3> QED BY <3>1, <3>2, <3>7
  <2> QED BY <2>2, <2>3
<1>4. ASSUME NEW g \in Gens, SpiReceive(g) PROVE HubType'
  <2>1. hub' = hub /\ hubReports' = hubReports /\ low' = FALSE
      BY <1>4 DEF SpiReceive
  <2>2. hubOut' = hubOut \/ (hubOut # <<>> /\ hubOut' = Tail(hubOut))
      BY <1>4 DEF SpiReceive
  <2>3. hubOut' \in Seq(Answers)
      BY <2>2
  <2> QED BY <2>1, <2>3
<1>5. ASSUME NEW g \in Gens, DataParse(g) PROVE HubType'
    BY <1>1, <1>5 DEF DataParse
<1>6. ASSUME NEW c \in Callers, StartRead(c) \/ StartCall(c) PROVE HubType'
    BY <1>1, <1>6 DEF StartRead, StartCall
<1>7. ASSUME NEW c \in Callers, ResetPin(c) PROVE HubType'
    BY <1>7, PacketsTyped DEF ResetPin
<1>8. ASSUME NEW c \in Callers, CallerStep(c), ~ResetPin(c) PROVE HubType'
  <2>1. UNCHANGED sensor
      BY <1>8 DEF CallerStep, Listen, WaitTx, WaitRx, FlushRx, WaitVerdict, Judge, Wipe, ClearReports,
           QueuePacket, TakeReason, Forget, Spawn, CheckInit, EnableNext, SetReport, Unmask, UnsetReport, Mask,
           Configured, EndToggle, EndBoot, DataAvailable, sensor
  <2> QED BY <1>1, <2>1
<1>9. ASSUME Asserts PROVE HubType'
    BY <1>9 DEF Asserts
<1>10. ASSUME NEW g \in Gens, SpiLoop(g) PROVE HubType'
    BY <1>1, <1>10 DEF SpiLoop
<1>11. ASSUME UNCHANGED vars PROVE HubType'
    BY <1>1, <1>11 DEF vars
<1> QED BY <1>2, <1>3, <1>4, <1>5, <1>6, <1>7, <1>8, <1>9, <1>10, <1>11, EdgeIs DEF Next, SpiTask, Callers

(* ... and the rest.                                                       *)
LEMMA RestStep ==
    ASSUME RestType, OkType, [Next]_vars
    PROVE  RestType'
<1> USE DEF RestType
<1>1. ASSUME UNCHANGED <<imu, history>> PROVE RestType'
    BY <1>1 DEF imu, history
<1>2. ASSUME HubFault PROVE RestType'
    BY <1>2, BnoAssumption DEF HubFault, imu
<1>3. ASSUME NEW g \in Gens, DataParse(g) PROVE RestType'
    BY <1>3 DEF DataParse, imu
<1>4. ASSUME NEW c \in Callers, StartCall(c) PROVE RestType'
  <2>1. calls' \in 0 .. MaxCalls
      BY <1>4, BnoAssumption DEF StartCall
  <2>2. clean' \in BOOLEAN
      BY <1>4 DEF StartCall
  <2> QED BY <1>4, <2>1, <2>2 DEF StartCall, imu
<1>5. ASSUME NEW c \in Callers, CallerStep(c) PROVE RestType'
  <2>1. UNCHANGED <<calls, faults>>
      BY <1>5 DEF CallerStep, Listen, WaitTx, WaitRx, FlushRx, WaitVerdict, Judge, Wipe, ClearReports, ResetPin,
           QueuePacket, TakeReason, Forget, Spawn, CheckInit, EnableNext, SetReport, Unmask, UnsetReport, Mask,
           Configured, EndToggle, EndBoot, DataAvailable, history
  <2>2. CASE WaitTx(c) \/ WaitRx(c)
    <3>1. clean' \in BOOLEAN
        BY <2>2 DEF WaitTx, WaitRx, Await
    <3>2. UNCHANGED <<status, enabled, booted>>
        BY <2>2 DEF WaitTx, WaitRx, imu
    <3> QED BY <2>1, <3>1, <3>2
  <2>3. CASE CheckInit(c) \/ Configured(c) \/ EndToggle(c) \/ EndBoot(c)
    <3>1. ok[c] \in BOOLEAN
        BY DEF OkType
    <3>2. enabled' \in BOOLEAN /\ booted' \in BOOLEAN /\ clean' \in BOOLEAN
        BY <2>3, <3>1 DEF CheckInit, Configured, EndToggle, EndBoot, imu, history
    <3>3. status' \in {"ready", "fail"}
        BY <2>3 DEF CheckInit, Configured, EndToggle, EndBoot, imu
    <3> QED BY <2>1, <3>2, <3>3
  <2>4. CASE ~(WaitTx(c) \/ WaitRx(c) \/ CheckInit(c) \/ Configured(c) \/ EndToggle(c) \/ EndBoot(c))
    <3>1. UNCHANGED <<status, enabled, booted, clean>>
        BY <1>5, <2>4 DEF CallerStep, Listen, FlushRx, WaitVerdict, Judge, Wipe, ClearReports, ResetPin,
             QueuePacket, TakeReason, Forget, Spawn, EnableNext, SetReport, Unmask, UnsetReport, Mask,
             DataAvailable, imu, history
    <3> QED BY <2>1, <3>1
  <2> QED BY <2>2, <2>3, <2>4
<1>6. ASSUME NEW c \in Callers, StartRead(c) PROVE RestType'
    BY <1>1, <1>6 DEF StartRead
<1>7. ASSUME NEW g \in Gens, SpiTask(g) PROVE RestType'
    BY <1>1, <1>7 DEF SpiTask, SpiLoop, SpiSend, SpiReceive, Serve
<1>8. ASSUME HubReport \/ Wakes \/ UNCHANGED vars PROVE RestType'
    BY <1>1, <1>8 DEF HubReport, Wakes, vars
<1> QED BY <1>2, <1>3, <1>4, <1>5, <1>6, <1>7, <1>8, EdgeIs, RestartTypes DEF Next, Callers

Types == DeviceType /\ TxType /\ LineType /\ TaskType /\ HubType /\ RestType /\ OkType /\ TodoInv

(* All of them together.                                                   *)
LEMMA TypesInvariant == Spec => []Types
<1>1. Init => Types
  <2> SUFFICES ASSUME Init PROVE Types
      OBVIOUS
  <2>1. DeviceType /\ TxType
      BY DEF Init, DeviceType, TxType, Held
  <2>5. HubType
    <3>1. hub = "up" /\ hubOut = <<>> /\ hubReports = {} /\ low = FALSE
        BY DEF Init
    <3>2. hubOut \in Seq(Answers)
        BY <3>1, PacketsTyped
    <3> QED BY <3>1, <3>2 DEF HubType
  <2>2. LineType /\ TaskType
    <3>1. intr = FALSE /\ notify = {} /\ looping = {} /\ gens = 0 /\ handle = 0
        BY DEF Init
    <3>2. 0 \in 0 .. MaxGens
        BY BnoAssumption
    <3> QED BY <3>1, <3>2 DEF LineType, TaskType
  <2>3. RestType
    <3>1. /\ status = "ready" /\ enabled = FALSE /\ booted = FALSE /\ calls = 0 /\ faults = 0
          /\ clean = TRUE
        BY DEF Init
    <3>2. 0 \in 0 .. MaxCalls /\ 0 \in 0 .. MaxFaults
        BY BnoAssumption
    <3> QED BY <3>1, <3>2 DEF RestType
  <2>4. OkType
      BY DEF Init, OkType
  <2> QED BY <2>1, <2>2, <2>3, <2>4, <2>5, TodoInit DEF Types
<1>2. Types /\ [Next]_vars => Types'
    BY DeviceStep, TxStep, LineStep, TaskStep, HubStep, RestStep, OkStep, TodoStep DEF Types
<1> QED BY <1>1, <1>2, PTL DEF Spec

(* Every variable of the driver and of its callers keeps its type: no      *)
(* queue holds more than one item, and no caller takes an unknown step.    *)
THEOREM Bno08xTypeCorrect == Spec => []TypeOK
<1>1. Types => TypeOK
  <2> SUFFICES ASSUME Types PROVE TypeOK
      OBVIOUS
  <2>1. txq \in {<<>>} \cup {<<p>> : p \in Commands \X (0 .. NReports)}
      BY DEF Types, TxType, Held, Packets
  <2> QED BY <2>1 DEF Types, TypeOK, DeviceType, Held, LineType, TaskType, HubType, RestType, OkType, TodoInv
<1> QED BY <1>1, TypesInvariant, PTL

-----------------------------------------------------------------------------
(* The bits of the reports.                                                *)

\* The bit of report r is about to be cleared.
UnsetIn(s, r) == \E i \in 1 .. Len(s) : s[i] = At("unset", r)
\* Each other bit tells of a report the sensor was told to send.
TrueReports == \A r \in reports \ hubReports : \E a \in Admins : UnsetIn(todo[a], r)
\* Who waits for a command: it is queued or has been sent, a command to disable
\* is followed by the step that clears the bit, a reset comes when no bit is
\* set, and the bit to set next is that of the report the command enables.
WaitOf(s) ==
    Waits(s) =>
        /\ txq = <<>> <=> "tx" \in bits
        /\ txq # <<>> /\ txq[1][1] = "disable" => UnsetIn(s, txq[1][2])
        /\ txq # <<>> /\ txq[1][1] = "reset" => reports = {}
        /\ Len(s) >= Awaited(s) /\ s[Awaited(s)][1] = "set" =>
              \/ txq = << <<"enable", s[Awaited(s)][3]>> >>
              \/ txq = <<>> /\ s[Awaited(s)][3] \in hubReports
\* Who is about to set, to clear or to reset may do so.
HeadOf(s, b) ==
    s # <<>> =>
    /\ s[1][1] = "set" => s[1][3] \in hubReports
    /\ s[1][1] = "unset" => b
    /\ s[1][1] \in {"low", "high"} \/ (s[1][1] = "queue" /\ s[1][2] = "reset") => reports = {}
\* The sensor is held in reset.
High(s) == s # <<>> /\ s[1][1] = "high"
\* The inductive invariant of the bits.
Tidy ==
    /\ OneAdmin /\ CalmInv /\ TrueReports
    /\ \A a \in Admins : WaitOf(todo[a]) /\ HeadOf(todo[a], ok[a])
    /\ hub = "low" => \E a \in Admins : High(todo[a])
TidyInv == clean => Tidy

(* A step that touches neither the administrators nor the commands.        *)
LEMMA Frame ==
    ASSUME Tidy, \A a \in Admins : todo'[a] = todo[a] /\ ok'[a] = ok[a],
           UNCHANGED <<txq, reports, hub, hubReports>>, "tx" \in bits' <=> "tx" \in bits
    PROVE  Tidy'
<1>1. OneAdmin'
    BY DEF Tidy, OneAdmin
<1>2. CalmInv'
    BY DEF Tidy, CalmInv
<1>3. TrueReports'
    BY DEF Tidy, TrueReports
<1>4. ASSUME NEW a \in Admins PROVE WaitOf(todo[a])' /\ HeadOf(todo[a], ok[a])'
  <2>1. WaitOf(todo[a]) /\ HeadOf(todo[a], ok[a]) /\ todo'[a] = todo[a] /\ ok'[a] = ok[a]
      BY DEF Tidy
  <2> QED BY <2>1 DEF WaitOf, HeadOf
<1>5. hub' = "low" => \E a \in Admins : High(todo'[a])
    BY DEF Tidy
<1> QED BY <1>1, <1>2, <1>3, <1>4, <1>5 DEF Tidy

(* The SPI task sends a command that somebody waits for, and the sensor is *)
(* not held in reset then.                                                 *)
LEMMA SendTidy ==
    ASSUME Tidy, TxType, NEW g \in Gens, SpiSend(g)
    PROVE  Tidy'
<1>1. /\ txq # <<>> /\ txq' = <<>> /\ "tx" \in bits' /\ Deliver(txq[1]) /\ txq = <<txq[1]>>
      /\ todo' = todo /\ ok' = ok /\ reports' = reports
    BY HeldSome DEF SpiSend, Serve, callers, TxType
<1>2. PICK a \in Admins : Waits(todo[a])
    BY <1>1 DEF Tidy, CalmInv
<1> DEFINE s == todo[a]
<1>3. \A b \in Admins : b # a => todo[b] = <<>>
    BY <1>2 DEF Tidy, OneAdmin, Waits
<1>4. WaitOf(s) /\ s # <<>> /\ s[1][1] \in {"tx", "listen"}
    BY <1>2 DEF Tidy, Waits
<1> HIDE DEF s
<1>5. hub # "low"
    BY <1>3, <1>4 DEF Tidy, High, s
<1>6. hub' # "low"
    BY <1>1, <1>5 DEF Deliver
<1>7. OneAdmin' /\ CalmInv'
    BY <1>1, <1>2 DEF Tidy, OneAdmin, CalmInv
<1>8. TrueReports'
  <2> SUFFICES ASSUME NEW r \in reports, r \notin hubReports' PROVE \E b \in Admins : UnsetIn(todo[b], r)
      BY <1>1 DEF TrueReports
  <2>1. CASE r \notin hubReports
      BY <2>1 DEF Tidy, TrueReports
  <2>2. CASE r \in hubReports
    <3>1. (txq[1][1] = "disable" /\ r = txq[1][2]) \/ txq[1][1] = "reset"
        BY <1>1, <1>5, <2>2 DEF Deliver
    <3>2. txq[1][1] # "reset"
        BY <1>1, <1>2, <1>4 DEF WaitOf, s
    <3> QED BY <1>1, <1>2, <1>4, <3>1, <3>2 DEF WaitOf, s
  <2> QED BY <2>1, <2>2
<1>9. WaitOf(s)'
  <2>1. s' = s
      BY <1>1 DEF s
  <2>2. ASSUME Len(s) >= Awaited(s), s[Awaited(s)][1] = "set" PROVE s[Awaited(s)][3] \in hubReports'
    <3>1. txq[1] = <<"enable", s[Awaited(s)][3]>>
        BY <1>1, <1>2, <1>4, <2>2 DEF WaitOf, s
    <3> QED BY <1>1, <1>5, <3>1 DEF Deliver
  <2> QED BY <1>1, <2>1, <2>2 DEF WaitOf
<1>10. ASSUME NEW b \in Admins PROVE WaitOf(todo[b])' /\ HeadOf(todo[b], ok[b])'
  <2>1. CASE b = a
    <3>1. HeadOf(todo[b], ok[b])'
        BY <1>1, <1>4, <2>1 DEF HeadOf, s
    <3> QED BY <1>9, <2>1, <3>1 DEF s
  <2>2. CASE b # a
      BY <1>1, <1>3, <2>2 DEF WaitOf, HeadOf, Waits
  <2> QED BY <2>1, <2>2
<1> QED BY <1>6, <1>7, <1>8, <1>10 DEF Tidy

(* The step that will clear the bit of a report is not skipped.            *)
LEMMA UnsetStays ==
    ASSUME NEW s \in Seq(Step), NEW t, Leaves(s, t), NEW r, UnsetIn(s, r), s[1][1] # "unset"
    PROVE  UnsetIn(t, r)
<1>1. PICK i \in 1 .. Len(s) : s[i] = At("unset", r)
    BY DEF UnsetIn
<1>2. i # 1 /\ ~NoUnset(s)
    BY <1>1 DEF At, NoUnset
<1>3. Suffix(t, s, 1)
    BY <1>2 DEF Leaves
<1>4. i - 1 \in 1 .. Len(t) /\ t[i - 1] = s[1 + (i - 1)] /\ 1 + (i - 1) = i
    BY <1>2, <1>3 DEF Suffix
<1> QED BY <1>1, <1>4 DEF UnsetIn

\* No administrator but c is at work.
Alone(c) == \A a \in Admins : a # c => todo[a] = <<>>

(* The bits that are set stay true in every step of an administrator.      *)
LEMMA AdminTrue ==
    ASSUME Tidy, TodoInv, NEW c \in Admins, Alone(c), CallerStep(c), NEW t,
           todo' = [todo EXCEPT ![c] = t], Leaves(todo[c], t), todo[c] # <<>>
    PROVE  TrueReports'
<1> DEFINE s == todo[c]
<1>1. c \in Callers /\ s \in Seq(Step) /\ s # <<>> /\ WellFormed(s) /\ 1 \in 1 .. Len(s)
    BY DEF Callers, TodoInv
<1>2. todo'[c] = t
    BY <1>1 DEF TodoInv
<1>3. HeadOf(s, ok[c])
    BY DEF Tidy
<1>4. ASSUME NEW r \in reports, r \notin hubReports PROVE UnsetIn(s, r)
  <2>1. PICK a \in Admins : UnsetIn(todo[a], r)
      BY <1>4 DEF Tidy, TrueReports
  <2>2. todo[a] # <<>>
      BY <2>1 DEF UnsetIn
  <2> QED BY <2>1, <2>2 DEF Alone
<1>5. ASSUME NEW r, UnsetIn(s, r), s[1][1] # "unset" PROVE \E a \in Admins : UnsetIn(todo'[a], r)
    BY <1>1, <1>2, <1>5, UnsetStays
<1> HIDE DEF s
<1>6. CASE ClearReports(c)
    BY <1>6 DEF ClearReports, TrueReports
<1>7. CASE ResetPin(c)
  <2>1. s[1][1] \in {"low", "high"} /\ reports' = reports
      BY <1>7 DEF ResetPin, Next1, device, s
  <2> QED BY <1>1, <1>3, <2>1 DEF HeadOf, TrueReports
<1>8. CASE SetReport(c)
  <2>1. s[1][1] = "set" /\ reports' \subseteq reports \cup {s[1][3]} /\ hubReports' = hubReports
      BY <1>8 DEF SetReport, Next1, Report, sensor, s
  <2>2. s[1][3] \in hubReports
      BY <1>1, <1>3, <2>1 DEF HeadOf
  <2>3. ASSUME NEW r \in reports' \ hubReports' PROVE \E a \in Admins : UnsetIn(todo'[a], r)
      BY <1>4, <1>5, <2>1, <2>2, <2>3
  <2> QED BY <2>3 DEF TrueReports
<1>9. CASE UnsetReport(c)
  <2>1. s[1][1] = "unset" /\ (ok[c] => reports' = reports \ {s[1][3]}) /\ hubReports' = hubReports
      BY <1>9 DEF UnsetReport, Next1, Report, sensor, s
  <2>2. reports' = reports \ {s[1][3]}
      BY <1>1, <1>3, <2>1 DEF HeadOf
  <2>3. ASSUME NEW r \in reports' \ hubReports' PROVE FALSE
    <3>1. r \in reports /\ r \notin hubReports /\ r # s[1][3]
        BY <2>1, <2>2, <2>3
    <3>2. PICK i \in 1 .. Len(s) : s[i] = At("unset", r)
        BY <1>4, <3>1 DEF UnsetIn
    <3>3. i # 1 /\ s[i][1] = "unset"
        BY <3>1, <3>2 DEF At
    <3>4. BeforeUnset(s, i) /\ 1 \in 1 .. i - 1
        BY <1>1, <3>3 DEF WellFormed, FormedAt
    <3> QED BY <2>1, <3>3, <3>4 DEF BeforeUnset
  <2> QED BY <2>3 DEF TrueReports
<1>10. CASE ~(ClearReports(c) \/ ResetPin(c) \/ SetReport(c) \/ UnsetReport(c))
  <2>1. reports' = reports /\ hubReports' = hubReports
      BY <1>10 DEF CallerStep, Listen, WaitTx, WaitRx, FlushRx, WaitVerdict, Judge, Wipe, QueuePacket,
           TakeReason, Forget, Spawn, CheckInit, EnableNext, Unmask, Mask, Configured, EndToggle, EndBoot,
           DataAvailable, device, sensor
  <2>2. s[1][1] # "unset"
      BY <1>10 DEF CallerStep, Listen, WaitTx, WaitRx, FlushRx, WaitVerdict, Judge, Wipe, QueuePacket,
           TakeReason, Forget, Spawn, CheckInit, EnableNext, Unmask, Mask, Configured, EndToggle, EndBoot,
           DataAvailable, Next1, s
  <2> QED BY <1>4, <1>5, <2>1, <2>2 DEF TrueReports
<1> QED BY <1>6, <1>7, <1>8, <1>9, <1>10

(* A step that leaves the queue and the wait for it alone.                 *)
LEMMA AdminPlain ==
    ASSUME Tidy, TodoInv, NEW c \in Admins, Alone(c), ~Waits(todo[c]), NEW t, Plain(t),
           todo' = [todo EXCEPT ![c] = t], txq' = txq, "tx" \in bits' => "tx" \in bits,
           hub' # "low", TrueReports'
    PROVE  Tidy'
<1>1. c \in Callers /\ \A a \in Admins : todo'[a] = IF a = c THEN t ELSE <<>>
    BY DEF Callers, TodoInv, Alone
<1>2. OneAdmin'
    BY <1>1 DEF OneAdmin
<1>3. \A a \in Admins : ~Waits(todo[a])
    BY DEF Alone, Waits
<1>4. CalmInv'
    BY <1>3 DEF Tidy, CalmInv
<1>5. ASSUME NEW a \in Admins PROVE ~Waits(todo'[a])
    BY <1>1 DEF Plain, Waits
<1>6. ASSUME NEW a \in Admins PROVE HeadOf(todo[a], ok[a])'
    BY <1>1 DEF HeadOf, Plain
<1> QED BY <1>2, <1>4, <1>5, <1>6 DEF Tidy, WaitOf

(* The steps of the administrator that is at work.                         *)
LEMMA AdminStep ==
    ASSUME Tidy, Types, NEW c \in Admins, CallerStep(c), clean'
    PROVE  Tidy'
<1> DEFINE s == todo[c]
<1>1. c \in Callers /\ TodoInv /\ OkType /\ ok[c] \in BOOLEAN
    BY DEF Callers, Types, OkType
<1>2. PICK t : s # <<>> /\ todo' = [todo EXCEPT ![c] = t] /\ Leaves(s, t)
    BY <1>1, CallerTodo DEF OkType
<1>3. s \in Seq(Step) /\ WellFormed(s) /\ 1 \in 1 .. Len(s) /\ t \in Seq(Step) /\ WellFormed(t)
    BY <1>1, <1>2 DEF TodoInv, Leaves
<1>4. Alone(c)
    BY <1>2 DEF Alone, Tidy, OneAdmin
<1>5. TrueReports'
    BY <1>1, <1>2, <1>4, AdminTrue
<1>6. \A a \in Admins : todo'[a] = IF a = c THEN t ELSE <<>>
    BY <1>1, <1>2, <1>4 DEF TodoInv, Alone
<1>7. WaitOf(s) /\ HeadOf(s, ok[c])
    BY DEF Tidy
<1>8. hub = "low" => s[1][1] = "high"
    BY <1>4 DEF Tidy, High, Alone
<1>9. ~Waits(s) => txq = <<>> /\ "tx" \notin bits
    BY <1>4 DEF Tidy, CalmInv, Alone, Waits
<1> HIDE DEF s
<1>10. OneAdmin'
    BY <1>6 DEF OneAdmin
\* The steps that leave the queue and the wait for it alone.
<1>11. ASSUME Plain(t), ~Waits(s), txq' = txq, "tx" \in bits' => "tx" \in bits, hub' # "low" PROVE Tidy'
    BY <1>1, <1>2, <1>4, <1>5, <1>11, AdminPlain DEF s
<1>12. ASSUME s[1][1] \notin {"queue", "tx", "clear", "low"}, t = Tail(s), ~Waits(s) PROVE Plain(t)
    BY <1>2, <1>3, <1>12, TailIsSuffix, PopIsPlain
<1>13. ASSUME Continue(c) PROVE t = Tail(s)
    BY <1>1, <1>2, <1>13 DEF Continue, TodoInv, s
\* The other steps end in states that are described by what is ahead of c.
<1>14. ASSUME CalmInv', WaitOf(t)', HeadOf(t, ok[c])', hub' = "low" => High(t) PROVE Tidy'
  <2>1. ASSUME NEW a \in Admins PROVE WaitOf(todo[a])' /\ HeadOf(todo[a], ok[a])'
    <3>1. CASE a = c
      <4>1. todo'[a] = t
          BY <1>6, <3>1
      <4>2. WaitOf(todo[a])'
          BY <1>14, <4>1 DEF WaitOf
      <4>3. HeadOf(todo[a], ok[a])'
          BY <1>14, <3>1, <4>1 DEF HeadOf
      <4> QED BY <4>2, <4>3
    <3>2. CASE a # c
      <4>1. todo'[a] = <<>>
          BY <1>6, <3>2
      <4> QED BY <4>1 DEF WaitOf, HeadOf, Waits
    <3> QED BY <3>1, <3>2
  <2>2. hub' = "low" => \E a \in Admins : High(todo'[a])
      BY <1>6, <1>14
  <2> QED BY <1>5, <1>10, <1>14, <2>1, <2>2 DEF Tidy
<1>15. CASE Listen(c)
  <2>1. /\ s[1][1] = "listen" /\ Continue(c) /\ txq' = txq /\ bits' = bits /\ hub' = hub /\ reports' = reports
        /\ hubReports' = hubReports
      BY <1>15 DEF Listen, Next1, device, sensor, s
  <2>2. t = Tail(s) /\ hub' # "low"
      BY <1>8, <1>13, <2>1
  <2>3. CASE ~Waits(s)
      BY <1>11, <1>12, <2>1, <2>2, <2>3
  <2>4. CASE Waits(s)
    <3>1. Len(s) > 1 /\ s[2][1] = "tx" /\ Awaited(s) = 3
        BY <2>1, <2>4 DEF Waits, Awaited
    <3>2. Suffix(t, s, 1)
        BY <1>2, <1>3, <2>2, TailIsSuffix
    <3>3. Len(t) = Len(s) - 1 /\ t # <<>> /\ t[1][1] = "tx" /\ (Len(s) >= 3 => t[2] = s[3])
        BY <1>3, <3>1, <3>2 DEF Suffix
    <3>4. Waits(t) /\ Awaited(t) = 2
        BY <3>3 DEF Waits, Awaited
    <3>5. \A r : UnsetIn(s, r) => UnsetIn(t, r)
        BY <1>2, <1>3, <2>1, UnsetStays DEF s
    <3>6. WaitOf(t)'
      <4>1. Len(t) >= 2 => Len(s) >= 3 /\ s[3] = t[2]
          BY <1>3, <3>3
      <4> QED BY <1>7, <2>1, <2>4, <3>1, <3>4, <3>5, <4>1 DEF WaitOf
    <3>7. HeadOf(t, ok[c])'
        BY <3>3 DEF HeadOf
    <3>8. CalmInv'
        BY <1>6, <3>4 DEF CalmInv
    <3> QED BY <1>14, <2>2, <3>6, <3>7, <3>8
  <2> QED BY <2>3, <2>4
<1>16. CASE WaitTx(c)
  <2>1. s[1][1] = "tx" /\ Waits(s)
      BY <1>2, <1>16 DEF WaitTx, Next1, Waits, s
  <2>2. /\ /\ "tx" \in bits /\ "tx" \notin bits' /\ Decide(c, TRUE)
        /\ txq' = txq /\ hub' = hub /\ reports' = reports
        /\ hubReports' = hubReports
      BY <1>16 DEF WaitTx, Await, sensor
  <2>3. txq = <<>> /\ hub' # "low"
      BY <1>7, <1>8, <2>1, <2>2 DEF WaitOf
  <2>4. ok'[c] = TRUE
      BY <1>1, <2>2 DEF Decide, Result, OkType
  <2>5. CalmInv'
      BY <2>2, <2>3 DEF CalmInv
  <2>6. CASE Plain(t)
      BY <1>14, <2>3, <2>5, <2>6 DEF Plain, WaitOf, HeadOf
  <2>7. CASE Suffix(t, s, 1)
    <3>1. Len(t) = Len(s) - 1 /\ (t # <<>> => t[1] = s[2] /\ 2 \in 1 .. Len(s))
        BY <1>3, <2>7 DEF Suffix
    <3>2. Len(t) > 1 => t[2] = s[3] /\ 3 \in 1 .. Len(s)
        BY <1>3, <2>7 DEF Suffix
    <3>3. ~Waits(t)
      <4>1. t # <<>> => BeforeTx(s, 2)
          BY <1>3, <3>1 DEF WellFormed, FormedAt
      <4>2. Len(t) > 1 => BeforeTx(s, 3)
          BY <1>3, <3>2 DEF WellFormed, FormedAt
      <4>3. t # <<>> => t[1][1] # "tx"
          BY <2>1, <3>1, <4>1 DEF BeforeTx
      <4>4. Len(t) > 1 => t[2][1] # "tx"
          BY <2>1, <3>2, <4>2 DEF BeforeTx
      <4> QED BY <4>3, <4>4 DEF Waits
    <3>4. HeadOf(t, ok[c])'
      <4> SUFFICES ASSUME t # <<>> PROVE HeadOf(t, ok[c])'
          BY DEF HeadOf
      <4>1. t[1] = s[2] /\ 2 \in 1 .. Len(s) /\ Len(s) >= 2 /\ Awaited(s) = 2
          BY <1>3, <2>1, <3>1 DEF Awaited
      <4>2. t[1][1] = "set" => t[1][3] \in hubReports
          BY <1>7, <2>1, <2>3, <4>1 DEF WaitOf
      <4>3. BeforeReset(s, 2)
          BY <1>3, <4>1 DEF WellFormed, FormedAt
      <4>4. t[1][1] \notin {"low", "high"} /\ ~(t[1][1] = "queue" /\ t[1][2] = "reset")
          BY <2>1, <4>1, <4>3 DEF BeforeReset
      <4> QED BY <2>2, <2>4, <4>2, <4>4 DEF HeadOf
    <3> QED BY <1>14, <2>3, <2>5, <3>3, <3>4 DEF WaitOf
  <2> QED BY <1>2, <2>6, <2>7 DEF Leaves
<1>17. CASE ClearReports(c)
  <2>1. /\ s[1][1] = "clear" /\ Continue(c) /\ txq' = txq /\ bits' = bits /\ hub' = hub /\ reports' = {}
      BY <1>17 DEF ClearReports, Next1, sensor, s
  <2>2. t = Tail(s) /\ hub' # "low" /\ ~Waits(s)
      BY <1>8, <1>13, <2>1 DEF Waits
  <2>3. Suffix(t, s, 1)
      BY <1>2, <1>3, <2>2, TailIsSuffix
  <2>4. ~Waits(t) /\ (t # <<>> => t[1][1] \notin {"set", "unset"})
    <3>1. Len(t) = Len(s) - 1 /\ (t # <<>> => t[1] = s[2] /\ 2 \in 1 .. Len(s))
        BY <1>3, <2>3 DEF Suffix
    <3>2. Len(t) > 1 => t[2] = s[3] /\ 3 \in 1 .. Len(s)
        BY <1>3, <2>3 DEF Suffix
    <3>3. t # <<>> => BeforeTx(s, 2) /\ BeforeSet(s, 2) /\ BeforeUnset(s, 2)
        BY <1>3, <3>1 DEF WellFormed, FormedAt
    <3>4. Len(t) > 1 => BeforeTx(s, 3)
        BY <1>3, <3>2 DEF WellFormed, FormedAt
    <3>5. t # <<>> => t[1][1] \notin {"tx", "set", "unset"}
        BY <2>1, <3>1, <3>3 DEF BeforeTx, BeforeSet, BeforeUnset
    <3>6. Len(t) > 1 => t[2][1] # "tx"
        BY <2>1, <3>2, <3>4 DEF BeforeTx
    <3> QED BY <3>5, <3>6 DEF Waits
  <2>5. CalmInv'
      BY <1>9, <2>1, <2>2 DEF CalmInv
  <2>6. WaitOf(t)' /\ HeadOf(t, ok[c])'
      BY <2>1, <2>4 DEF WaitOf, HeadOf
  <2> QED BY <1>14, <2>2, <2>5, <2>6
<1>18. CASE ResetPin(c)
  <2>1. /\ Continue(c) /\ txq' = txq /\ bits' = bits /\ reports' = reports
        /\ \/ s[1][1] = "low" /\ hub' = "low"
           \/ s[1][1] = "high" /\ hub' = "up"
      BY <1>18 DEF ResetPin, Next1, device, s
  <2>2. t = Tail(s) /\ ~Waits(s)
      BY <1>13, <2>1 DEF Waits
  <2>3. CASE s[1][1] = "high" /\ hub' = "up"
      BY <1>11, <1>12, <2>1, <2>2, <2>3
  <2>4. CASE s[1][1] = "low" /\ hub' = "low"
    <3>1. Suffix(t, s, 1)
        BY <1>2, <1>3, <2>2, TailIsSuffix
    <3>2. Len(s) > 1 /\ s[2][1] = "high"
        BY <1>3, <2>4 DEF WellFormed, FormedAt, BeforeReset
    <3>3. High(t) /\ ~Waits(t)
        BY <1>3, <3>1, <3>2 DEF Suffix, High, Waits
    <3>4. reports = {}
        BY <1>2, <1>7, <2>4 DEF HeadOf, s
    <3>5. CalmInv'
        BY <1>9, <2>1, <2>2 DEF CalmInv
    <3>6. WaitOf(t)' /\ HeadOf(t, ok[c])'
        BY <2>1, <3>3, <3>4 DEF WaitOf, HeadOf, High
    <3> QED BY <1>14, <3>3, <3>5, <3>6
  <2> QED BY <2>1, <2>3, <2>4
<1>19. CASE QueuePacket(c)
  <2>1. /\ s[1][1] = "queue" /\ Continue(c) /\ bits' = bits /\ hub' = hub /\ reports' = reports
        /\ txq = <<>> => txq' = << <<s[1][2], s[1][3]>> >>
      BY <1>19 DEF QueuePacket, Next1, Report, sensor, s
  <2>2. t = Tail(s) /\ hub' # "low" /\ ~Waits(s)
      BY <1>8, <1>13, <2>1 DEF Waits
  <2>3. "tx" \notin bits' /\ txq' # <<>> /\ txq'[1] = <<s[1][2], s[1][3]>> /\ txq' = << <<s[1][2], s[1][3]>> >>
      BY <1>9, <2>1, <2>2
  <2>4. AfterQueue(s, 1) /\ Suffix(t, s, 1)
      BY <1>2, <1>3, <2>2, TailIsSuffix DEF WellFormed, FormedAt
  <2>5. Len(s) >= 3 /\ s[2][1] = "listen" /\ s[3][1] = "tx"
      BY <2>1, <2>4 DEF AfterQueue
  <2>6. Len(t) = Len(s) - 1 /\ t[1] = s[2] /\ t[2] = s[3] /\ (Len(s) >= 4 => t[3] = s[4])
      BY <1>3, <2>4, <2>5 DEF Suffix
  <2>7. Waits(t) /\ Awaited(t) = 3 /\ t # <<>> /\ t[1][1] = "listen"
      BY <1>3, <2>5, <2>6 DEF Waits, Awaited
  <2>8. s[1][2] = "disable" => UnsetIn(t, s[1][3])
    <3> SUFFICES ASSUME s[1][2] = "disable" PROVE UnsetIn(t, s[1][3])
        OBVIOUS
    <3>1. Len(s) >= 4 /\ s[4] = At("unset", s[1][3])
        BY <2>1, <2>4 DEF AfterQueue
    <3>2. 3 \in 1 .. Len(t) /\ t[3] = s[4]
        BY <1>3, <2>6, <3>1
    <3> QED BY <3>1, <3>2 DEF UnsetIn
  <2>9. s[1][2] = "reset" => reports = {}
      BY <1>2, <1>7, <2>1 DEF HeadOf, s
  <2>10. ASSUME Len(t) >= 3, t[3][1] = "set" PROVE txq' = << <<"enable", t[3][3]>> >>
    <3>1. 4 \in 1 .. Len(s) /\ t[3] = s[4]
        BY <1>3, <2>6, <2>10
    <3>2. s[1] = Queue("enable", s[4][3])
      <4>1. BeforeSet(s, 4)
          BY <1>3, <3>1 DEF WellFormed, FormedAt
      <4> QED BY <2>10, <3>1, <4>1 DEF BeforeSet
    <3> QED BY <2>3, <3>1, <3>2 DEF Queue
  <2>11. WaitOf(t)'
      BY <2>1, <2>3, <2>7, <2>8, <2>9, <2>10 DEF WaitOf
  <2>12. HeadOf(t, ok[c])'
      BY <2>7 DEF HeadOf
  <2>13. CalmInv'
      BY <1>6, <2>7 DEF CalmInv
  <2> QED BY <1>14, <2>2, <2>11, <2>12, <2>13
\* The steps that leave the queue, its bit and the sensor alone.
<1>20. ASSUME UNCHANGED <<txq, sensor>>, "tx" \in bits' => "tx" \in bits, ~Waits(s), s[1][1] # "high", Plain(t)
       PROVE Tidy'
    BY <1>8, <1>11, <1>20 DEF sensor
<1>21. CASE WaitRx(c) \/ Wipe(c)
  <2>1. s[1][1] \in {"rx", "wipe"} /\ UNCHANGED <<txq, sensor>> /\ bits' \subseteq bits
      BY <1>21 DEF WaitRx, Wipe, Await, Next1, s
  <2>2. ~Waits(s)
      BY <2>1 DEF Waits
  <2>3. Suffix(t, s, 1) => Plain(t)
      BY <1>2, <1>3, <2>1, <2>2, PopIsPlain DEF s
  <2> QED BY <1>2, <1>20, <2>1, <2>2, <2>3 DEF Leaves
<1>22. CASE WaitVerdict(c) \/ CheckInit(c) \/ FlushRx(c) \/ EnableNext(c) \/ DataAvailable(c)
  <2>1. /\ s[1][1] \in {"valid", "check", "flush", "enable", "avail"}
        /\ UNCHANGED <<txq, sensor>> /\ bits' \subseteq bits
      BY <1>22 DEF WaitVerdict, CheckInit, FlushRx, EnableNext, DataAvailable, device, Next1, s
  <2>2. ~Waits(s)
      BY <2>1 DEF Waits
  <2>3. Suffix(t, s, 1) => Plain(t)
      BY <1>2, <1>3, <2>1, <2>2, PopIsPlain DEF s
  <2> QED BY <1>2, <1>20, <2>1, <2>2, <2>3 DEF Leaves
<1>23. CASE \/ Judge(c) \/ TakeReason(c) \/ Forget(c) \/ Spawn(c) \/ SetReport(c) \/ Unmask(c)
            \/ UnsetReport(c) \/ Mask(c) \/ Configured(c) \/ EndToggle(c) \/ EndBoot(c)
  <2>1. /\ s[1][1] \in {"judge", "reason", "forget", "spawn", "set", "unmask", "unset", "mask", "configured",
                        "on", "off", "boot"}
        /\ UNCHANGED <<txq, sensor>> /\ bits' = bits /\ Continue(c)
      BY <1>23 DEF Judge, TakeReason, Forget, Spawn, SetReport, Unmask, UnsetReport, Mask, Configured, EndToggle,
           EndBoot, device, Next1, s
  <2>2. ~Waits(s)
      BY <2>1 DEF Waits
  <2>3. Plain(t)
      BY <1>12, <1>13, <2>1, <2>2
  <2> QED BY <1>20, <2>1, <2>2, <2>3
<1> QED BY <1>15, <1>16, <1>17, <1>18, <1>19, <1>21, <1>22, <1>23 DEF CallerStep

(* A reader consumes no bit that an administrator waits for.               *)
LEMMA ReaderTidy ==
    ASSUME Tidy, Types, NEW c \in Readers, CallerStep(c)
    PROVE  Tidy'
<1>1. c \in Callers /\ TodoInv /\ OkType /\ c \notin Admins
    BY BnoAssumption DEF Callers, Types
<1>2. PICK t : todo[c] # <<>> /\ todo' = [todo EXCEPT ![c] = t]
    BY <1>1, CallerTodo DEF OkType
<1>3. todo[c] \in Seq(Step) /\ todo[c][1][1] \in ReadNames
    BY <1>1, <1>2 DEF TodoInv
<1>4. /\ UNCHANGED <<txq, reports, hub, hubReports>> /\ ("tx" \in bits' <=> "tx" \in bits)
      /\ ok' = ok \/ \E b : Result(c, b)
  <2>1. Listen(c) \/ WaitRx(c) \/ WaitVerdict(c) \/ Judge(c) \/ Wipe(c) \/ DataAvailable(c)
      BY <1>3 DEF CallerStep, WaitTx, FlushRx, ClearReports, ResetPin, QueuePacket, TakeReason, Forget, Spawn,
           CheckInit, EnableNext, SetReport, Unmask, UnsetReport, Mask, Configured, EndToggle, EndBoot, Next1,
           ReadNames
  <2>2. CASE WaitRx(c) \/ Wipe(c)
      BY <2>2 DEF WaitRx, Wipe, Await, Decide, sensor
  <2>3. CASE Listen(c) \/ WaitVerdict(c) \/ Judge(c) \/ DataAvailable(c)
      BY <2>3 DEF Listen, WaitVerdict, Judge, DataAvailable, device, sensor
  <2> QED BY <2>1, <2>2, <2>3
<1>5. \A a \in Admins : todo'[a] = todo[a] /\ ok'[a] = ok[a]
  <2>1. \A a \in Admins : a \in Callers /\ a # c
      BY <1>1 DEF Callers
  <2> QED BY <1>1, <1>2, <1>4, <2>1 DEF TodoInv, OkType, Result
<1> QED BY <1>4, <1>5, Frame

(* A call that starts when no other is under way finds everything at rest. *)
LEMMA StartTidy ==
    ASSUME Tidy, TodoInv, NEW c \in Admins, StartCall(c), clean'
    PROVE  Tidy'
<1>1. \A a \in Admins : todo[a] = <<>>
    BY DEF StartCall, Idle
<1>2. PICK t : IsCall(t) /\ todo' = [todo EXCEPT ![c] = t]
    BY CallsFormed DEF StartCall
<1>3. UNCHANGED <<txq, bits, reports, hub, hubReports>>
    BY DEF StartCall, device, sensor
<1>4. hub # "low" /\ reports \subseteq hubReports
    BY <1>1 DEF Tidy, High, TrueReports, UnsetIn
<1>5. TrueReports'
    BY <1>3, <1>4 DEF TrueReports
<1>6. Alone(c) /\ ~Waits(todo[c])
    BY <1>1 DEF Alone, Waits
<1> QED BY <1>2, <1>3, <1>4, <1>5, <1>6, AdminPlain DEF IsCall

(* TidyInv is inductive.                                                   *)
LEMMA TidyStep ==
    ASSUME TidyInv, Types, [Next]_vars
    PROVE  TidyInv'
<1> SUFFICES ASSUME clean' PROVE Tidy'
    BY DEF TidyInv
<1>11. ASSUME Restart, Asserts PROVE Tidy'
  <2>1. PICK m \in Admins : todo' = [c \in Callers |-> IF c = m THEN boot ELSE <<>>]
      BY <1>11 DEF Restart
  <2>2. txq' = <<>> /\ bits' = {} /\ reports' = {} /\ hub' # "low"
      BY <1>11 DEF Restart, Asserts
  <2>3. \A a \in Admins : todo'[a] = IF a = m THEN boot ELSE <<>>
      BY <2>1 DEF Callers
  <2>4. Plain(boot)
      BY CallsFormed DEF IsCall
  <2>5. OneAdmin' /\ CalmInv' /\ TrueReports'
      BY <2>2, <2>3 DEF OneAdmin, CalmInv, TrueReports
  <2>6. ASSUME NEW a \in Admins PROVE WaitOf(todo[a])' /\ HeadOf(todo[a], ok[a])'
    <3>1. Plain(todo'[a])
        BY <2>3, <2>4 DEF Plain, Waits
    <3> QED BY <2>2, <3>1 DEF WaitOf, HeadOf, Plain
  <2> QED BY <2>2, <2>5, <2>6 DEF Tidy
<1> SUFFICES ASSUME ~(Restart /\ Asserts) PROVE Tidy'
    BY <1>11
<1>12. ASSUME HubAssert \/ HubRetry PROVE Wakes /\ Asserts
    BY <1>12, EdgeIs
<1>1. clean
    BY <1>12 DEF Wakes, Next, HubReport, HubFault, SpiTask, SpiLoop, SpiSend, SpiReceive, Serve, DataParse, StartRead, StartCall,
         CallerStep, Listen, WaitTx, WaitRx, FlushRx, WaitVerdict, Judge, Wipe, ClearReports, ResetPin, QueuePacket,
         TakeReason, Forget, Spawn, CheckInit, EnableNext, SetReport, Unmask, UnsetReport, Mask, Configured,
         EndToggle, EndBoot, DataAvailable, Await, history, vars
<1>2. Tidy /\ TodoInv /\ TxType
    BY <1>1 DEF TidyInv, Types
<1>3. ASSUME UNCHANGED <<todo, ok, txq, reports, hub, hubReports>>, "tx" \in bits' <=> "tx" \in bits PROVE Tidy'
    BY <1>2, <1>3, Frame
<1>4. CASE HubReport \/ HubFault \/ UNCHANGED vars
    BY <1>3, <1>4 DEF HubReport, HubFault, vars, device, callers, sensor
<1>13. CASE HubAssert \/ HubRetry
    BY <1>3, <1>12, <1>13 DEF Wakes, Asserts, device, callers
<1>14. ASSUME NEW g \in Gens, SpiLoop(g) PROVE Tidy'
    BY <1>3, <1>14 DEF SpiLoop, device, callers, sensor
<1>5. ASSUME NEW g \in Gens, SpiSend(g) PROVE Tidy'
    BY <1>2, <1>5, SendTidy
<1>6. ASSUME NEW g \in Gens, SpiReceive(g) PROVE Tidy'
    BY <1>3, <1>6 DEF SpiReceive, Serve, callers
<1>7. ASSUME NEW g \in Gens, DataParse(g) PROVE Tidy'
    BY <1>3, <1>7 DEF DataParse, callers, sensor
<1>8. ASSUME NEW c \in Readers, StartRead(c) PROVE Tidy'
  <2>1. \A a \in Admins : todo'[a] = todo[a] /\ ok'[a] = ok[a]
    <3>1. \A a \in Admins : a \in Callers /\ a # c
        BY BnoAssumption DEF Callers
    <3> QED BY <1>2, <1>8, <3>1 DEF StartRead, TodoInv
  <2>2. UNCHANGED <<bits, txq, reports, hub, hubReports>>
      BY <1>8 DEF StartRead, device, sensor
  <2> QED BY <1>2, <2>1, <2>2, Frame
<1>9. ASSUME NEW c \in Admins, StartCall(c) PROVE Tidy'
    BY <1>2, <1>9, StartTidy
<1>10. ASSUME NEW c \in Callers, CallerStep(c) PROVE Tidy'
    BY <1>2, <1>10, AdminStep, ReaderTidy DEF Callers
<1> QED BY <1>4, <1>5, <1>6, <1>7, <1>8, <1>9, <1>10, <1>13, <1>14 DEF Next, SpiTask

(* Of the bits in evt_grp_report_en, which BNO08x_data_available and the   *)
(* interrupt rely on: as long as no command timed out and no two calls but *)
(* reads overlapped, a bit tells of a report the sensor was told to send,  *)
(* however the tasks interleave and whatever the sensor loses.             *)
THEOREM ReportsAlwaysTrue == Spec => []ReportsTrue
<1>1. Init => TidyInv
  <2> SUFFICES ASSUME Init PROVE Tidy
      BY DEF TidyInv
  <2>1. PICK m \in Admins : todo = [c \in Callers |-> IF c = m THEN boot ELSE <<>>]
      BY DEF Init
  <2>2. /\ txq = <<>> /\ bits = {} /\ reports = {} /\ hub = "up"
      BY DEF Init
  <2>3. \A a \in Admins : todo[a] = IF a = m THEN boot ELSE <<>>
      BY <2>1 DEF Callers
  <2>4. Plain(boot)
      BY CallsFormed DEF IsCall
  <2>5. OneAdmin /\ CalmInv /\ TrueReports
      BY <2>2, <2>3 DEF OneAdmin, CalmInv, TrueReports
  <2>6. \A a \in Admins : WaitOf(todo[a]) /\ HeadOf(todo[a], ok[a])
      BY <2>2, <2>3, <2>4 DEF WaitOf, HeadOf, Plain, Waits
  <2> QED BY <2>2, <2>5, <2>6 DEF Tidy
<1>2. TidyInv /\ Types /\ [Next]_vars => TidyInv'
    BY TidyStep
<1>3. TidyInv /\ Types => ReportsTrue
  <2> SUFFICES ASSUME TidyInv, Types, clean, NEW r \in reports \ hubReports
               PROVE \E c \in Admins : \E i \in DOMAIN todo[c] : todo[c][i] = At("unset", r)
      BY DEF ReportsTrue
  <2>1. PICK c \in Admins : UnsetIn(todo[c], r)
      BY DEF TidyInv, Tidy, TrueReports
  <2>2. todo[c] \in Seq(Step)
      BY DEF Types, TodoInv, Callers
  <2>3. DOMAIN todo[c] = 1 .. Len(todo[c])
      BY <2>2
  <2> QED BY <2>1, <2>3 DEF UnsetIn
<1>4. Spec => []TidyInv
    BY <1>1, <1>2, TypesInvariant, PTL DEF Spec
<1> QED BY <1>3, <1>4, TypesInvariant, PTL
=============================================================================
