--------------------------- MODULE SysLoopProofs ---------------------------
(***************************************************************************)
(* Proofs about SysLoop, for every size of the queue and every number of   *)
(* requests.  OneEventPerToken rests on a count: posting, taking and       *)
(* finishing an event move it from one place to the next.                  *)
(***************************************************************************)
EXTENDS SysLoop, QueueProofs

(* A branch that is not entered posts nothing.                             *)
LEMMA BranchType ==
    ASSUME NEW S, NEW set, NEW bit, NEW events \in Seq(S)
    PROVE  Branch(set, bit, events) \in Seq(S)
    BY DEF Branch

(* What app_system_loop may still have to do.                              *)
LEMMA RoundType ==
    ASSUME NEW set
    PROVE  Round(set) \in Seq(Events \cup {"update"})
<1> DEFINE S == Events \cup {"update"}
<1>1. /\ "time_sync" \in S /\ "discovery" \in S /\ "wifi" \in S
      /\ "quick" \in S /\ "update" \in S /\ "led" \in S
    BY DEF Events
<1> HIDE DEF S
<1>2. /\ <<"time_sync", "discovery">> \in Seq(S) /\ <<"wifi">> \in Seq(S)
      /\ <<"quick", "update">> \in Seq(S) /\ <<"quick">> \in Seq(S)
      /\ <<"led">> \in Seq(S)
    BY <1>1
<1>3. /\ Branch(set, "connected", <<"time_sync", "discovery">>) \in Seq(S)
      /\ Branch(set, "reconnect", <<"wifi">>) \in Seq(S)
      /\ Branch(set, "ota", <<"quick", "update">>) \in Seq(S)
      /\ Branch(set, "mode", <<"quick">>) \in Seq(S)
    BY <1>2, BranchType
<1>4. Round(set) \in Seq(S)
    BY <1>2, <1>3 DEF Round
<1> QED BY <1>4 DEF S
-----------------------------------------------------------------------------
(* The type invariant.                                                     *)

QueueType == queue \in Seq(Events) /\ Len(queue) <= QueueSize

RestType ==
    /\ bits \in SUBSET Bits /\ tokens \in SUBSET Tokens
    /\ todo \in Seq(Events \cup {"update"}) /\ claimed \in BOOLEAN
    /\ dpc \in {"free", "time_sync", "discovery", "quick"}
    /\ hpc \in Slow \cup {"idle", "synced", "connecting", "reconnected"}
    /\ wifi \in BOOLEAN /\ ntp \in BOOLEAN /\ requests \in Nat

(* A token is claimed for the event that is posted next.                   *)
ClaimInv == claimed => todo # <<>> /\ Head(todo) \in {"wifi", "led"}

(* Every action but the taking of the bits either leaves app_system_loop   *)
(* where it is or lets it go on to the next branch.                        *)
LEMMA RestTyped == Spec => []RestType
<1> USE DEF RestType
<1>1. Init => RestType
  <2>1. <<>> \in Seq(Events \cup {"update"})
      OBVIOUS
  <2> SUFFICES ASSUME Init PROVE RestType
      OBVIOUS
  <2>2. claimed \in BOOLEAN /\ wifi \in BOOLEAN /\ ntp \in BOOLEAN
      BY Zenon DEF Init
  <2>3. /\ bits \in SUBSET Bits /\ tokens \in SUBSET Tokens
        /\ dpc = "free" /\ hpc = "idle" /\ todo = <<>> /\ requests \in Nat
      BY DEF Init, Bits
  <2> QED BY <2>1, <2>2, <2>3
<1>2. RestType /\ [Next]_vars => RestType'
  <2> SUFFICES ASSUME RestType, [Next]_vars PROVE RestType'
      OBVIOUS
  <2> USE DEF status, LoopStep, Slow
  <2>1. CASE LoopTake
    <3>1. todo' \in Seq(Events \cup {"update"})
        BY <2>1, RoundType DEF LoopTake
    <3> QED BY <2>1, <3>1 DEF LoopTake
  <2>2. CASE LoopClaim
      BY <2>2 DEF LoopClaim, Tokens
  <2>3. CASE LoopSkip
      BY <2>3 DEF LoopSkip, Proceed
  <2>4. CASE LoopPost
    <3>1. /\ todo # <<>> /\ todo' = Tail(todo) /\ claimed' = FALSE
          /\ UNCHANGED <<bits, tokens, dpc, hpc, wifi, ntp, requests>>
        BY <2>4, Zenon DEF LoopPost, Proceed, LoopStep, status
    <3>2. claimed' \in BOOLEAN
        BY <3>1, Zenon
    <3>3. todo' \in Seq(Events \cup {"update"})
        BY <3>1
    <3> QED BY <3>1, <3>2, <3>3
  <2>5. CASE UpdateFails
      BY <2>5 DEF UpdateFails, Proceed, Bits
  <2>6. CASE TickDiscovery \/ TickPower
      BY <2>6 DEF TickDiscovery, TickPower, Callback
  <2>7. CASE TickTimeSync
      BY <2>7 DEF TickTimeSync, Callback, Tokens
  <2>8. CASE DaemonPost
      BY <2>8 DEF DaemonPost
  <2>9. CASE HandlerTake
      BY <2>9 DEF HandlerTake, HandlerStep
  <2>10. CASE SyncAnswered \/ SyncFails \/ SyncDone
      BY <2>10 DEF SyncAnswered, SyncFails, SyncDone, HandlerStep, Bits
  <2>11. CASE DiscoveryEnds
      BY <2>11 DEF DiscoveryEnds, HandlerStep, Bits
  <2>12. CASE WifiDown \/ WifiUp \/ WifiFails
      BY <2>12 DEF WifiDown, WifiUp, WifiFails, HandlerStep, Bits
  <2>13. CASE WifiDone \/ LedDone
      BY <2>13 DEF WifiDone, LedDone, HandlerStep
  <2>14. CASE Outside
      BY <2>14 DEF Outside, Request, Bits
  <2>15. CASE UNCHANGED vars
      BY <2>15 DEF vars
  <2> QED
      BY <2>1, <2>2, <2>3, <2>4, <2>5, <2>6, <2>7, <2>8, <2>9, <2>10, <2>11,
         <2>12, <2>13, <2>14, <2>15
      DEF Next, Loop, Daemon, Handler
<1> QED BY <1>1, <1>2, PTL DEF Spec

(* Whoever posts waits until there is room.                                *)
LEMMA QueueTyped == Spec => []QueueType
<1> USE DEF QueueType
<1>1. Init => QueueType
    BY ConstantsAssumption DEF Init
<1>2. QueueType /\ RestType /\ [Next]_vars => QueueType'
  <2> SUFFICES ASSUME QueueType, RestType, [Next]_vars PROVE QueueType'
      OBVIOUS
  <2>1. CASE queue' = queue
      BY <2>1
  <2>2. ASSUME NEW e \in Events, Post(e) PROVE QueueType'
      BY <2>2, ConstantsAssumption DEF Post
  <2>3. CASE LoopPost
    <3>1. Post(Head(todo)) /\ Head(todo) \in Events
        BY <2>3 DEF LoopPost, Proceed, RestType
    <3> QED BY <2>2, <3>1
  <2>4. CASE DaemonPost
    <3>1. Post(dpc) /\ dpc \in Events
        BY <2>4 DEF DaemonPost, RestType, Events
    <3> QED BY <2>2, <3>1
  <2>5. CASE HandlerTake
      BY <2>5, ConstantsAssumption DEF HandlerTake
  <2>6. CASE LoopTake \/ LoopClaim \/ LoopSkip \/ UpdateFails
      BY <2>1, <2>6 DEF LoopTake, LoopClaim, LoopSkip, UpdateFails
  <2>7. CASE TickDiscovery \/ TickTimeSync \/ TickPower
      BY <2>1, <2>7 DEF TickDiscovery, TickTimeSync, TickPower, Callback
  <2>8. CASE SyncAnswered \/ SyncFails \/ SyncDone \/ DiscoveryEnds \/ WifiDown
                \/ WifiUp \/ WifiFails \/ WifiDone \/ LedDone
      BY <2>1, <2>8
      DEF SyncAnswered, SyncFails, SyncDone, DiscoveryEnds, WifiDown, WifiUp,
          WifiFails, WifiDone, LedDone
  <2>9. CASE Outside \/ UNCHANGED vars
      BY <2>1, <2>9 DEF Outside, Request, vars
  <2> QED
      BY <2>3, <2>4, <2>5, <2>6, <2>7, <2>8, <2>9 DEF Next, Loop, Daemon, Handler
<1> QED BY <1>1, <1>2, RestTyped, PTL DEF Spec

(* TypeOK holds in every reachable state: the queue of the event loop      *)
(* never holds more than it has room for, whoever posts.                   *)
THEOREM TypeCorrect == Spec => []TypeOK
<1>1. RestType /\ QueueType => TypeOK
    BY DEF RestType, QueueType, TypeOK
<1> QED BY <1>1, RestTyped, QueueTyped, PTL
-----------------------------------------------------------------------------
(* One event per token.                                                    *)

Handed == {"wifi", "led"}

(* A token stays claimed until its event is posted.                        *)
LEMMA ClaimInvariant == Spec => []ClaimInv
<1>1. Init => ClaimInv
    BY Zenon DEF Init, ClaimInv
<1>2. ClaimInv /\ [Next]_vars => ClaimInv'
  <2> SUFFICES ASSUME ClaimInv, [Next]_vars PROVE ClaimInv'
      OBVIOUS
  <2>1. CASE UNCHANGED <<todo, claimed>>
      BY <2>1, Zenon DEF ClaimInv
  <2>2. CASE LoopTake
    <3>1. todo = <<>> /\ claimed' = claimed
        BY <2>2 DEF LoopTake
    <3> QED BY <3>1, Zenon DEF ClaimInv
  <2>3. CASE LoopClaim
    <3>1. todo # <<>> /\ Head(todo) \in {"wifi", "led"} /\ todo' = todo
        BY <2>3 DEF LoopClaim
    <3> QED BY <3>1, Zenon DEF ClaimInv
  <2>4. CASE LoopSkip
      BY <2>4, Zenon DEF LoopSkip, ClaimInv
  <2>5. CASE LoopPost
      BY <2>5, Zenon DEF LoopPost, ClaimInv
  <2>6. CASE UpdateFails
    <3>1. Head(todo) \notin {"wifi", "led"} /\ claimed' = claimed
        BY <2>6 DEF UpdateFails
    <3> QED BY <3>1, Zenon DEF ClaimInv
  <2>7. CASE Daemon
      BY <2>1, <2>7 DEF Daemon, TickDiscovery, TickTimeSync, TickPower, Callback, DaemonPost
  <2>8. CASE Handler
      BY <2>1, <2>8
      DEF Handler, HandlerTake, SyncAnswered, SyncFails, SyncDone, DiscoveryEnds,
          WifiDown, WifiUp, WifiFails, WifiDone, LedDone, HandlerStep
  <2>9. CASE Outside \/ UNCHANGED vars
      BY <2>1, <2>9 DEF Outside, Request, vars
  <2> QED BY <2>2, <2>3, <2>4, <2>5, <2>6, <2>7, <2>8, <2>9 DEF Next, Loop
<1> QED BY <1>1, <1>2, PTL DEF Spec

Once(e) == Posting(e) + Queued(e) + Running(e) = IF e \in tokens THEN 1 ELSE 0

(* The three places are counted by natural numbers.                        *)
LEMMA PlacesNat ==
    ASSUME NEW e, QueueType
    PROVE  Queued(e) \in Nat /\ Posting(e) \in {0, 1} /\ Running(e) \in {0, 1}
    BY PostedFinite DEF Queued, Posting, Running, QueueType

(* Each of the two tokens is set as long as its one event is posted,       *)
(* queued or handled, whatever the other tasks do meanwhile.               *)
THEOREM EventPerToken == Spec => []OneEventPerToken
<1>1. Init => OneEventPerToken
  <2> SUFFICES ASSUME Init, NEW e \in Handed PROVE Once(e)
      BY DEF OneEventPerToken, Once, Handed
  <2>1. Posting(e) = 0
      BY Zenon DEF Init, Posting
  <2>2. Queued(e) = 0
    <3>1. Posted(e, queue) = {}
        BY DEF Init, Posted
    <3> QED BY <3>1, FS_EmptySet DEF Queued
  <2>3. Running(e) = 0 /\ e \notin tokens
      BY DEF Init, Running, Handed
  <2> QED BY <2>1, <2>2, <2>3 DEF Once
<1>2. /\ OneEventPerToken /\ RestType /\ QueueType /\ QueueType' /\ ClaimInv
      /\ [Next]_vars
      => OneEventPerToken'
  <2> SUFFICES ASSUME RestType, QueueType, QueueType', ClaimInv, [Next]_vars,
                      NEW e \in Handed, Once(e)
               PROVE  Once(e)'
      BY DEF OneEventPerToken, Once, Handed
  <2> USE DEF Once, Handed
  <2>1. /\ Queued(e) \in Nat /\ Posting(e) \in {0, 1} /\ Running(e) \in {0, 1}
        /\ Queued(e)' \in Nat /\ Posting(e)' \in {0, 1} /\ Running(e)' \in {0, 1}
    <3>1. ASSUME NEW x, QueueType' PROVE Queued(x)' \in Nat
        BY <3>1, PostedFinite DEF Queued, QueueType
    <3>2. Posting(e)' \in {0, 1} /\ Running(e)' \in {0, 1}
        BY DEF Posting, Running
    <3> QED BY <3>1, <3>2, PlacesNat
  <2>2. ASSUME UNCHANGED <<todo, claimed>> PROVE Posting(e)' = Posting(e)
      BY <2>2, Zenon DEF Posting
  <2>3. ASSUME UNCHANGED queue PROVE Queued(e)' = Queued(e)
      BY <2>3 DEF Queued
  <2>4. ASSUME UNCHANGED hpc PROVE Running(e)' = Running(e)
      BY <2>4 DEF Running
  <2>5. ASSUME NEW x \in Events, Post(x)
        PROVE  Queued(e)' = Queued(e) + (IF x = e THEN 1 ELSE 0)
      BY <2>5, CountAppend DEF Queued, Post, QueueType
  <2>6. CASE LoopTake
    <3>1. todo = <<>> /\ claimed' = claimed /\ UNCHANGED <<queue, hpc, tokens>>
        BY <2>6 DEF LoopTake, LoopStep
    <3>2. Posting(e) = 0 /\ Posting(e)' = 0
        BY <3>1, Zenon DEF Posting, ClaimInv
    <3> QED BY <2>1, <2>3, <2>4, <3>1, <3>2
  <2>7. CASE LoopClaim
    <3>1. /\ todo # <<>> /\ Head(todo) \notin tokens /\ todo' = todo
          /\ tokens' = tokens \cup {Head(todo)} /\ UNCHANGED <<queue, hpc>>
        BY <2>7 DEF LoopClaim, LoopStep
    <3>2. Posting(e) = 0 /\ Posting(e)' = IF Head(todo) = e THEN 1 ELSE 0
        BY <2>7, <3>1, Zenon DEF LoopClaim, Posting
    <3> QED BY <2>1, <2>3, <2>4, <3>1, <3>2
  <2>8. CASE LoopSkip
    <3>1. UNCHANGED <<queue, hpc, tokens>>
        BY <2>8 DEF LoopSkip, LoopStep
    <3>2. Posting(e) = 0 /\ Posting(e)' = 0
        BY <2>8, Zenon DEF LoopSkip, Posting
    <3> QED BY <2>1, <2>3, <2>4, <3>1, <3>2
  <2>9. CASE LoopPost
    <3>1. /\ Post(Head(todo)) /\ Head(todo) \in Events /\ UNCHANGED <<hpc, tokens>>
        BY <2>9 DEF LoopPost, Proceed, RestType, LoopStep
    <3>2. Posting(e)' = 0 /\ Posting(e) = IF Head(todo) = e THEN 1 ELSE 0
      <4>1. e = "wifi" \/ e = "led"
          OBVIOUS
      <4> QED BY <2>9, <4>1, Zenon DEF LoopPost, Proceed, Posting
    <3> QED BY <2>1, <2>4, <2>5, <3>1, <3>2
  <2>10. CASE UpdateFails
    <3>1. Head(todo) = "update" /\ claimed' = claimed /\ UNCHANGED <<queue, hpc, tokens>>
        BY <2>10 DEF UpdateFails, LoopStep
    <3>2. ~claimed
        BY <3>1 DEF ClaimInv
    <3>3. Posting(e) = 0 /\ Posting(e)' = 0
        BY <3>1, <3>2, Zenon DEF Posting
    <3> QED BY <2>1, <2>3, <2>4, <3>1, <3>3
  <2>11. CASE TickDiscovery \/ TickTimeSync \/ TickPower
    <3>1. UNCHANGED <<todo, claimed, queue, hpc>> /\ (e \in tokens' <=> e \in tokens)
        BY <2>11 DEF TickDiscovery, TickTimeSync, TickPower, Callback
    <3> QED BY <2>2, <2>3, <2>4, <3>1
  <2>12. CASE DaemonPost
    <3>1. /\ Post(dpc) /\ dpc \in Events /\ dpc # e
          /\ UNCHANGED <<todo, claimed, hpc, tokens>>
        BY <2>12 DEF DaemonPost, RestType, Events
    <3> QED BY <2>1, <2>2, <2>4, <2>5, <3>1
  <2>13. CASE HandlerTake
    <3>1. /\ queue # <<>> /\ queue' = Tail(queue) /\ hpc = "idle"
          /\ hpc' = (IF Head(queue) \in Slow THEN Head(queue) ELSE "idle")
          /\ UNCHANGED <<todo, claimed, tokens>>
        BY <2>13 DEF HandlerTake, HandlerStep
    <3>2. Queued(e)' = Queued(e) - (IF Head(queue) = e THEN 1 ELSE 0)
        BY <3>1, CountTail DEF Queued, QueueType
    <3>3. Head(queue) \in Events
        BY <3>1 DEF QueueType
    <3>4. Running(e) = 0 /\ Running(e)' = IF Head(queue) = e THEN 1 ELSE 0
        BY <3>1, <3>3 DEF Running, Slow, Events
    <3> QED BY <2>1, <2>2, <3>1, <3>2, <3>4
  <2>14. CASE SyncAnswered \/ SyncFails \/ DiscoveryEnds
    <3>1. /\ UNCHANGED <<todo, claimed, queue, tokens>>
          /\ Running(e) = 0 /\ Running(e)' = 0
        BY <2>14 DEF SyncAnswered, SyncFails, DiscoveryEnds, HandlerStep, Running
    <3> QED BY <2>1, <2>2, <2>3, <3>1
  <2>15. CASE SyncDone
    <3>1. /\ UNCHANGED <<todo, claimed, queue>> /\ (e \in tokens' <=> e \in tokens)
          /\ Running(e) = 0 /\ Running(e)' = 0
        BY <2>15 DEF SyncDone, HandlerStep, Running
    <3> QED BY <2>1, <2>2, <2>3, <3>1
  <2>16. CASE WifiDown \/ WifiUp \/ WifiFails
    <3>1. /\ UNCHANGED <<todo, claimed, queue, tokens>>
          /\ Running(e)' = Running(e)
        BY <2>16 DEF WifiDown, WifiUp, WifiFails, HandlerStep, Running
    <3> QED BY <2>1, <2>2, <2>3, <3>1
  <2>17. CASE WifiDone
    <3>1. /\ UNCHANGED <<todo, claimed, queue>> /\ tokens' = tokens \ {"wifi"}
          /\ Running("wifi") = 1 /\ Running(e)' = 0 /\ (e = "led" => Running(e) = 0)
        BY <2>17 DEF WifiDone, HandlerStep, Running
    <3> QED BY <2>1, <2>2, <2>3, <3>1
  <2>18. CASE LedDone
    <3>1. /\ UNCHANGED <<todo, claimed, queue>> /\ tokens' = tokens \ {"led"}
          /\ Running("led") = 1 /\ Running(e)' = 0 /\ (e = "wifi" => Running(e) = 0)
        BY <2>18 DEF LedDone, HandlerStep, Running
    <3> QED BY <2>1, <2>2, <2>3, <3>1
  <2>19. CASE Outside \/ UNCHANGED vars
    <3>1. UNCHANGED <<todo, claimed, queue, hpc, tokens>>
        BY <2>19 DEF Outside, Request, vars
    <3> QED BY <2>2, <2>3, <2>4, <3>1
  <2> QED
      BY <2>6, <2>7, <2>8, <2>9, <2>10, <2>11, <2>12, <2>13, <2>14, <2>15, <2>16,
         <2>17, <2>18, <2>19
      DEF Next, Loop, Daemon, Handler
<1> QED BY <1>1, <1>2, RestTyped, QueueTyped, ClaimInvariant, PTL DEF Spec
-----------------------------------------------------------------------------
(* The token of time synchronisation.                                      *)

(* Whenever the time-sync bit is set an event is on the way or handled, so *)
(* the bit is cleared again and the timer is not silenced for good.        *)
THEOREM SyncBacked == Spec => []SyncTokenBacked
<1> USE DEF SyncTokenBacked
<1>1. Init => SyncTokenBacked
    BY DEF Init
<1>2. SyncTokenBacked /\ RestType /\ QueueType /\ [Next]_vars => SyncTokenBacked'
  <2> SUFFICES ASSUME SyncTokenBacked, RestType, QueueType, [Next]_vars
               PROVE  SyncTokenBacked'
      OBVIOUS
  <2> DEFINE places == Posted("time_sync", queue)
  <2>1. ASSUME NEW x \in Events, Post(x)
        PROVE  /\ places # {} => places' # {}
               /\ x = "time_sync" => places' # {}
    <3>1. places' = Posted("time_sync", Append(queue, x))
        BY <2>1 DEF Post
    <3>2. CASE x = "time_sync"
      <4>1. Posted("time_sync", Append(queue, "time_sync")) =
              places \cup {Len(queue) + 1}
          BY <2>1, <3>2, PostedAppend DEF QueueType
      <4> QED BY <3>1, <3>2, <4>1
    <3>3. CASE x # "time_sync"
      <4>1. places' = places
          BY <2>1, <3>1, <3>3, PostedAppend DEF QueueType
      <4> QED BY <3>3, <4>1
    <3> QED BY <3>2, <3>3
  <2>2. CASE LoopTake \/ LoopSkip \/ UpdateFails
      BY <2>2 DEF LoopTake, LoopSkip, UpdateFails, LoopStep
  <2>3. CASE LoopClaim
      BY <2>3 DEF LoopClaim, LoopStep
  <2>4. CASE LoopPost
    <3>1. Post(Head(todo)) /\ Head(todo) \in Events /\ UNCHANGED <<tokens, dpc, hpc>>
        BY <2>4 DEF LoopPost, Proceed, RestType, LoopStep
    <3> QED BY <2>1, <3>1
  <2>5. CASE TickDiscovery \/ TickPower
      BY <2>5 DEF TickDiscovery, TickPower, Callback
  <2>6. CASE TickTimeSync
      BY <2>6 DEF TickTimeSync, Callback
  <2>7. CASE DaemonPost
    <3>1. Post(dpc) /\ dpc \in Events /\ UNCHANGED <<tokens, hpc>>
        BY <2>7 DEF DaemonPost, RestType, Events
    <3> QED BY <2>1, <3>1
  <2>8. CASE HandlerTake
    <3>1. /\ queue # <<>> /\ queue' = Tail(queue) /\ hpc = "idle"
          /\ Head(queue) = "time_sync" => hpc' = "time_sync"
          /\ UNCHANGED <<tokens, dpc>>
        BY <2>8 DEF HandlerTake, HandlerStep, Slow
    <3>2. CASE Head(queue) = "time_sync"
        BY <3>1, <3>2
    <3>3. CASE Head(queue) # "time_sync"
      <4>1. Posted("time_sync", Tail(queue)) = {} => places = {}
          BY <3>1, <3>3, NonePosted DEF QueueType
      <4> QED BY <3>1, <4>1
    <3> QED BY <3>2, <3>3
  <2>9. CASE SyncAnswered \/ SyncFails
      BY <2>9 DEF SyncAnswered, SyncFails, HandlerStep
  <2>10. CASE SyncDone
      BY <2>10 DEF SyncDone
  <2>11. CASE DiscoveryEnds \/ WifiDown \/ WifiUp \/ WifiFails
      BY <2>11 DEF DiscoveryEnds, WifiDown, WifiUp, WifiFails, HandlerStep
  <2>12. CASE WifiDone \/ LedDone
      BY <2>12 DEF WifiDone, LedDone, HandlerStep
  <2>13. CASE Outside \/ UNCHANGED vars
      BY <2>13 DEF Outside, Request, vars
  <2> QED
      BY <2>2, <2>3, <2>4, <2>5, <2>6, <2>7, <2>8, <2>9, <2>10, <2>11, <2>12, <2>13
      DEF Next, Loop, Daemon, Handler
<1> QED BY <1>1, <1>2, RestTyped, QueueTyped, PTL DEF Spec
=============================================================================
