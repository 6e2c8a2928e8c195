---------------------------- MODULE BufferProofs ----------------------------
(***************************************************************************)
(* Proofs about the ring buffer (RingBuf), for buffers of any length and   *)
(* any number of peeking tasks, and about the data path that goes through  *)
(* it (Stream), for buffers of any length and any bounds on the            *)
(* environment.                                                            *)
(*                                                                         *)
(* RingBuf: TypeOK is inductive.  WindowIntact is not: WriterInv adds how  *)
(* the two cursors of ring_buf.c are coupled at each step of a push, what  *)
(* the push has written so far, and that the slot the next push will take  *)
(* still holds its old item while no push is under way.  That last part is *)
(* the margin OnePushSafe rests on.                                        *)
(*                                                                         *)
(* Stream: monitor.c and network.c, which count frames each for itself,    *)
(* agree on their numbers; a stop lets at most one more frame out; and the *)
(* multiplexer follows the operation mode.                                 *)
(***************************************************************************)
EXTENDS RingBuf, Stream, QueueProofs

-----------------------------------------------------------------------------
(* The ring buffer.                                                        *)

\* _head is the slot of the item being pushed, or of the next one.
Coupled ==
    /\ wpc \in {"idle", "low", "high"} => whead = SlotOf(head)
    /\ wpc = "advanced" => whead = SlotOf(head + 1)
    /\ wpc = "reset" => head = FirstIndex

\* What the running push has stored.
Written ==
    /\ wpc \in {"low", "high", "advanced"}
         => slots[SlotOf(head)].lo = ItemAt(session, head)
    /\ wpc \in {"high", "advanced"}
         => slots[SlotOf(head)].hi = ItemAt(session, head)

\* Between two pushes the oldest item is still whole in the next slot.
SpareIntact == wpc = "idle" /\ head - Size >= FirstIndex => Intact(head - Size)

\* The bounds of the model.
Bounded ==
    /\ session <= MaxSession
    /\ wpc \in {"low", "high", "advanced"} => head < MaxHead

WriterInv == TypeOK /\ Coupled /\ Written /\ SpareIntact /\ WindowIntact /\ Bounded

(* SlotOf always names a slot of the buffer.                               *)
LEMMA SlotOfType == \A i \in Int : SlotOf(i) \in Slots
BY ModDef, SizeAssumption DEF SlotOf, Slots

(* Two indices less than a buffer apart live in different slots.           *)
LEMMA SlotsDiffer ==
    ASSUME NEW i \in Int, NEW j \in Int, i < j, j < i + Size
    PROVE  SlotOf(i) # SlotOf(j)
<1>1. Size \in Nat \ {0}
    BY SizeAssumption
<1>2. i % Size # j % Size
    BY <1>1, ResiduesDiffer
<1> QED BY <1>2 DEF SlotOf

(* _head moves on to the slot of the next index.                           *)
LEMMA NextSlot ==
    ASSUME NEW i \in Int
    PROVE  (SlotOf(i) + 1) % Size = SlotOf(i + 1)
BY NextResidue, SizeAssumption DEF SlotOf

(* Every push overwrites only the slot that no index of the window uses.   *)
LEMMA OutsideWindow ==
    ASSUME NEW h \in Nat, NEW i \in Window(h)
    PROVE  /\ i \in Nat /\ FirstIndex <= i /\ i < h /\ i > h - Size
           /\ SlotOf(i) \in Slots
           /\ SlotOf(i) # SlotOf(h)
<1>1. i \in Nat /\ FirstIndex <= i /\ i < h /\ i > h - Size
    BY SizeAssumption DEF Window, OutOfWindow, FirstIndex
<1> QED BY <1>1, SlotOfType, SlotsDiffer, SizeAssumption

(* Type correctness: in particular _head always names a slot of the        *)
(* buffer, so that no push of ring_buf.c stores outside it.                *)
THEOREM RingBufTypeCorrect == Spec => []TypeOK
<1>1. Init => TypeOK
    BY SizeAssumption
    DEF Init, TypeOK, FirstIndex, Slots, Slot, Half, Whole, NoPeek
<1>2. TypeOK /\ [Next]_vars => TypeOK'
  <2> SUFFICES ASSUME TypeOK, [Next]_vars PROVE TypeOK'
      OBVIOUS
  <2> USE DEF TypeOK
  <2>1. CASE PushLow
    <3>1. ItemAt(session, head) \in Half
        BY DEF ItemAt, Item, Half
    <3> QED BY <2>1, <3>1 DEF PushLow, WriterStep, Slot
  <2>2. CASE PushHigh
    <3>1. ItemAt(session, head) \in Half
        BY DEF ItemAt, Item, Half
    <3> QED BY <2>2, <3>1 DEF PushHigh, WriterStep, Slot
  <2>3. CASE PushAdvance
    <3>1. (whead + 1) % Size \in Slots
      <4>1. whead + 1 \in Int
          BY SizeAssumption DEF Slots
      <4> QED BY <4>1, SlotOfType DEF SlotOf
    <3> QED BY <2>3, <3>1 DEF PushAdvance, WriterStep
  <2>4. CASE PushPublish
      BY <2>4 DEF PushPublish, WriterStep, FirstIndex
  <2>5. CASE ResetHead
      BY <2>5 DEF ResetHead, WriterStep, FirstIndex
  <2>6. CASE ResetSlot
      BY <2>6, SizeAssumption DEF ResetSlot, WriterStep, FirstIndex, Slots
  <2>7. ASSUME NEW r \in Readers, NEW i \in Requests, PeekCheck(r, i)
        PROVE  TypeOK'
    <3>1. i \in Int
        BY BoundsAssumption DEF Requests, FirstIndex
    <3> QED BY <2>7, <3>1 DEF PeekCheck, ReaderStep, writer, NoPeek, Half
  <2>8. ASSUME NEW r \in Readers, PeekPlace(r) PROVE TypeOK'
    <3> DEFINE p == [peek[r] EXCEPT !.h = head, !.sess = session,
                                    !.idx = peek[r].req]
    <3>1. p \in [req : Int, h : Nat, sess : Nat, idx : Int, lo : Half, hi : Half]
        OBVIOUS
    <3>2. peek' = [peek EXCEPT ![r] = p]
        BY <2>8 DEF PeekPlace
    <3>3. rpc' \in [Readers -> {"idle", "checked", "newest", "placed", "half", "done"}]
        BY <2>8 DEF PeekPlace, ReaderStep
    <3> QED BY <2>8, <3>1, <3>2, <3>3 DEF PeekPlace, ReaderStep, writer
  <2>8a. ASSUME NEW r \in Readers, PeekNewest(r) PROVE TypeOK'
    <3>1. PICK i \in Int : i = head - 1
        OBVIOUS
    <3>2. peek' = [peek EXCEPT ![r] = [peek[r] EXCEPT !.h = head, !.sess = session,
                                                      !.idx = i]]
        BY <2>8a, <3>1 DEF PeekNewest
    <3> QED BY <2>8a, <3>1, <3>2 DEF PeekNewest, ReaderStep, writer
  <2>9. ASSUME NEW r \in Readers, PeekLow(r) PROVE TypeOK'
    <3>1. slots[SlotOf(peek[r].idx)].lo \in Half
        BY SlotOfType DEF Slot
    <3> QED BY <2>9, <3>1 DEF PeekLow, ReaderStep, writer
  <2>10. ASSUME NEW r \in Readers, PeekHigh(r) PROVE TypeOK'
    <3>1. slots[SlotOf(peek[r].idx)].hi \in Half
        BY SlotOfType DEF Slot
    <3> QED BY <2>10, <3>1 DEF PeekHigh, ReaderStep, writer
  <2>11. ASSUME NEW r \in Readers, PeekReturn(r) PROVE TypeOK'
      BY <2>11 DEF PeekReturn, ReaderStep, writer, NoPeek, Half
  <2>12. CASE UNCHANGED vars
      BY <2>12 DEF vars
  <2> QED
      BY <2>1, <2>2, <2>3, <2>4, <2>5, <2>6, <2>7, <2>8, <2>8a, <2>9, <2>10,
         <2>11, <2>12
      DEF Next, Write, Reset, Peek
<1> QED BY <1>1, <1>2, PTL DEF Spec

(* The inductive invariant of the pushing task.                            *)
LEMMA WriterInvariant == Spec => []WriterInv
<1>1. Init => WriterInv
  <2> SUFFICES ASSUME Init PROVE WriterInv
      OBVIOUS
  <2>1. TypeOK
      BY SizeAssumption
      DEF Init, TypeOK, FirstIndex, Slots, Slot, Half, Whole, NoPeek
  <2>2. SlotOf(FirstIndex) = FirstIndex
      BY SizeAssumption DEF SlotOf, FirstIndex
  <2>3. Coupled /\ Written /\ Bounded
      BY <2>2, BoundsAssumption DEF Init, Coupled, Written, Bounded
  <2>4. SpareIntact /\ WindowIntact
      BY SizeAssumption
      DEF Init, SpareIntact, WindowIntact, Window, FirstIndex
  <2> QED BY <2>1, <2>3, <2>4 DEF WriterInv
<1>2. WriterInv /\ TypeOK' /\ [Next]_vars => WriterInv'
  <2> SUFFICES ASSUME WriterInv, TypeOK', [Next]_vars PROVE WriterInv'
      OBVIOUS
  <2> USE DEF WriterInv
  <2>1. CASE PushLow
    <3>1. /\ wpc = "idle" /\ wpc' = "low" /\ UNCHANGED <<head, whead, session>>
          /\ head < MaxHead /\ whead = SlotOf(head)
          /\ slots' = [slots EXCEPT ![SlotOf(head)].lo = ItemAt(session, head)]
        BY <2>1 DEF PushLow, WriterStep, Coupled
    <3>2. Coupled' /\ SpareIntact' /\ Bounded'
        BY <3>1 DEF Coupled, SpareIntact, Bounded
    <3>3. Written'
        BY <3>1, SlotOfType DEF Written, TypeOK, Slot
    <3>4. WindowIntact'
      <4> SUFFICES ASSUME NEW i \in Window(head) PROVE Intact(i)'
          BY <3>1 DEF WindowIntact
      <4>1. Intact(i) /\ SlotOf(i) \in Slots /\ SlotOf(i) # SlotOf(head)
          BY OutsideWindow DEF WindowIntact, TypeOK
      <4> QED BY <3>1, <4>1 DEF Intact, TypeOK
    <3> QED BY <3>2, <3>3, <3>4
  <2>2. CASE PushHigh
    <3>1. /\ wpc = "low" /\ wpc' = "high" /\ UNCHANGED <<head, whead, session>>
          /\ whead = SlotOf(head)
          /\ slots' = [slots EXCEPT ![SlotOf(head)].hi = ItemAt(session, head)]
        BY <2>2 DEF PushHigh, WriterStep, Coupled
    <3>2. Coupled' /\ SpareIntact' /\ Bounded'
        BY <3>1 DEF Coupled, SpareIntact, Bounded
    <3>3. Written'
        BY <3>1, SlotOfType DEF Written, TypeOK, Slot
    <3>4. WindowIntact'
      <4> SUFFICES ASSUME NEW i \in Window(head) PROVE Intact(i)'
          BY <3>1 DEF WindowIntact
      <4>1. Intact(i) /\ SlotOf(i) \in Slots /\ SlotOf(i) # SlotOf(head)
          BY OutsideWindow DEF WindowIntact, TypeOK
      <4> QED BY <3>1, <4>1 DEF Intact, TypeOK
    <3> QED BY <3>2, <3>3, <3>4
  <2>3. CASE PushAdvance
    <3>1. /\ wpc = "high" /\ wpc' = "advanced"
          /\ UNCHANGED <<head, slots, session>>
          /\ whead' = SlotOf(head + 1)
        BY <2>3, NextSlot DEF PushAdvance, WriterStep, Coupled, TypeOK
    <3> QED
        BY <3>1
        DEF Coupled, Written, SpareIntact, WindowIntact, Intact, Bounded
  <2>4. CASE PushPublish
    <3>1. /\ wpc = "advanced" /\ wpc' = "idle" /\ head' = head + 1
          /\ UNCHANGED <<whead, slots, session>>
        BY <2>4 DEF PushPublish, WriterStep
    <3>2. Intact(head)
        BY <3>1, SlotOfType DEF Written, Intact, Whole, TypeOK, Slot
    <3>3. \A i \in Int : i \in Window(head + 1) => i = head \/ i \in Window(head)
        BY SizeAssumption DEF Window, OutOfWindow, TypeOK, FirstIndex
    <3>4. WindowIntact'
        BY <3>1, <3>2, <3>3 DEF WindowIntact, Intact, Window, FirstIndex, TypeOK
    <3>5. SpareIntact'
      <4> DEFINE old == (head + 1) - Size
      <4>1. head' - Size = old
          BY <3>1, SizeAssumption DEF TypeOK
      <4>2. ASSUME old >= FirstIndex PROVE Intact(old)
        <5>1. old \in Window(head)
            BY <4>2, SizeAssumption
            DEF Window, OutOfWindow, TypeOK, FirstIndex
        <5> QED BY <5>1 DEF WindowIntact
      <4>3. slots' = slots /\ session' = session
          BY <3>1
      <4> HIDE DEF old
      <4> QED BY <4>1, <4>2, <4>3 DEF SpareIntact, Intact
    <3> QED BY <3>1, <3>4, <3>5 DEF Coupled, Written, Bounded
  <2>5. CASE ResetHead
    <3>1. /\ wpc' = "reset" /\ head' = FirstIndex /\ session' = session + 1
          /\ session < MaxSession
        BY <2>5 DEF ResetHead, WriterStep
    <3> QED
        BY <3>1, SizeAssumption, BoundsAssumption
        DEF Coupled, Written, SpareIntact, WindowIntact, Window, Bounded,
            FirstIndex, TypeOK
  <2>6. CASE ResetSlot
    <3>1. /\ wpc' = "idle" /\ whead' = FirstIndex /\ head = FirstIndex
          /\ UNCHANGED <<head, slots, session>>
        BY <2>6 DEF ResetSlot, WriterStep, Coupled
    <3>2. SlotOf(FirstIndex) = FirstIndex
        BY SizeAssumption DEF SlotOf, FirstIndex
    <3> QED
        BY <3>1, <3>2, SizeAssumption
        DEF Coupled, Written, SpareIntact, WindowIntact, Window, Intact,
            Bounded, FirstIndex
  <2>7. CASE UNCHANGED writer
      BY <2>7
      DEF writer, Coupled, Written, SpareIntact, WindowIntact, Intact, Bounded
  <2>8. ASSUME NEW r \in Readers, Peek(r) PROVE UNCHANGED writer
      BY <2>8
      DEF Peek, PeekCheck, PeekPlace, PeekNewest, PeekLow, PeekHigh, PeekReturn, ReaderStep
  <2>9. UNCHANGED vars => UNCHANGED writer
      BY DEF vars, writer
  <2> QED
      BY <2>1, <2>2, <2>3, <2>4, <2>5, <2>6, <2>7, <2>8, <2>9
      DEF Next, Write, Reset
<1> QED BY <1>1, <1>2, RingBufTypeCorrect, PTL DEF Spec

(* At every step of a push or a reset of ring_buf.c, every item that a     *)
(* peek may still return sits whole in its slot.                           *)
THEOREM WindowAlwaysIntact == Spec => []WindowIntact
<1>1. WriterInv => WindowIntact
    BY DEF WriterInv
<1> QED BY <1>1, WriterInvariant, PTL
-----------------------------------------------------------------------------
(* The peeks.                                                              *)

Placed(r) == rpc[r] \in {"placed", "half", "done"}

\* Slot i holds its item and no push has begun to overwrite it.
Safe(i) == i > head - Size \/ (i = head - Size /\ wpc = "idle")

\* What a peek knows of the place it reads.
PlaceInv(r) ==
    LET p == peek[r] IN
    /\ rpc[r] # "idle" => p.req \in Requests
    /\ Placed(r) =>
         /\ p.sess <= session
         /\ p.sess = session => p.h <= head
         /\ p.idx = p.h - 1 \/ (p.idx = p.req /\ ~OutOfWindow(p.h, p.req))

\* What it has copied is the item asked for, as long as the slot is safe.
CopyInv(r) ==
    LET p == peek[r] IN
    p.sess = session /\ FirstIndex <= p.idx /\ p.idx < p.h /\ Safe(p.idx) =>
      /\ rpc[r] \in {"half", "done"} => p.lo = ItemAt(session, p.idx)
      /\ rpc[r] = "done" => p.hi = ItemAt(session, p.idx)

PeekInv == \A r \in Readers : PlaceInv(r) /\ CopyInv(r)

(* A safe slot holds its whole item.                                       *)
LEMMA SafeIsIntact ==
    ASSUME WriterInv, NEW i \in Int, FirstIndex <= i, i < head, Safe(i)
    PROVE  Intact(i)
<1>1. CASE i > head - Size
  <2>1. i \in Window(head)
      BY <1>1, SizeAssumption DEF Window, OutOfWindow, FirstIndex, WriterInv, TypeOK
  <2> QED BY <2>1 DEF WriterInv, WindowIntact
<1>2. CASE i = head - Size /\ wpc = "idle"
    BY <1>2 DEF WriterInv, SpareIntact
<1> QED BY <1>1, <1>2 DEF Safe

(* A step of the pushing task makes no slot of the same session safe again *)
(* and never lowers the head of a session.                                 *)
LEMMA WriterStepKeepsPeeks ==
    ASSUME WriterInv, Write \/ Reset
    PROVE  /\ UNCHANGED <<rpc, peek>>
           /\ session' = session =>
                head' >= head /\ \A i \in Int : i >= FirstIndex /\ Safe(i)' => Safe(i)
           /\ session' # session => session' = session + 1
<1> USE SizeAssumption DEF WriterInv, TypeOK, Safe, WriterStep, FirstIndex
<1>1. CASE PushLow
    BY <1>1 DEF PushLow
<1>2. CASE PushHigh
    BY <1>2 DEF PushHigh
<1>3. CASE PushAdvance
    BY <1>3 DEF PushAdvance
<1>4. CASE PushPublish
    BY <1>4 DEF PushPublish
<1>5. CASE ResetHead
    BY <1>5 DEF ResetHead
<1>6. CASE ResetSlot
    BY <1>6 DEF ResetSlot, Coupled
<1> QED BY <1>1, <1>2, <1>3, <1>4, <1>5, <1>6 DEF Write, Reset

(* The inductive invariant of the peeking tasks.                           *)
LEMMA PeekInvariant == Spec => []PeekInv
<1>1. Init => PeekInv
    BY DEF Init, PeekInv, PlaceInv, CopyInv, Placed, NoPeek, FirstIndex
<1>2. WriterInv /\ PeekInv /\ [Next]_vars => PeekInv'
  <2> SUFFICES ASSUME WriterInv, PeekInv, [Next]_vars, NEW r \in Readers
               PROVE  PlaceInv(r)' /\ CopyInv(r)'
      BY DEF PeekInv
  <2>1. /\ PlaceInv(r) /\ CopyInv(r) /\ TypeOK
        /\ peek[r] \in [req : Int, h : Nat, sess : Nat, idx : Int,
                        lo : Half, hi : Half]
      BY DEF PeekInv, WriterInv, TypeOK
  <2>2. CASE Write \/ Reset
    <3>1. rpc' = rpc /\ peek' = peek
        BY <2>2, WriterStepKeepsPeeks
    <3>2. CASE session' = session
      <4>1. head' >= head /\ \A i \in Int : i >= FirstIndex /\ Safe(i)' => Safe(i)
          BY <2>2, <3>2, WriterStepKeepsPeeks
      <4>2. head \in Nat /\ head' \in Int
          BY <2>2 DEF WriterInv, TypeOK, Write, Reset, PushLow, PushHigh,
             PushAdvance, PushPublish, ResetHead, ResetSlot, FirstIndex
      <4>3. PlaceInv(r)'
          BY <2>1, <3>1, <3>2, <4>1, <4>2 DEF PlaceInv, Placed
      <4>4. Safe(peek[r].idx)' /\ peek[r].idx >= FirstIndex => Safe(peek[r].idx)
          BY <2>1, <3>1, <4>1 DEF Safe
      <4>5. CopyInv(r)'
          BY <2>1, <3>1, <3>2, <4>4 DEF CopyInv, FirstIndex
      <4> QED BY <4>3, <4>5
    <3>3. CASE session' # session
      <4>1. session' = session + 1
          BY <2>2, <3>3, WriterStepKeepsPeeks
      <4>2. PlaceInv(r)'
          BY <2>1, <3>1, <4>1 DEF PlaceInv, Placed, TypeOK
      <4>3. Placed(r) => peek[r].sess # session'
          BY <2>1, <4>1 DEF PlaceInv, TypeOK
      <4>4. CopyInv(r)'
          BY <3>1, <4>3 DEF CopyInv, Placed
      <4> QED BY <4>2, <4>4
    <3> QED BY <3>2, <3>3
  <2>3. ASSUME NEW q \in Readers, Peek(q) PROVE PlaceInv(r)' /\ CopyInv(r)'
    <3>1. /\ UNCHANGED <<head, whead, slots, wpc, session>>
          /\ q # r => rpc'[r] = rpc[r] /\ peek'[r] = peek[r]
        BY <2>3 DEF Peek, PeekCheck, PeekPlace, PeekNewest, PeekLow, PeekHigh, PeekReturn,
           ReaderStep, writer, WriterInv, TypeOK
    <3>2. CASE q # r
        BY <2>1, <3>1, <3>2 DEF PlaceInv, CopyInv, Placed, Safe
    <3>3. CASE q = r
      <4>1. ASSUME NEW i \in Requests, PeekCheck(r, i)
            PROVE  PlaceInv(r)' /\ CopyInv(r)'
        <5>1. rpc'[r] = "checked" /\ peek'[r] = [NoPeek EXCEPT !.req = i]
            BY <4>1 DEF PeekCheck, ReaderStep, WriterInv, TypeOK
        <5> QED BY <5>1 DEF PlaceInv, CopyInv, Placed, NoPeek
      <4>2. CASE PeekPlace(r)
        <5>1. /\ rpc[r] = "checked"
              /\ rpc'[r] = IF OutOfWindow(head, peek[r].req) THEN "newest" ELSE "placed"
              /\ peek'[r].req = peek[r].req
              /\ peek'[r].h = head /\ peek'[r].sess = session
              /\ peek'[r].idx = peek[r].req
            BY <4>2, <2>1 DEF PeekPlace, ReaderStep, TypeOK
        <5> QED
            BY <5>1, <3>1, <2>1 DEF PlaceInv, CopyInv, Placed, TypeOK
      <4>2a. CASE PeekNewest(r)
        <5>1. /\ rpc[r] = "newest" /\ rpc'[r] = "placed"
              /\ peek'[r].req = peek[r].req
              /\ peek'[r].h = head /\ peek'[r].sess = session
              /\ peek'[r].idx = head - 1
            BY <4>2a, <2>1 DEF PeekNewest, ReaderStep, TypeOK
        <5> QED
            BY <5>1, <3>1, <2>1 DEF PlaceInv, CopyInv, Placed, TypeOK
      <4>3. CASE PeekLow(r)
        <5>1. /\ rpc[r] = "placed" /\ rpc'[r] = "half"
              /\ peek'[r].req = peek[r].req /\ peek'[r].h = peek[r].h
              /\ peek'[r].sess = peek[r].sess /\ peek'[r].idx = peek[r].idx
              /\ peek'[r].lo = slots[SlotOf(peek[r].idx)].lo
            BY <4>3, <2>1 DEF PeekLow, ReaderStep, TypeOK
        <5>2. PlaceInv(r)'
            BY <5>1, <3>1, <2>1 DEF PlaceInv, Placed
        <5>3. ASSUME peek[r].sess = session, FirstIndex <= peek[r].idx,
                     peek[r].idx < peek[r].h, Safe(peek[r].idx)
              PROVE  peek'[r].lo = ItemAt(session, peek[r].idx)
          <6>1. peek[r].idx < head
              BY <5>1, <5>3, <2>1 DEF PlaceInv, Placed, TypeOK
          <6>2. Intact(peek[r].idx)
              BY <6>1, <5>3, <2>1, SafeIsIntact
          <6> QED BY <5>1, <6>2 DEF Intact, Whole
        <5> QED BY <5>1, <5>2, <5>3, <3>1 DEF CopyInv, Safe
      <4>4. CASE PeekHigh(r)
        <5>1. /\ rpc[r] = "half" /\ rpc'[r] = "done"
              /\ peek'[r].req = peek[r].req /\ peek'[r].h = peek[r].h
              /\ peek'[r].sess = peek[r].sess /\ peek'[r].idx = peek[r].idx
              /\ peek'[r].lo = peek[r].lo
              /\ peek'[r].hi = slots[SlotOf(peek[r].idx)].hi
            BY <4>4, <2>1 DEF PeekHigh, ReaderStep, TypeOK
        <5>2. PlaceInv(r)'
            BY <5>1, <3>1, <2>1 DEF PlaceInv, Placed
        <5>3. ASSUME peek[r].sess = session, FirstIndex <= peek[r].idx,
                     peek[r].idx < peek[r].h, Safe(peek[r].idx)
              PROVE  peek'[r].hi = ItemAt(session, peek[r].idx)
          <6>1. peek[r].idx < head
              BY <5>1, <5>3, <2>1 DEF PlaceInv, Placed, TypeOK
          <6>2. Intact(peek[r].idx)
              BY <6>1, <5>3, <2>1, SafeIsIntact
          <6> QED BY <5>1, <6>2 DEF Intact, Whole
        <5> QED BY <5>1, <5>2, <5>3, <3>1, <2>1 DEF CopyInv, Safe
      <4>5. CASE PeekReturn(r)
        <5>1. rpc'[r] = "idle"
            BY <4>5 DEF PeekReturn, ReaderStep, WriterInv, TypeOK
        <5> QED BY <5>1 DEF PlaceInv, CopyInv, Placed
      <4> QED BY <2>3, <3>3, <4>1, <4>2, <4>2a, <4>3, <4>4, <4>5 DEF Peek
    <3> QED BY <3>2, <3>3
  <2>4. CASE UNCHANGED vars
      BY <2>1, <2>4 DEF vars, PlaceInv, CopyInv, Placed, Safe
  <2> QED BY <2>2, <2>3, <2>4 DEF Next
<1> QED BY <1>1, <1>2, WriterInvariant, PTL DEF Spec

(* The margin of the lock-free design, for every length of the buffer: a   *)
(* ring_buf_peek that at most one ring_buf_push overlaps returns exactly   *)
(* one whole item of the window it saw.                                    *)
THEOREM PeekSurvivesOnePush == Spec => []OnePushSafe
<1>1. WriterInv /\ PeekInv => OnePushSafe
  <2> SUFFICES ASSUME WriterInv, PeekInv, NEW r \in Readers, rpc[r] = "done",
                      ValidPeek(peek[r]), AtMostOnePush(peek[r])
               PROVE  /\ peek[r].idx \in Window(peek[r].h)
                      /\ peek[r].lo = ItemAt(session, peek[r].idx)
                      /\ peek[r].hi = ItemAt(session, peek[r].idx)
      BY DEF OnePushSafe
  <2> DEFINE p == peek[r]
  <2>1. p \in [req : Int, h : Nat, sess : Nat, idx : Int, lo : Half, hi : Half]
      BY DEF WriterInv, TypeOK
  <2>2. /\ p.req \in Int /\ p.req # 0
        /\ p.idx = p.h - 1 \/ (p.idx = p.req /\ ~OutOfWindow(p.h, p.req))
        /\ p.sess = session /\ p.req < p.h /\ p.h > FirstIndex
        /\ CopyInv(r)
      BY <2>1, BoundsAssumption
      DEF PeekInv, PlaceInv, Placed, ValidPeek, Requests, FirstIndex
  <2>3. p.idx \in Window(p.h) /\ FirstIndex <= p.idx /\ p.idx < p.h
        /\ p.idx > p.h - Size
      BY <2>1, <2>2, SizeAssumption
      DEF Window, OutOfWindow, FirstIndex
  <2>4. Safe(p.idx)
      BY <2>1, <2>3, SizeAssumption
      DEF Safe, AtMostOnePush, WriterInv, TypeOK
  <2> QED BY <2>2, <2>3, <2>4 DEF CopyInv
<1> QED BY <1>1, WriterInvariant, PeekInvariant, PTL
-----------------------------------------------------------------------------
(* The refinement of RingLog.                                              *)

\* What the log is mapped to.
Kept == [i \in Window(head) |-> slots[SlotOf(i)]]

(* A step that keeps head, and every slot but the one being pushed, is a   *)
(* stutter of the log.                                                     *)
LEMMA KeptUnchanged ==
    ASSUME WriterInv, head' = head,
           \A s \in Slots : s # SlotOf(head) => slots'[s] = slots[s]
    PROVE  Kept' = Kept
<1>1. \A i \in Window(head) : slots'[SlotOf(i)] = slots[SlotOf(i)]
    BY OutsideWindow DEF WriterInv, TypeOK
<1> QED BY <1>1 DEF Kept

(* ring_buf.c, step by step, implements a log of the last Size - 1 items:  *)
(* what can be peeked changes only by a whole push or a reset.             *)
THEOREM RefinesLog == Spec => ImplementsLog
<1> USE DEF Log!Window, Log!OutOfWindow, Log!FirstIndex
<1>1. Init => Log!LogInit
  <2>1. Window(FirstIndex) = {}
      BY SizeAssumption DEF Window, FirstIndex
  <2> QED BY <2>1 DEF Init, Log!LogInit, FirstIndex
<1>2. WriterInv /\ [Next]_vars => [Log!LogNext]_(Log!logVars)
  <2> SUFFICES ASSUME WriterInv, [Next]_vars
               PROVE  Log!LogNext \/ (head' = head /\ Kept' = Kept)
      BY DEF Log!logVars, Kept
  <2> USE DEF WriterInv
  <2>1. CASE PushLow \/ PushHigh
    <3>1. head' = head /\ whead = SlotOf(head)
        BY <2>1 DEF PushLow, PushHigh, WriterStep, Coupled
    <3>2. \A s \in Slots : s # SlotOf(head) => slots'[s] = slots[s]
        BY <2>1, <3>1 DEF PushLow, PushHigh, TypeOK
    <3> QED BY <3>1, <3>2, KeptUnchanged
  <2>2. CASE PushAdvance \/ ResetSlot
    <3>1. head' = head /\ slots' = slots
        BY <2>2 DEF PushAdvance, ResetSlot
    <3> QED BY <3>1, KeptUnchanged
  <2>3. CASE PushPublish
    <3> DEFINE item == Whole(ItemAt(session, head))
    <3>1. head' = head + 1 /\ slots' = slots /\ wpc = "advanced"
        BY <2>3 DEF PushPublish, WriterStep
    <3>2. slots[SlotOf(head)] = item
        BY <3>1, SlotOfType DEF Written, Whole, TypeOK, Slot
    <3>3. item \in {Whole(ItemAt(s, i)) : s \in 0 .. MaxSession,
                                         i \in FirstIndex .. MaxHead}
        BY <3>1, BoundsAssumption DEF Bounded, TypeOK, FirstIndex
    <3>4. \A i \in Window(head + 1) : i # head => i \in Window(head)
        BY SizeAssumption DEF Window, OutOfWindow, TypeOK, FirstIndex
    <3>5. Kept' = [i \in Window(head + 1) |-> IF i = head THEN item ELSE Kept[i]]
        BY <3>1, <3>2, <3>4 DEF Kept
    <3>6. Log!LogPush(item)
        BY <3>1, <3>5 DEF Log!LogPush, Kept, Window, OutOfWindow, FirstIndex
    <3> QED BY <3>3, <3>6 DEF Log!LogNext
  <2>4. CASE ResetHead
    <3>1. head' = FirstIndex
        BY <2>4 DEF ResetHead
    <3>2. Window(FirstIndex) = {}
        BY SizeAssumption DEF Window, FirstIndex
    <3> QED BY <3>1, <3>2 DEF Log!LogNext, Log!LogReset, FirstIndex
  <2>5. CASE UNCHANGED writer
    <3>1. head' = head /\ slots' = slots
        BY <2>5 DEF writer
    <3> QED BY <3>1, KeptUnchanged
  <2>6. ASSUME NEW r \in Readers, Peek(r) PROVE UNCHANGED writer
      BY <2>6
      DEF Peek, PeekCheck, PeekPlace, PeekNewest, PeekLow, PeekHigh, PeekReturn, ReaderStep
  <2>7. UNCHANGED vars => UNCHANGED writer
      BY DEF vars, writer
  <2> QED
      BY <2>1, <2>2, <2>3, <2>4, <2>5, <2>6, <2>7 DEF Next, Write, Reset
<1> QED BY <1>1, <1>2, WriterInvariant, PTL DEF Spec, ImplementsLog, Log!LogSpec
-----------------------------------------------------------------------------
(* The data path.                                                          *)

\* The parts of TypeOK: flags, the mode path, the counters and frames.
FlagsType ==
    /\ active \in BOOLEAN /\ ready \in BOOLEAN /\ enabled \in BOOLEAN
    /\ modeBit \in BOOLEAN /\ sock \in BOOLEAN
    /\ override \in BOOLEAN /\ clean \in BOOLEAN

ModeType ==
    /\ mux \in {"IDLE", "STREAM", "DEBUG"}
    /\ raise \in SUBSET Callers
    /\ handler \in {"none", "IDLE", "STREAM"}

DataType ==
    /\ missed \in Nat /\ bufHead \in Nat \ {0}
    /\ ring \in [Slots -> Frame \cup {NoFrame}]
    /\ modeQueue \in 0 .. MaxQueue
    /\ mpc \in {"wait", "reset", "loop", "read"} /\ seq \in Nat
    /\ cpc \in {"wait", "loop", "peek", "send", "abort"}
    /\ curr \in Nat \ {0}
    /\ held \in Frame \cup {NoFrame} /\ last \in Frame \cup {NoFrame}
    /\ resets \in Nat /\ rec \in Nat /\ switches \in Nat
    /\ late \in Nat

(* The flags are Boolean.                                                  *)
LEMMA FlagsTyped == StreamSpec => []FlagsType
<1> USE DEF FlagsType
<1>1. StreamInit => FlagsType
    BY Zenon DEF StreamInit
<1>2. FlagsType /\ [StreamNext]_streamVars => FlagsType'
  <2> SUFFICES ASSUME FlagsType, [StreamNext]_streamVars PROVE FlagsType'
      OBVIOUS
  <2> USE DEF modePath, requests, client, WriteActive
  <2>1. ASSUME NEW c \in Callers, RaiseModeChange(c) PROVE FlagsType'
      BY Zenon, <2>1 DEF RaiseModeChange
  <2>2. CASE PostModeChange \/ HandleModeRead \/ HandleModeWrite
      BY Zenon, <2>2 DEF PostModeChange, HandleModeRead, HandleModeWrite
  <2>3. CASE Monitor
      BY Zenon, <2>3
      DEF Monitor, MonitorFlush, MonitorReset, MonitorCheck, MonitorReadFails, MonitorPush
  <2>4. CASE Client
      BY Zenon, <2>4
      DEF Client, ClientStep, ClientEnter, ClientInitFails, ClientLeave,
          ClientCheck, ClientPeekRefused, ClientPeek, ClientSent,
          ClientSendFails, ClientAbortStops, ClientAbort
  <2>5. CASE ModeRequest \/ ToggleImu \/ Synchronised
      BY Zenon, <2>5 DEF ModeRequest, Start, StartAgain, Stop, ToggleImu, Synchronised
  <2>6. ASSUME NEW on \in BOOLEAN, ToggleDebug(on) PROVE FlagsType'
      BY Zenon, <2>6 DEF ToggleDebug
  <2>7. CASE UNCHANGED streamVars
      BY Zenon, <2>7 DEF streamVars
  <2> QED
      BY <2>1, <2>2, <2>3, <2>4, <2>5, <2>6, <2>7 DEF StreamNext, ModeChange, Request
<1> QED BY <1>1, <1>2, PTL DEF StreamSpec

(* The mode path holds only modes and callers.                             *)
LEMMA ModeTyped == StreamSpec => []ModeType
<1> USE DEF ModeType
<1>1. StreamInit => ModeType
    BY DEF StreamInit
<1>2. ModeType /\ [StreamNext]_streamVars => ModeType'
  <2> SUFFICES ASSUME ModeType, [StreamNext]_streamVars PROVE ModeType'
      OBVIOUS
  <2> USE DEF modePath
  <2>1. ASSUME NEW c \in Callers, RaiseModeChange(c) PROVE ModeType'
      BY Zenon, <2>1 DEF RaiseModeChange
  <2>2. CASE PostModeChange
      BY Zenon, <2>2 DEF PostModeChange
  <2>3. CASE HandleModeRead
      BY <2>3 DEF HandleModeRead
  <2>4. CASE HandleModeWrite
      BY <2>4 DEF HandleModeWrite
  <2>5. ASSUME Monitor \/ Synchronised \/ ToggleImu \/ UNCHANGED streamVars
        PROVE  UNCHANGED <<mux, raise, handler>>
      BY <2>5
      DEF Monitor, MonitorFlush, MonitorReset, MonitorCheck, MonitorReadFails, MonitorPush,
          Synchronised, ToggleImu, streamVars
  <2>6. CASE Client
    <3>1. mux' = mux /\ handler' = handler
        BY <2>6
        DEF Client, ClientStep, ClientEnter, ClientInitFails, ClientLeave,
            ClientCheck, ClientPeekRefused, ClientPeek, ClientSent,
            ClientSendFails, ClientAbortStops, ClientAbort
    <3>2. raise' = raise \/ raise' = raise \cup {"client"}
        BY <2>6
        DEF Client, ClientEnter, ClientInitFails, ClientLeave,
            ClientCheck, ClientPeekRefused, ClientPeek, ClientSent,
            ClientSendFails, ClientAbortStops, ClientAbort, WriteActive
    <3> QED BY <3>1, <3>2 DEF Callers, Requesters
  <2>7. CASE ModeRequest
      BY <2>7 DEF ModeRequest, Start, StartAgain, Stop, WriteActive, Callers, Requesters
  <2>8. ASSUME NEW on \in BOOLEAN, ToggleDebug(on) PROVE ModeType'
      BY <2>8 DEF ToggleDebug
  <2> QED
      BY <2>1, <2>2, <2>3, <2>4, <2>5, <2>6, <2>7, <2>8
      DEF StreamNext, ModeChange, Request
<1> QED BY <1>1, <1>2, PTL DEF StreamSpec

(* Counters are counters, and whatever is peeked is a frame or nothing.    *)
LEMMA DataTyped == StreamSpec => []DataType
<1> USE DEF DataType
<1>1. StreamInit => DataType
    BY StreamAssumption DEF StreamInit, FirstIndex
<1>2. DataType /\ [StreamNext]_streamVars => DataType'
  <2> SUFFICES ASSUME DataType, [StreamNext]_streamVars PROVE DataType'
      OBVIOUS
  <2> USE DEF buffer, requests, monitor, client, modePath, FirstIndex
  <2>1. ASSUME NEW c \in Callers, RaiseModeChange(c) PROVE DataType'
      BY <2>1 DEF RaiseModeChange
  <2>2. CASE PostModeChange
      BY <2>2, StreamAssumption DEF PostModeChange
  <2>3. CASE HandleModeRead \/ HandleModeWrite
      BY <2>3, StreamAssumption DEF HandleModeRead, HandleModeWrite
  <2>4. CASE MonitorFlush \/ MonitorReset \/ MonitorCheck \/ MonitorReadFails
      BY <2>4 DEF MonitorFlush, MonitorReset, MonitorCheck, MonitorReadFails
  <2>5. CASE MonitorPush
    <3>1. [sess |-> resets, seq |-> seq] \in Frame
        BY DEF Frame
    <3>2. ring' \in [Slots -> Frame \cup {NoFrame}]
        BY <2>5, <3>1 DEF MonitorPush
    <3>3. /\ mpc' = "loop" /\ bufHead' = bufHead + 1 /\ seq' = seq + 1
          /\ UNCHANGED <<missed, modeQueue, cpc, curr, held, last, resets,
                         rec, switches, late>>
        BY <2>5 DEF MonitorPush
    <3> QED BY <3>2, <3>3
  <2>6. CASE ClientPeek
    <3>1. PeekIndex(bufHead, curr) \in Int
        BY DEF PeekIndex
    <3>2. ring[SlotOf(PeekIndex(bufHead, curr))] \in Frame \cup {NoFrame}
        BY <3>1, SlotOfType
    <3> QED BY <2>6, <3>2 DEF ClientPeek, ClientStep
  <2>7. CASE ClientEnter \/ ClientInitFails \/ ClientLeave \/ ClientCheck
             \/ ClientPeekRefused
      BY <2>7
      DEF ClientStep, ClientEnter, ClientInitFails, ClientLeave, ClientCheck,
          ClientPeekRefused
  <2>8. CASE ClientSent \/ ClientSendFails \/ ClientAbortStops \/ ClientAbort
      BY <2>8
      DEF ClientStep, ClientSent, ClientSendFails, ClientAbortStops,
          ClientAbort, WriteActive
  <2>9. CASE ModeRequest \/ ToggleImu \/ Synchronised
      BY <2>9
      DEF ModeRequest, Start, StartAgain, Stop, ToggleImu, Synchronised, Switch, WriteActive
  <2>10. ASSUME NEW on \in BOOLEAN, ToggleDebug(on) PROVE DataType'
      BY <2>10 DEF ToggleDebug, Switch
  <2>11. CASE UNCHANGED streamVars
      BY <2>11 DEF streamVars
  <2> QED
      BY <2>1, <2>2, <2>3, <2>4, <2>5, <2>6, <2>7, <2>8, <2>9, <2>10, <2>11
      DEF StreamNext, ModeChange, Monitor, Client, Request
<1> QED BY <1>1, <1>2, PTL DEF StreamSpec

(* Type correctness of the data path and the mode path.                    *)
THEOREM StreamTypeCorrect == StreamSpec => []StreamTypeOK
<1>1. FlagsType /\ ModeType /\ DataType => StreamTypeOK
    BY DEF FlagsType, ModeType, DataType, StreamTypeOK
<1> QED BY <1>1, FlagsTyped, ModeTyped, DataTyped, PTL
-----------------------------------------------------------------------------
(* A push leaves every frame that stays in the window in its slot.         *)
LEMMA WindowAfterPush ==
    ASSUME NEW h \in Nat, NEW i \in Window(h + 1), i # h
    PROVE  i \in Window(h) /\ SlotOf(i) \in Slots /\ SlotOf(i) # SlotOf(h)
<1>1. i \in Nat /\ i < h /\ h < i + Size /\ i \in Window(h)
    BY SizeAssumption DEF Window, OutOfWindow, FirstIndex
<1> QED BY <1>1, SlotOfType, SlotsDiffer

(* monitor.c and ring_buf.c number the frames apart, and always agree.     *)
THEOREM SeqAlwaysIndex == StreamSpec => []SeqIsIndex
<1> USE DEF SeqIsIndex
<1>1. StreamInit => SeqIsIndex
    BY SizeAssumption DEF StreamInit, Window, FirstIndex
<1>2. DataType /\ SeqIsIndex /\ [StreamNext]_streamVars => SeqIsIndex'
  <2> SUFFICES ASSUME DataType, SeqIsIndex, [StreamNext]_streamVars PROVE SeqIsIndex'
      OBVIOUS
  <2>1. CASE MonitorPush
    <3> DEFINE f == [sess |-> resets, seq |-> seq]
    <3>1. /\ bufHead' = bufHead + 1 /\ seq' = seq + 1 /\ resets' = resets
          /\ ring' = [ring EXCEPT ![SlotOf(bufHead)] = f]
        BY <2>1 DEF MonitorPush
    <3>2. bufHead \in Nat /\ seq \in Nat /\ ring \in [Slots -> Frame \cup {NoFrame}]
        BY DEF DataType
    <3>3. ASSUME NEW i \in Window(bufHead + 1) PROVE IsFrame(ring[SlotOf(i)], i)'
      <4>1. CASE i = bufHead
        <5>1. ring'[SlotOf(i)] = f
            BY <3>1, <3>2, <4>1, SlotOfType
        <5>2. f # NoFrame
            BY FrameAssumption DEF DataType, Frame
        <5> QED BY <3>1, <3>2, <4>1, <5>1, <5>2 DEF IsFrame
      <4>2. CASE i # bufHead
        <5>1. /\ IsFrame(ring[SlotOf(i)], i)
              /\ SlotOf(i) \in Slots /\ SlotOf(i) # SlotOf(bufHead)
            BY <3>2, <4>2, WindowAfterPush
        <5> QED BY <3>1, <3>2, <5>1 DEF IsFrame
      <4> QED BY <4>1, <4>2
    <3> QED BY <3>1, <3>2, <3>3
  <2>2. CASE MonitorReset
      BY <2>2, SizeAssumption DEF MonitorReset, Window, FirstIndex
  <2>3. ASSUME \/ ModeChange \/ MonitorFlush \/ MonitorCheck \/ MonitorReadFails \/ Client
               \/ Request \/ UNCHANGED streamVars
        PROVE  UNCHANGED <<bufHead, ring, resets, seq>>
      BY <2>3
      DEF ModeChange, RaiseModeChange, PostModeChange, HandleModeRead,
          HandleModeWrite, MonitorFlush, MonitorCheck, MonitorReadFails, Client, ClientStep,
          ClientEnter, ClientInitFails, ClientLeave, ClientCheck,
          ClientPeekRefused, ClientPeek, ClientSent, ClientSendFails,
          ClientAbortStops, ClientAbort, Request, ModeRequest, Start, StartAgain, Stop,
          ToggleImu, ToggleDebug, Synchronised, streamVars, buffer, monitor
  <2> QED BY <2>1, <2>2, <2>3 DEF StreamNext, Monitor, IsFrame
<1> QED BY <1>1, <1>2, DataTyped, PTL DEF StreamSpec
-----------------------------------------------------------------------------
\* While recording nothing is late; once a late frame is out, the client is
\* past the point where it decides to send another.
LateInv ==
    /\ active => late = 0
    /\ late <= 1
    /\ late = 1 => cpc \notin {"peek", "send"}

(* After state.active is cleared at most one more frame is sent, wherever  *)
(* the stop catches app_data_client.                                       *)
THEOREM FewLateFrames == StreamSpec => []AtMostOneLateFrame
<1> USE DEF LateInv
<1>1. StreamInit => LateInv
    BY DEF StreamInit
<1>2. DataType /\ LateInv /\ [StreamNext]_streamVars => LateInv'
  <2> SUFFICES ASSUME DataType, LateInv, [StreamNext]_streamVars PROVE LateInv'
      OBVIOUS
  <2>1. late \in Nat
      BY DEF DataType
  <2>2. ASSUME \/ ModeChange \/ Monitor \/ ToggleImu \/ Synchronised
               \/ (\E on \in BOOLEAN : ToggleDebug(on)) \/ UNCHANGED streamVars
        PROVE  UNCHANGED <<active, late, cpc>>
      BY <2>2
      DEF ModeChange, RaiseModeChange, PostModeChange, HandleModeRead,
          HandleModeWrite, Monitor, MonitorFlush, MonitorReset, MonitorCheck,
          MonitorReadFails, MonitorPush, ToggleImu, Synchronised, ToggleDebug,
          streamVars, client
  <2>3. CASE ModeRequest
      BY <2>1, <2>3 DEF ModeRequest, Start, StartAgain, Stop, WriteActive, client
  <2>4. CASE ClientEnter \/ ClientInitFails \/ ClientLeave \/ ClientCheck
             \/ ClientPeekRefused
      BY <2>1, <2>4
      DEF ClientStep, ClientEnter, ClientInitFails, ClientLeave, ClientCheck,
          ClientPeekRefused
  <2>5. CASE ClientPeek \/ ClientSendFails
      BY <2>1, <2>5 DEF ClientStep, ClientPeek, ClientSendFails
  <2>6. CASE ClientSent
      BY <2>1, <2>6 DEF ClientStep, ClientSent
  <2>7. CASE ClientAbortStops \/ ClientAbort
      BY <2>1, <2>7 DEF ClientStep, ClientAbortStops, ClientAbort, WriteActive
  <2> QED
      BY <2>2, <2>3, <2>4, <2>5, <2>6, <2>7 DEF StreamNext, Request, Client
<1>3. LateInv => AtMostOneLateFrame
    BY DEF AtMostOneLateFrame
<1> QED BY <1>1, <1>2, <1>3, DataTyped, PTL DEF StreamSpec

(* The steps that neither read nor send a frame, nor empty the ring.       *)
LEMMA FramesUntouched ==
    ASSUME \/ ModeChange \/ MonitorFlush \/ MonitorCheck \/ MonitorReadFails
           \/ MonitorPush \/ Request \/ UNCHANGED streamVars
    PROVE  UNCHANGED <<clean, cpc, held, curr, last, resets>>
BY DEF ModeChange, RaiseModeChange, PostModeChange, HandleModeRead,
       HandleModeWrite, MonitorFlush, MonitorCheck, MonitorReadFails,
       MonitorPush, Request, ModeRequest, Start, StartAgain, Stop, ToggleImu, ToggleDebug, Synchronised, streamVars,
       client, buffer

(* A client that has not been lapped, nor had the ring reset under it, has *)
(* sent every frame of the session before curr_index exactly once.         *)
THEOREM CleanIsExactlyOnce == StreamSpec => []ExactlyOnceWhileClean
<1> USE DEF ExactlyOnceWhileClean
<1>1. StreamInit => ExactlyOnceWhileClean
    BY DEF StreamInit
<1>2. DataType /\ SeqIsIndex /\ ExactlyOnceWhileClean /\ [StreamNext]_streamVars
        => ExactlyOnceWhileClean'
  <2> SUFFICES ASSUME DataType, SeqIsIndex, ExactlyOnceWhileClean, [StreamNext]_streamVars
               PROVE  ExactlyOnceWhileClean'
      OBVIOUS
  <2>1. curr \in Nat /\ curr >= 1 /\ bufHead \in Nat
      BY DEF DataType
  <2>2. CASE MonitorReset
    <3>1. clean' => cpc' \in {"wait", "abort"}
        BY <2>2 DEF MonitorReset
    <3> QED BY <3>1
  <2>3. CASE ClientEnter
      BY <2>3 DEF ClientEnter, ClientStep, FirstIndex
  <2>4. CASE ClientInitFails \/ ClientLeave \/ ClientSendFails
      BY <2>4 DEF ClientInitFails, ClientLeave, ClientSendFails, ClientStep
  <2>5. CASE ClientAbortStops \/ ClientAbort
      BY <2>5 DEF ClientAbortStops, ClientAbort, ClientStep
  <2>6. CASE ClientCheck \/ ClientPeekRefused
      BY <2>6 DEF ClientCheck, ClientPeekRefused, ClientStep, IsFrame, buffer
  <2>7. CASE ClientPeek
    <3>1. /\ cpc = "peek" /\ cpc' = "send" /\ curr' = curr + 1
          /\ UNCHANGED <<last, resets>> /\ ~NotPushed(bufHead, curr)
          /\ clean' => clean /\ ~OutOfWindow(bufHead, curr)
          /\ held' = ring[SlotOf(PeekIndex(bufHead, curr))]
        BY <2>7 DEF ClientPeek, ClientStep, buffer
    <3>2. ASSUME clean' PROVE IsFrame(held', curr)
      <4>1. curr \in Window(bufHead) /\ PeekIndex(bufHead, curr) = curr
          BY <2>1, <3>1, <3>2 DEF Window, PeekIndex, NotPushed, FirstIndex
      <4> QED BY <3>1, <4>1 DEF SeqIsIndex
    <3>3. curr' - 1 = curr /\ curr' - 2 = curr - 1
        BY <2>1, <3>1
    <3> QED BY <3>1, <3>2, <3>3 DEF IsFrame
  <2>8. CASE ClientSent
    <3>1. /\ cpc = "send" /\ cpc' = "loop" /\ last' = held
          /\ UNCHANGED <<curr, clean, resets>>
        BY <2>8 DEF ClientSent, ClientStep, buffer
    <3>2. ASSUME clean PROVE IsFrame(held, curr - 1) /\ curr - 1 # 0
      <4>1. IsFrame(held, curr - 1)
          BY <3>1, <3>2
      <4>2. held.seq \in Nat /\ held.seq = (curr - 1) - 1
          BY <4>1 DEF IsFrame, DataType, Frame
      <4> QED BY <2>1, <4>1, <4>2
    <3> QED BY <3>1, <3>2 DEF IsFrame
  <2>9. CASE \/ ModeChange \/ MonitorFlush \/ MonitorCheck \/ MonitorReadFails
             \/ MonitorPush \/ Request \/ UNCHANGED streamVars
    <3>1. UNCHANGED <<clean, cpc, held, curr, last, resets>>
        BY <2>9, FramesUntouched
    <3> QED BY <3>1 DEF IsFrame
  <2> QED
      BY <2>2, <2>3, <2>4, <2>5, <2>6, <2>7, <2>8, <2>9 DEF StreamNext, Monitor, Client
<1> QED BY <1>1, <1>2, DataTyped, SeqAlwaysIndex, PTL DEF StreamSpec
-----------------------------------------------------------------------------
\* The multiplexer that state.active asks for.
Wanted == IF active THEN "STREAM" ELSE "IDLE"

\* When no change is announced any more, the handler is about to write the
\* wanted value or has written it.
ModeInv ==
    raise = {} /\ ~modeBit /\ modeQueue = 0 =>
      handler = Wanted \/ (handler = "none" /\ (override \/ mux = Wanted))

(* Whatever requests come while a change of mode is on its way, and        *)
(* however their bits and events merge, the multiplexer ends up where      *)
(* state.active wants it.                                                  *)
THEOREM MuxAlwaysFollows == StreamSpec => []MuxFollowsMode
<1> USE DEF ModeInv, Wanted
<1>1. StreamInit => ModeInv
    BY DEF StreamInit
<1>2. FlagsType /\ DataType /\ ModeInv /\ [StreamNext]_streamVars => ModeInv'
  <2> SUFFICES ASSUME FlagsType, DataType, ModeInv, [StreamNext]_streamVars PROVE ModeInv'
      OBVIOUS
  <2>1. modeQueue \in Nat
      BY StreamAssumption DEF DataType
  <2>2. ASSUME NEW c \in Callers, RaiseModeChange(c) PROVE ModeInv'
      BY <2>2 DEF RaiseModeChange
  <2>3. CASE PostModeChange
    <3>1. modeQueue' # 0
        BY <2>1, <2>3 DEF PostModeChange
    <3> QED BY <3>1
  <2>4. CASE HandleModeRead
      BY <2>4 DEF HandleModeRead
  <2>5. CASE HandleModeWrite
      BY <2>5 DEF HandleModeWrite
  <2>6. ASSUME NEW on \in BOOLEAN, ToggleDebug(on) PROVE ModeInv'
      BY <2>6 DEF ToggleDebug
  <2>7. CASE ModeRequest \/ ClientAbortStops
    <3>1. raise' # {}
        BY <2>7 DEF ModeRequest, Start, StartAgain, Stop, ClientAbortStops, WriteActive
    <3> QED BY <3>1
  <2>8. ASSUME \/ Monitor \/ ToggleImu \/ Synchronised \/ UNCHANGED streamVars
               \/ ClientEnter \/ ClientInitFails \/ ClientLeave \/ ClientCheck
               \/ ClientPeekRefused \/ ClientPeek \/ ClientSent
               \/ ClientSendFails \/ ClientAbort
        PROVE  UNCHANGED <<active, raise, modeBit, modeQueue, handler, override, mux>>
      BY <2>8
      DEF Monitor, MonitorFlush, MonitorReset, MonitorCheck, MonitorReadFails, MonitorPush,
          ToggleImu, Synchronised, streamVars, ClientStep, ClientEnter,
          ClientInitFails, ClientLeave, ClientCheck, ClientPeekRefused,
          ClientPeek, ClientSent, ClientSendFails, ClientAbort, modePath
  <2> QED
      BY <2>2, <2>3, <2>4, <2>5, <2>6, <2>7, <2>8
      DEF StreamNext, ModeChange, Request, Client
<1>3. ModeInv => MuxFollowsMode
    BY DEF MuxFollowsMode, ModeSettled
<1> QED BY <1>1, <1>2, <1>3, FlagsTyped, DataTyped, PTL DEF StreamSpec
=============================================================================
