------------------------------ MODULE RingBuf ------------------------------
(***************************************************************************)
(* lib/ring_buf/ring_buf.c at the grain at which its callers interleave.   *)
(* One task (app_monitor) pushes and resets; the others (app_data_client   *)
(* and the HTTP server) peek.  Nobody takes the mutex the structure holds: *)
(* monitor.c and network.c call the unlocked functions, so every store and *)
(* load of shared memory is a step of its own.                             *)
(*                                                                         *)
(* The payload is abstracted to its identity, the session (number of       *)
(* resets) and the number of the item, and a memcpy to the copy of a low   *)
(* and of a high half: that is enough to tell a whole item from a mix.     *)
(***************************************************************************)
EXTENDS RingOps, FiniteSets

CONSTANTS Readers,     \* the tasks that peek
          MaxHead,     \* bound: items pushed per session
          MaxSession,  \* bound: resets
          Blank        \* the content of a slot of the zeroed static buffer

ASSUME BoundsAssumption == MaxHead \in Nat /\ MaxSession \in Nat

VARIABLES
  head,     \* rb->head
  whead,    \* rb->_head, the slot the next push writes
  slots,    \* rb->buf, two halves per slot
  wpc,      \* where the pushing task is inside ring_buf_push or _reset
  session,  \* history: number of resets
  rpc,      \* where each reader is inside ring_buf_peek
  peek      \* the locals of each reader's ring_buf_peek

writer == <<head, whead, slots, wpc, session>>
vars == <<head, whead, slots, wpc, session, rpc, peek>>

Item == [sess : Nat, num : Nat]
Half == Item \cup {Blank}
Slot == [lo : Half, hi : Half]
ItemAt(s, i) == [sess |-> s, num |-> i]
Whole(item) == [lo |-> item, hi |-> item]

\* Locals of a peek: the index asked for, the head and session when the
\* place was computed, the index read, and the two halves copied so far.
NoPeek == [req |-> 0, h |-> 0, sess |-> 0, idx |-> 0, lo |-> Blank, hi |-> Blank]

Init ==
    /\ head = FirstIndex
    /\ whead = FirstIndex
    /\ slots = [s \in Slots |-> Whole(Blank)]
    /\ wpc = "idle"
    /\ session = 0
    /\ rpc = [r \in Readers |-> "idle"]
    /\ peek = [r \in Readers |-> NoPeek]
-----------------------------------------------------------------------------
(* ring_buf_push: the memcpy, the slot and the published head, in order.   *)

WriterStep(from, to) == wpc = from /\ wpc' = to /\ UNCHANGED <<rpc, peek>>

PushLow ==
    /\ head < MaxHead
    /\ WriterStep("idle", "low")
    /\ slots' = [slots EXCEPT ![whead].lo = ItemAt(session, head)]
    /\ UNCHANGED <<head, whead, session>>

PushHigh ==
    /\ WriterStep("low", "high")
    /\ slots' = [slots EXCEPT ![whead].hi = ItemAt(session, head)]
    /\ UNCHANGED <<head, whead, session>>

\* Slips a wrong push or reset could have: see the mutants of PROJECT.json.
PushAdvanceStuck ==
    /\ WriterStep("high", "advanced")
    /\ UNCHANGED <<head, whead, slots, session>>

PushAdvance ==
    /\ WriterStep("high", "advanced")
    /\ whead' = (whead + 1) % Size
    /\ UNCHANGED <<head, slots, session>>

PushPublish ==
    /\ WriterStep("advanced", "idle")
    /\ head' = head + 1
    /\ UNCHANGED <<whead, slots, session>>

(* ring_buf_reset: the two cursors go back, the slots keep their content.  *)

ResetHead ==
    /\ session < MaxSession
    /\ WriterStep("idle", "reset")
    /\ head' = FirstIndex
    /\ session' = session + 1
    /\ UNCHANGED <<whead, slots>>

ResetSlotForgotten ==
    /\ WriterStep("reset", "idle")
    /\ UNCHANGED <<head, whead, slots, session>>

ResetSlot ==
    /\ WriterStep("reset", "idle")
    /\ whead' = FirstIndex
    /\ UNCHANGED <<head, slots, session>>
-----------------------------------------------------------------------------
(* ring_buf_peek: the test against head (an index not yet pushed is        *)
(* refused, which changes nothing), the window, then the memcpy.           *)

ReaderStep(r, from, to) ==
    rpc[r] = from /\ rpc' = [rpc EXCEPT ![r] = to] /\ UNCHANGED writer

PeekCheck(r, i) ==
    /\ ~NotPushed(head, i)
    /\ ReaderStep(r, "idle", "checked")
    /\ peek' = [peek EXCEPT ![r] = [NoPeek EXCEPT !.req = i]]

\* The window test loads head once more, ...
PeekPlace(r) ==
    /\ ReaderStep(r, "checked",
                  IF OutOfWindow(head, peek[r].req) THEN "newest" ELSE "placed")
    /\ peek' = [peek EXCEPT ![r].h = head, ![r].sess = session,
                            ![r].idx = peek[r].req]

\* ... and the index of the newest item is computed from a third load.
PeekNewest(r) ==
    /\ ReaderStep(r, "newest", "placed")
    /\ peek' = [peek EXCEPT ![r].h = head, ![r].sess = session,
                            ![r].idx = head - 1]

PeekLow(r) ==
    /\ ReaderStep(r, "placed", "half")
    /\ peek' = [peek EXCEPT ![r].lo = slots[SlotOf(peek[r].idx)].lo]

PeekHigh(r) ==
    /\ ReaderStep(r, "half", "done")
    /\ peek' = [peek EXCEPT ![r].hi = slots[SlotOf(peek[r].idx)].hi]

\* The caller has used the item: the next call starts afresh.
PeekReturn(r) ==
    /\ ReaderStep(r, "done", "idle")
    /\ peek' = [peek EXCEPT ![r] = NoPeek]

\* app_data_client asks for 1, 2, ...; the HTTP server for -1.
Requests == {-1} \cup FirstIndex .. MaxHead

Write == PushLow \/ PushHigh \/ PushAdvance \/ PushPublish
Reset == ResetHead \/ ResetSlot
Peek(r) ==
    \/ \E i \in Requests : PeekCheck(r, i)
    \/ PeekPlace(r) \/ PeekNewest(r) \/ PeekLow(r) \/ PeekHigh(r) \/ PeekReturn(r)

Next == Write \/ Reset \/ \E r \in Readers : Peek(r)

Spec == Init /\ [][Next]_vars
-----------------------------------------------------------------------------
(* Type invariant: the cursors stay in range, _head on a slot of the       *)
(* buffer (a store through it would otherwise leave the buffer).           *)
TypeOK ==
    /\ head \in Nat /\ head >= FirstIndex
    /\ whead \in Slots
    /\ slots \in [Slots -> Slot]
    /\ wpc \in {"idle", "low", "high", "advanced", "reset"}
    /\ session \in Nat
    /\ rpc \in [Readers -> {"idle", "checked", "newest", "placed", "half", "done"}]
    /\ peek \in [Readers -> [req : Int, h : Nat, sess : Nat, idx : Int,
                             lo : Half, hi : Half]]

Intact(i) == slots[SlotOf(i)] = Whole(ItemAt(session, i))

(* Whatever ring_buf_push is doing, every item a peek may return sits      *)
(* whole in its slot: _head never runs onto the window that head opens,    *)
(* although the two cursors are advanced by separate stores.               *)
WindowIntact == \A i \in Window(head) : Intact(i)

\* The peek used an index that existed in the session it started in.
ValidPeek(p) == p.sess = session /\ p.req < p.h /\ p.h > FirstIndex

\* At most one push was begun since the peek computed its place.
AtMostOnePush(p) == head = p.h \/ (head = p.h + 1 /\ wpc = "idle")

(* The margin of the lock-free design: a peek that overlaps with at most   *)
(* one push returns exactly one whole item of the window it saw.           *)
OnePushSafe ==
    \A r \in Readers :
        LET p == peek[r] IN
        rpc[r] = "done" /\ ValidPeek(p) /\ AtMostOnePush(p) =>
            /\ p.idx \in Window(p.h)
            /\ p.lo = ItemAt(session, p.idx) /\ p.hi = ItemAt(session, p.idx)

(* The ring buffer implements a log of the last Size - 1 items: the slots  *)
(* seen through the window change only by a push or a reset of the log.    *)
Log == INSTANCE RingLog WITH
         next <- head,
         kept <- [i \in Window(head) |-> slots[SlotOf(i)]],
         Items <- {Whole(ItemAt(s, i)) : s \in 0 .. MaxSession,
                                         i \in FirstIndex .. MaxHead}

ImplementsLog == Log!LogSpec
=============================================================================
