------------------------------ MODULE RingOps ------------------------------
(***************************************************************************)
(* The index arithmetic of lib/ring_buf/ring_buf.c, without any state.     *)
(* A ring buffer numbers the items pushed since its last reset 1, 2, ...;  *)
(* "head" is the number the next item will get, and item i lives in slot   *)
(* i % Size.  One slot is always about to be overwritten, so Size - 1      *)
(* items are readable.                                                     *)
(***************************************************************************)
EXTENDS Integers

CONSTANT Size   \* number of slots (CONFIG_DATA_BUF_LEN in the firmware)

\* ring_buf_init only refuses 0, yet it starts at slot 1: a buffer of one
\* slot would be written out of bounds by its first push.
ASSUME SizeAssumption == Size \in Nat /\ Size >= 2

Slots == 0 .. Size - 1

FirstIndex == 1

SlotOf(i) == i % Size

\* The first test of ring_buf_peek: nothing was pushed under this index yet.
NotPushed(h, i) == i >= h

\* A slip: the slot being overwritten counted as readable.
OutOfWindowOffByOne(h, i) == i < 0 \/ i < h - Size

\* The second test: a negative index, or one whose item is gone.
OutOfWindow(h, i) == i < 0 \/ i <= h - Size

\* The index ring_buf_peek really reads, given the head it compares with.
PeekIndex(h, i) == IF OutOfWindow(h, i) THEN h - 1 ELSE i

\* The indices whose items a peek can still return.
Window(h) == {i \in FirstIndex .. h - 1 : ~OutOfWindow(h, i)}
=============================================================================
