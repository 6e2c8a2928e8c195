------------------------------ MODULE RingLog ------------------------------
(***************************************************************************)
(* What the ring buffer promises its producer: a log that keeps the last   *)
(* Size - 1 items of the current session under consecutive numbers.  A     *)
(* push appends one item and drops the oldest; nothing else ever changes   *)
(* a kept item; a reset empties the log and starts a new session.          *)
(***************************************************************************)
EXTENDS RingOps

CONSTANT Items

VARIABLES next,    \* the number of the next item
          kept     \* the kept items, by number

logVars == <<next, kept>>

LogInit == next = FirstIndex /\ kept = [i \in {} |-> 0]

LogPush(item) ==
    /\ next' = next + 1
    /\ kept' = [i \in Window(next + 1) |-> IF i = next THEN item ELSE kept[i]]

LogReset ==
    /\ next' = FirstIndex
    /\ kept' = [i \in {} |-> 0]

LogNext == LogReset \/ \E item \in Items : LogPush(item)

LogSpec == LogInit /\ [][LogNext]_logVars
=============================================================================
