----------------------------- MODULE EventQueue ----------------------------
(***************************************************************************)
(* g_mcu.system_loop, the queue of system events, as its users see it: a   *)
(* sequence of events, of which the event-loop task takes the oldest.      *)
(***************************************************************************)
EXTENDS Integers, Sequences, FiniteSets

\* The places of an event.
Posted(e, q) == {i \in DOMAIN q : q[i] = e}
=============================================================================
