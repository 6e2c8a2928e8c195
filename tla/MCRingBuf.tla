----------------------------- MODULE MCRingBuf -----------------------------
(* A buffer of three slots, lapped several times in a session, with resets *)
(* and one peeking task: peeks do not write, so readers cannot disturb one *)
(* another and one stands for each of them.                                *)
EXTENDS RingBuf

CONSTANT client

MCReaders == {client}
=============================================================================
