---------------------------- MODULE MCTimeouts ----------------------------
(* Small instances of Timeouts. *)
EXTENDS Timeouts

CONSTANTS per, one, b1, b2, b3, b4

FourTimers == <<b1, b2, b3, b4>>
=============================================================================
