---------------------------- MODULE MCPulseInput ----------------------------
(* An instance of PulseInput for TLC: the clock wraps at 8, INT32_MAX is 3. *)
EXTENDS PulseInput

(* The longest timeout that works is INT32_MAX - 1; the next looks elapsed *)
(* at once.                                                                *)
MCDelays == {0, 2, 3}
MCGarbage == {0, 5}
=============================================================================
