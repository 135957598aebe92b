------------------------------- MODULE MCGpio -------------------------------
(* Instances of Gpio for TLC.                                              *)
EXTENDS Gpio

MCPins == {3, 4, 12}

(* Both halves, together and alone.                                        *)
SetAndReset == {<<s, r>> : s \in SUBSET Pins, r \in SUBSET Pins}
=============================================================================
