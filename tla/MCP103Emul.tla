----------------------------- MODULE MCP103Emul -----------------------------
(* Instances of P103Emul for TLC.                                          *)
EXTENDS P103Emul

NoMsgs == {}

(* A button pressed (any non-zero value) and released, a button the board  *)
(* does not have, and an unknown command.                                  *)
MCMonitorMsgs ==
    {<<86, 0, 1, 7>>, <<86, 0, 1, 0>>, <<86, 0, 9, 1>>, <<0, 0, 1, 1>>}

WholeReads == {4}
AnyRead == 1..4
AllFaults == {"connect", "write", "close", "spurious", "reset"}
NoFaults == {}
=============================================================================
