------------------------------- MODULE MCRcc -------------------------------
(* The clocks of the Olimex board: 8 MHz and 32.768 kHz crystals.          *)
EXTENDS Rcc

cfg(mul, xtpre, src, ppre1, ppre2, hprev, sw) ==
    [PLLMUL |-> mul, PLLXTPRE |-> xtpre, PLLSRC |-> src, PPRE2 |-> ppre2,
     PPRE1 |-> ppre1, HPRE |-> hprev, SW |-> sw]

(* The settings of the ST library for 72 MHz, with either oscillator, the  *)
(* slowest ones, and one that the controller refuses.                      *)
MCCFGRWrites ==
    {cfg(7, 0, 1, 4, 0, 0, 2), cfg(14, 1, 1, 5, 4, 9, 2), cfg(0, 0, 0, 7, 7, 15, 2),
     cfg(15, 0, 0, 7, 0, 15, 1), cfg(0, 0, 0, 0, 0, 0, 3)}

(* All sources, all but the high-speed external one, and it alone.         *)
MCCRWrites ==
    {<<TRUE, TRUE, TRUE>>, <<TRUE, FALSE, TRUE>>, <<FALSE, TRUE, FALSE>>}

ASSUME MCDividers == DividersFit
=============================================================================
