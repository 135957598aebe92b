------------------------------- MODULE MCExti -------------------------------
(* Instances of Exti for TLC: a line with an NVIC input of its own and two *)
(* that share one; line 19 has none.                                       *)
EXTENDS Exti

MCLines == {4, 5, 9, 19}
=============================================================================
