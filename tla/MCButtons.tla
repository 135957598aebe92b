----------------------------- MODULE MCButtons -----------------------------
(* Instances of Buttons for TLC.                                           *)
EXTENDS Buttons

(* Two buttons of the board, one on a line with its own NVIC input and one *)
(* on a line of EXTI9_5, and an input on another port that competes for    *)
(* line 0.                                                                 *)
C0 == <<2, 0>>
C6 == <<2, 6>>
A0 == <<0, 0>>
MCInputs == {C0, C6, A0}
MCWired == {C0, C6}

(* One button.                                                             *)
OneInput == {C0}
=============================================================================
