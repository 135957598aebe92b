------------------------------- MODULE MCUart -------------------------------
(* Instances of Uart for TLC.                                              *)
EXTENDS Uart

(* 770 loses its tenth bit in TDR and its ninth on the wire.               *)
MCDRValues == {1, 770}
MCChars == {7}
AnySRWrite == Bit \X Bit

(* The module off, one direction on, both on, with the interrupts that     *)
(* each can raise; and a polled configuration.                             *)
Config(ue, te, re, txeie, tcie, rxneie) ==
    [UE |-> ue, TE |-> te, RE |-> re,
     TXEIE |-> txeie, TCIE |-> tcie, RXNEIE |-> rxneie]

MCCR1Writes ==
    {Config(0, 1, 1, 1, 1, 1), Config(1, 1, 0, 1, 0, 0),
     Config(1, 1, 1, 0, 1, 1), Config(1, 0, 1, 0, 0, 1),
     Config(1, 1, 1, 0, 0, 0)}
=============================================================================
