------------------------------ MODULE MCSerial ------------------------------
(* Three characters, the last again the first, with an index of two bits.  *)
EXTENDS Serial

MCText == <<65, 66, 65>>
MCCR1Writes == {TxMode, TxEnabled}
=============================================================================
