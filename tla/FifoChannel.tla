---------------------------- MODULE FifoChannel ----------------------------
(***************************************************************************)
(* What a one-way path out of the emulated microcontroller promises:       *)
(* messages leave on the wire in the order they were put in, each once.    *)
(* Between the two, at most Capacity messages wait in the path.  A put     *)
(* finding the path empty may reach the wire at once.  Flush is the loss   *)
(* of what waits that a hardware reset is allowed to cause.                *)
(*                                                                         *)
(* Implemented by the transmitter of a UART (Uart, Capacity = 1) and by    *)
(* the command queue of the board gateway (P103Emul).                      *)
(***************************************************************************)
EXTENDS Naturals, Sequences

CONSTANTS Msgs,        \* the messages that travel through the path
          Capacity,    \* how many of them may wait
          Lossy        \* whether Flush may happen

VARIABLES pending,     \* put in and not yet on the wire, oldest first
          wire         \* everything that reached the wire, oldest first

channelVars == <<pending, wire>>

Init == pending = <<>> /\ wire = <<>>

Put(m) ==
    \/ /\ Len(pending) < Capacity
       /\ pending' = Append(pending, m)
       /\ wire' = wire
    \/ /\ pending = <<>>
       /\ wire' = Append(wire, m)
       /\ pending' = pending

Transmit ==
    /\ pending # <<>>
    /\ wire' = Append(wire, Head(pending))
    /\ pending' = Tail(pending)

Flush == Lossy /\ pending' = <<>> /\ wire' = wire

Next == (\E m \in Msgs : Put(m)) \/ Transmit \/ Flush

Spec == Init /\ [][Next]_channelVars
=============================================================================
