------------------------------- MODULE Serial -------------------------------
(***************************************************************************)
(* The program's output on USART2 (stm32f10x_lib/src/hal/helper.c): main   *)
(* sets up the USART, then calls println, which polls TXE after each       *)
(* character.  It runs on the emulated USART of Uart, whose timers and     *)
(* character device go on beside it, and starts again when the machine is  *)
(* reset.                                                                  *)
(***************************************************************************)
EXTENDS Uart

CONSTANTS Text,        \* the string println is called with, without its 0
          IndexMod,    \* 2^8: i is a uint8_t
          MaxCalls,    \* bound on the calls of println
          MaxResets    \* bound on the resets of the machine

(* USART_Init sets TE for USART_Mode_Tx, USART_Cmd sets UE.                *)
TxMode == [ResetCR1 EXCEPT !.TE = 1]
TxEnabled == [TxMode EXCEPT !.UE = 1]

ASSUME SerialAssumption ==
    /\ Text \in Seq(DRValues)
    /\ {TxMode, TxEnabled} \subseteq CR1Writes
    /\ IndexMod \in Nat \ {0} /\ MaxCalls \in Nat /\ MaxResets \in Nat

VARIABLES pc,          \* where main is
          i,           \* index of println
          prints,      \* calls of println made
          resets,
          start        \* history: characters accepted before this call

progVars == <<pc, i, prints, resets, start>>
serialVars == <<vars, progVars>>

Pin == "alternate function output"
-----------------------------------------------------------------------------
(* USART_Init, after the clocks and the pins                               *)
init_usart2 ==
    /\ pc = "init" /\ pc' = "enable"
    /\ CR1_write(TxMode, TRUE)
    /\ UNCHANGED <<i, prints, resets, start>>

enable_rs232 ==
    /\ pc = "enable" /\ pc' = "main"
    /\ CR1_write(TxEnabled, TRUE)
    /\ UNCHANGED <<i, prints, resets, start>>

(* Mutant of println: the first character is skipped.                      *)
println_from_1 ==
    /\ ~halted /\ pc = "main" /\ prints < MaxCalls
    /\ pc' = "test" /\ i' = 1
    /\ prints' = prints + 1 /\ start' = accepted
    /\ UNCHANGED <<resets, vars>>

println ==
    /\ ~halted /\ pc = "main" /\ prints < MaxCalls
    /\ pc' = "test" /\ i' = 0
    /\ prints' = prints + 1 /\ start' = accepted
    /\ UNCHANGED <<resets, vars>>

(* while (s[i] != 0x00)                                                    *)
println_test ==
    /\ ~halted /\ pc = "test"
    /\ pc' = IF i = Len(Text) THEN "main" ELSE "send"
    /\ UNCHANGED <<i, prints, resets, start, vars>>

send_byte ==
    /\ pc = "send" /\ pc' = "poll"
    /\ DR_write(Text[i + 1], Pin)
    /\ UNCHANGED <<i, prints, resets, start>>

(* Mutant of send_byte_wait: the flag is read once.                        *)
send_byte_no_wait ==
    /\ pc = "poll" /\ SR_read
    /\ pc' = "test" /\ i' = (i + 1) % IndexMod
    /\ UNCHANGED <<prints, resets, start>>

send_byte_wait ==
    /\ pc = "poll" /\ SR_read
    /\ \/ SR.TXE = 1 /\ pc' = "test" /\ i' = (i + 1) % IndexMod
       \/ SR.TXE = 0 /\ UNCHANGED <<pc, i>>
    /\ UNCHANGED <<prints, resets, start>>

machine_reset ==
    /\ resets < MaxResets /\ resets' = resets + 1
    /\ reset
    /\ pc' = "init" /\ i' = 0 /\ start' = Len(chr_out)
    /\ UNCHANGED prints

Program == \/ init_usart2 \/ enable_rs232 \/ println \/ println_test
           \/ send_byte \/ send_byte_wait

Machine == /\ \/ tx_timer_expire \/ chr_read_poll \/ rx_timer_expire
              \/ \E c \in Chars : receive(c)
           /\ UNCHANGED progVars

SerialInit == Init /\ pc = "init" /\ i = 0 /\ prints = 0 /\ resets = 0 /\ start = 0

SerialNext == Program \/ Machine \/ machine_reset

SerialSpec == SerialInit /\ [][SerialNext]_serialVars

(* The virtual CPU runs on, and an armed timer fires.                      *)
SerialFairSpec ==
    /\ SerialSpec /\ WF_serialVars(Program)
    /\ WF_serialVars(tx_timer_expire /\ UNCHANGED progVars)
-----------------------------------------------------------------------------
(* The driver keeps to the rules of the device: no access of it makes the  *)
(* emulator abort (hw_error in stm32_uart_DR_write), wherever a reset      *)
(* interrupted it.                                                         *)
NoAbort == ~halted

(* What this call of println has handed over, on the line or parked.       *)
printed == SubSeq(chr_out \o parked, start + 1, accepted)

(* ... is its text so far: nothing lost, doubled or reordered between the  *)
(* polling program and the timer (helper.c:102-117).                       *)
PrintsText ==
    pc \in {"test", "send", "poll"} =>
      printed = [n \in 1..(IF pc = "poll" THEN i + 1 ELSE i) |-> wire_byte(Text[n])]

(* println returns, if its text is shorter than the range of its index.    *)
PrintlnReturns == (pc = "test") ~> (pc \in {"main", "init"})
=============================================================================
