-------------------------------- MODULE Uart --------------------------------
(***************************************************************************)
(* The USART device of the emulated STM32 (hw/char/stm32_uart.c), one      *)
(* instance, as USART2 of the board.  Three actors run its handlers, one   *)
(* at a time under QEMU's global lock: the virtual CPU (register reads and *)
(* writes), the main loop (character input, the two delay timers) and the  *)
(* machine reset.                                                          *)
(*                                                                         *)
(* The baud rate only decides when a timer fires, so an armed timer may    *)
(* fire at any later time.  hw_error() aborts the emulator: halted.        *)
(***************************************************************************)
EXTENDS Integers, Sequences

CONSTANTS DRValues,    \* values the software writes to USART_DR
          Chars,       \* bytes that arrive from the character device
          SRWrites,    \* <<TC, RXNE>> bits the software may write to USART_SR
          CR1Writes,   \* flags the software writes to USART_CR1
          MaxOut       \* bound on the characters accepted for transmission

Byte == 0..255
TransmitWord == 0..511

ASSUME UartAssumption ==
    /\ DRValues \subseteq Nat
    /\ Chars \subseteq Byte
    /\ SRWrites \subseteq {0, 1} \X {0, 1}
    /\ MaxOut \in Nat

Bit == {0, 1}
SRFlags == [TXE : Bit, TC : Bit, RXNE : Bit, ORE : Bit]
CR1Flags == [UE : Bit, TE : Bit, RE : Bit,
             TXEIE : Bit, TCIE : Bit, RXNEIE : Bit]

ASSUME CR1Assumption == CR1Writes \subseteq CR1Flags

VARIABLES
    SR,                    \* status flags TXE, TC, RXNE, ORE
    CR1,                   \* enable flags of control register 1
    TDR, RDR,              \* transmit and receive data registers
    sr_read_since_ore_set,
    receiving,             \* a character is being received
    rx_timer, tx_timer,    \* whether the delay timers are armed
    curr_irq_level,        \* the level last driven on the NVIC input
    chr_poll,              \* what the main loop last got from can_receive
    chr_out,               \* bytes handed to the character device, in order
    halted,                \* the emulator was aborted by hw_error()
    unseen,                \* history: a character was overwritten and no
                           \* status with ORE was read by the software since
    sr_written             \* history: the software wrote USART_SR since reset

txVars == <<TDR, tx_timer, chr_out>>
rxVars == <<RDR, sr_read_since_ore_set, receiving, rx_timer, chr_poll,
            unseen, sr_written>>
vars == <<SR, CR1, curr_irq_level, halted, txVars, rxVars>>

(* stm32_uart_update_irq computes this from the flags of the moment.       *)
irq_level(sr, cr1) ==
    IF \/ cr1.TCIE = 1 /\ sr.TC = 1
       \/ cr1.TXEIE = 1 /\ sr.TXE = 1
       \/ cr1.RXNEIE = 1 /\ (sr.ORE = 1 \/ sr.RXNE = 1)
    THEN 1 ELSE 0

update_irq(sr, cr1) == curr_irq_level' = irq_level(sr, cr1)

hw_error == /\ halted' = TRUE
            /\ UNCHANGED <<SR, CR1, curr_irq_level, txVars, rxVars>>

(* Mutant of write_value: the value is not masked to nine bits.            *)
write_value_unmasked(v) == v

(* The transmit register is 9 bits wide, the character device takes 8.     *)
write_value(v) == v % 512
wire_byte(v) == v % 256

WireBytes == {wire_byte(v) : v \in DRValues}

-----------------------------------------------------------------------------
(* Transmitter                                                             *)

(* Mutant of start_tx: the timer is not armed.                             *)
start_tx_no_timer(sr, v) ==
    /\ SR' = [sr EXCEPT !.TC = 0]
    /\ chr_out' = Append(chr_out, wire_byte(v))
    /\ UNCHANGED tx_timer

(* stm32_uart_start_tx on flags sr: TC falls, the byte leaves at once and  *)
(* the timer that stands for its duration is (re)armed.                    *)
start_tx(sr, v) ==
    /\ SR' = [sr EXCEPT !.TC = 0]
    /\ chr_out' = Append(chr_out, wire_byte(v))
    /\ tx_timer' = TRUE

(* In the second branch the interrupt is updated before start_tx lowers TC *)
(* and not after it.                                                       *)
tx_timer_expire ==
    /\ ~halted /\ tx_timer
    /\ \/ /\ SR.TXE = 1
          /\ SR' = [SR EXCEPT !.TC = 1]
          /\ tx_timer' = FALSE
          /\ update_irq(SR', CR1)
          /\ UNCHANGED chr_out
       \/ /\ SR.TXE = 0
          /\ start_tx([SR EXCEPT !.TXE = 1], TDR)
          /\ update_irq([SR EXCEPT !.TXE = 1], CR1)
    /\ UNCHANGED <<CR1, TDR, halted, rxVars>>

PinConfigs == {"input", "general purpose output", "alternate function output"}

tx_ready(pin) ==
    CR1.UE = 1 /\ CR1.TE = 1 /\ pin = "alternate function output"

accepted == Len(chr_out) + (1 - SR.TXE)

(* Mutant of DR_write: a character already parked is overwritten.          *)
DR_write_overwrites(value, pin) ==
    /\ ~halted /\ accepted < MaxOut /\ tx_ready(pin)
    /\ \/ /\ SR.TC = 1
          /\ start_tx(SR, write_value(value))
          /\ UNCHANGED TDR
       \/ /\ SR.TC = 0
          /\ TDR' = write_value(value)
          /\ SR' = [SR EXCEPT !.TXE = 0]
          /\ UNCHANGED <<chr_out, tx_timer>>
    /\ update_irq(SR', CR1)
    /\ UNCHANGED <<CR1, halted, rxVars>>

DR_write(value, pin) ==
    /\ ~halted
    /\ accepted < MaxOut
    /\ LET v == write_value(value) IN
       \/ /\ tx_ready(pin) /\ SR.TC = 1
          /\ start_tx(SR, v)
          /\ update_irq(SR', CR1)
          /\ UNCHANGED <<CR1, TDR, halted, rxVars>>
       \/ /\ tx_ready(pin) /\ SR.TC = 0 /\ SR.TXE = 1
          /\ TDR' = v
          /\ SR' = [SR EXCEPT !.TXE = 0]
          /\ update_irq(SR', CR1)
          /\ UNCHANGED <<CR1, chr_out, tx_timer, halted, rxVars>>
       \/ /\ ~tx_ready(pin) \/ (SR.TC = 0 /\ SR.TXE = 0)
          /\ hw_error
-----------------------------------------------------------------------------
(* Receiver                                                                *)

rx_enabled == CR1.UE = 1 /\ CR1.RE = 1

can_receive == rx_enabled => ~receiving /\ SR.RXNE = 0

(* The main loop asks can_receive, releases the global lock while it waits *)
(* for input, and delivers a byte on the answer it got before that.        *)
chr_read_poll ==
    /\ ~halted
    /\ chr_poll' = can_receive
    /\ UNCHANGED <<SR, CR1, curr_irq_level, halted, txVars, RDR,
                   sr_read_since_ore_set, receiving, rx_timer, unseen, sr_written>>

receive(c) ==
    /\ ~halted /\ chr_poll
    /\ chr_poll' = FALSE
    /\ receiving' = TRUE
    /\ rx_timer' = TRUE
    /\ \/ /\ rx_enabled /\ SR.RXNE = 1
          /\ SR' = [SR EXCEPT !.ORE = 1]
          /\ sr_read_since_ore_set' = FALSE
          /\ unseen' = TRUE
          /\ RDR' = c
          /\ update_irq(SR', CR1)
       \/ /\ rx_enabled /\ SR.RXNE = 0
          /\ SR' = [SR EXCEPT !.RXNE = 1]
          /\ RDR' = c
          /\ update_irq(SR', CR1)
          /\ UNCHANGED <<sr_read_since_ore_set, unseen>>
       \/ /\ ~rx_enabled
          /\ UNCHANGED <<SR, RDR, sr_read_since_ore_set, unseen,
                         curr_irq_level>>
    /\ UNCHANGED <<CR1, halted, txVars, sr_written>>

rx_timer_expire ==
    /\ ~halted /\ rx_timer
    /\ rx_timer' = FALSE
    /\ receiving' = FALSE
    /\ UNCHANGED <<SR, CR1, curr_irq_level, halted, txVars, RDR,
                   sr_read_since_ore_set, chr_poll, unseen, sr_written>>

(* Mutant of DR_read: ORE falls without a read of the status before.       *)
DR_read_clears_ORE ==
    /\ ~halted /\ rx_enabled /\ SR.RXNE = 1
    /\ SR' = [SR EXCEPT !.RXNE = 0, !.ORE = 0]
    /\ update_irq(SR', CR1)
    /\ UNCHANGED <<CR1, halted, txVars, rxVars>>

DR_read ==
    /\ ~halted
    /\ \/ /\ rx_enabled /\ SR.RXNE = 1
          /\ SR' = [SR EXCEPT !.RXNE = 0,
                              !.ORE = IF sr_read_since_ore_set THEN 0 ELSE @]
          /\ update_irq(SR', CR1)
          /\ UNCHANGED <<CR1, halted, txVars, rxVars>>
       \/ /\ ~rx_enabled \/ SR.RXNE = 0
          /\ hw_error
-----------------------------------------------------------------------------
(* Status and control registers, reset                                     *)

SR_read ==
    /\ ~halted
    /\ sr_read_since_ore_set' = (SR.ORE = 1 \/ sr_read_since_ore_set)
    /\ unseen' = (unseen /\ SR.ORE = 0)
    /\ UNCHANGED <<SR, CR1, curr_irq_level, halted, txVars, RDR, receiving,
                   rx_timer, chr_poll, sr_written>>

(* A write first reads the register to merge the written bytes into it.    *)
SR_write(tc, rxne) ==
    /\ ~halted
    /\ \/ /\ tc = 0 /\ rxne = 0
          /\ sr_read_since_ore_set' = (SR.ORE = 1 \/ sr_read_since_ore_set)
          /\ SR' = [SR EXCEPT !.TC = 0, !.RXNE = 0]
          /\ sr_written' = TRUE
          /\ update_irq(SR', CR1)
          /\ UNCHANGED <<CR1, halted, txVars, RDR, receiving, rx_timer, chr_poll,
                         unseen>>
       \/ /\ tc = 1 \/ rxne = 1
          /\ hw_error

(* Mutant of CR1_write: the interrupt is not updated.                      *)
CR1_write_no_update(flags, map_ok) ==
    /\ ~halted /\ (flags.UE = 1 => map_ok)
    /\ CR1' = flags
    /\ UNCHANGED <<SR, curr_irq_level, halted, txVars, rxVars>>

(* map_ok: the AFIO remapping of the USART is the one the board is wired   *)
(* for.                                                                    *)
CR1_write(flags, map_ok) ==
    /\ ~halted
    /\ \/ /\ flags.UE = 1 => map_ok
          /\ CR1' = flags
          /\ update_irq(SR, flags)
          /\ UNCHANGED <<SR, halted, txVars, rxVars>>
       \/ /\ flags.UE = 1 /\ ~map_ok
          /\ hw_error

ResetSR == [TXE |-> 1, TC |-> 1, RXNE |-> 0, ORE |-> 0]
ResetCR1 == [UE |-> 0, TE |-> 0, RE |-> 0,
             TXEIE |-> 0, TCIE |-> 0, RXNEIE |-> 0]

(* Mutant of reset: the receive timer is stopped, receiving is kept.       *)
reset_stops_timer ==
    /\ ~halted
    /\ SR' = ResetSR /\ CR1' = ResetCR1
    /\ update_irq(ResetSR, ResetCR1)
    /\ unseen' = FALSE /\ sr_written' = FALSE /\ rx_timer' = FALSE
    /\ UNCHANGED <<halted, txVars, RDR, sr_read_since_ore_set, receiving,
                   chr_poll>>

(* The timers stay armed, and receiving and sr_read_since_ore_set keep     *)
(* their values.                                                           *)
reset ==
    /\ ~halted
    /\ SR' = ResetSR
    /\ CR1' = ResetCR1
    /\ update_irq(ResetSR, ResetCR1)
    /\ unseen' = FALSE /\ sr_written' = FALSE
    /\ UNCHANGED <<halted, txVars, RDR, sr_read_since_ore_set, receiving,
                   rx_timer, chr_poll>>
-----------------------------------------------------------------------------
Init ==
    /\ SR = ResetSR
    /\ CR1 = ResetCR1
    /\ TDR = 0 /\ RDR = 0
    /\ sr_read_since_ore_set = FALSE /\ receiving = FALSE
    /\ rx_timer = FALSE /\ tx_timer = FALSE
    /\ curr_irq_level = 0
    /\ chr_poll = FALSE
    /\ chr_out = <<>>
    /\ halted = FALSE
    /\ unseen = FALSE /\ sr_written = FALSE

Next ==
    \/ \E v \in DRValues, pin \in PinConfigs : DR_write(v, pin)
    \/ tx_timer_expire
    \/ chr_read_poll
    \/ \E c \in Chars : receive(c)
    \/ rx_timer_expire
    \/ DR_read
    \/ SR_read
    \/ \E w \in SRWrites : SR_write(w[1], w[2])
    \/ \E flags \in CR1Writes, map_ok \in BOOLEAN : CR1_write(flags, map_ok)
    \/ reset

Spec == Init /\ [][Next]_vars

(* QEMU's timers run from the main loop whenever the virtual clock passes  *)
(* their deadline, so an armed timer fires.                                *)
FairSpec == Spec /\ WF_vars(tx_timer_expire) /\ WF_vars(rx_timer_expire)
-----------------------------------------------------------------------------
(* Properties                                                              *)

(* Every register, flag and history variable keeps its type.               *)
TypeOK ==
    /\ SR \in SRFlags
    /\ CR1 \in CR1Flags
    /\ TDR \in TransmitWord /\ RDR \in Byte
    /\ sr_read_since_ore_set \in BOOLEAN /\ receiving \in BOOLEAN
    /\ rx_timer \in BOOLEAN /\ tx_timer \in BOOLEAN
    /\ curr_irq_level \in Bit
    /\ chr_poll \in BOOLEAN
    /\ chr_out \in Seq(Byte)
    /\ halted \in BOOLEAN
    /\ unseen \in BOOLEAN /\ sr_written \in BOOLEAN

(* The level driven on the NVIC is the one the flags call for, after every *)
(* handler, including those that change a flag after their last            *)
(* stm32_uart_update_irq.                                                  *)
IrqTracksFlags == curr_irq_level = irq_level(SR, CR1)

(* What the transmitter holds back: the character parked in TDR.           *)
parked == IF SR.TXE = 0 THEN <<wire_byte(TDR)>> ELSE <<>>

Line == INSTANCE FifoChannel WITH Msgs <- WireBytes, Capacity <- 1,
                                  Lossy <- TRUE,
                                  pending <- parked, wire <- chr_out

(* Characters written to USART_DR reach the character device in order and  *)
(* once; only a reset may drop the parked one.                             *)
TxIsFifo == Line!Spec

(* A parked character does leave, unless the emulator is aborted: a        *)
(* software that never writes USART_SR cannot park one for ever.           *)
ParkedLeaves ==
    (SR.TXE = 0 /\ ~sr_written) ~> (SR.TXE = 1 \/ sr_written \/ halted)

(* A character is never overwritten without trace: until the software has  *)
(* read a status with ORE set, or written USART_SR, ORE stays set.         *)
OverrunReported == unseen /\ ~sr_written => SR.ORE = 1

(* A character that waits in TDR, or a transmission under way, has a timer *)
(* that will complete it; only a write of USART_SR can void this, and only *)
(* until the next reset.                                                   *)
TransmitHasTimer == SR.TC = 0 /\ ~sr_written => tx_timer

(* An enabled receiver does not refuse input for ever: receiving falls,    *)
(* whatever was reset or reconfigured meanwhile.                           *)
RxReopens == (receiving /\ rx_enabled) ~> (~receiving \/ ~rx_enabled \/ halted)
=============================================================================
