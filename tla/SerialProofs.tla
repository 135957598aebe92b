---------------------------- MODULE SerialProofs ----------------------------
(***************************************************************************)
(* The USART, for every set of software accesses and input bytes, and then *)
(* the polling driver on it, for every text and every timing: the proof    *)
(* about the driver rests on the invariant of the device, which holds of   *)
(* the composition because each of its steps is a step of the device or    *)
(* leaves the device alone.                                                *)
(***************************************************************************)
EXTENDS Serial, TLAPS

(* Masking and truncating a natural number stays within 9 and 8 bits.      *)
LEMMA RegisterWidth == \A v \in Nat : write_value(v) \in TransmitWord
  BY DEF write_value, TransmitWord

LEMMA WireWidth == \A v \in TransmitWord : wire_byte(v) \in Byte
  BY DEF wire_byte, Byte, TransmitWord

(* wire_byte forgets what write_value masks.                               *)
LEMMA WireOfMasked == \A v \in Nat : wire_byte(write_value(v)) = wire_byte(v)
  BY DEF write_value, wire_byte

(* The transmit register is only ever occupied while a transmission is     *)
(* under way: this is what lets the last branch of tx_complete lower TC    *)
(* without a further stm32_uart_update_irq.                                *)
ParkedWhileBusy == SR.TXE = 0 => SR.TC = 0

UartInv == TypeOK /\ IrqTracksFlags /\ ParkedWhileBusy

-----------------------------------------------------------------------------
(* Type correctness, by groups of variables                                *)

FlagsTyped == SR \in SRFlags /\ CR1 \in CR1Flags

DataTyped == TDR \in TransmitWord /\ RDR \in Byte /\ chr_out \in Seq(Byte)

BooleansTyped ==
    /\ sr_read_since_ore_set \in BOOLEAN /\ receiving \in BOOLEAN
    /\ rx_timer \in BOOLEAN /\ tx_timer \in BOOLEAN
    /\ chr_poll \in BOOLEAN
    /\ halted \in BOOLEAN
    /\ unseen \in BOOLEAN /\ sr_written \in BOOLEAN

LEMMA TypedByGroups ==
    TypeOK <=> FlagsTyped /\ DataTyped /\ BooleansTyped /\ curr_irq_level \in Bit
  BY Zenon DEF TypeOK, FlagsTyped, DataTyped, BooleansTyped

LEMMA FlagsStep == FlagsTyped /\ [Next]_vars => FlagsTyped'
  <1> SUFFICES ASSUME FlagsTyped, [Next]_vars PROVE FlagsTyped'
    OBVIOUS
  <1> USE DEF FlagsTyped, txVars, rxVars
  <1>1. ASSUME NEW v \in DRValues, NEW pin \in PinConfigs,
               DR_write(v, pin)
        PROVE FlagsTyped'
    BY <1>1 DEF DR_write, start_tx, hw_error, SRFlags, Bit
  <1>2. CASE tx_timer_expire
    <2>1. /\ [SR EXCEPT !.TC = 1] \in SRFlags
          /\ [[SR EXCEPT !.TXE = 1] EXCEPT !.TC = 0] \in SRFlags
      BY Zenon DEF SRFlags, Bit
    <2> QED
      BY <1>2, <2>1 DEF tx_timer_expire, start_tx
  <1>3. CASE chr_read_poll
    BY <1>3 DEF chr_read_poll, can_receive
  <1>4. ASSUME NEW c \in Chars, receive(c)
        PROVE FlagsTyped'
    BY <1>4 DEF receive, SRFlags, Bit
  <1>5. CASE rx_timer_expire
    BY <1>5 DEF rx_timer_expire
  <1>6. CASE DR_read
    <2>1. \A b \in Bit : [SR EXCEPT !.RXNE = 0, !.ORE = b] \in SRFlags
      BY Zenon DEF SRFlags, Bit
    <2>2. (IF sr_read_since_ore_set THEN 0 ELSE SR.ORE) \in Bit
      BY DEF SRFlags, Bit
    <2> QED
      BY <1>6, <2>1, <2>2, Zenon DEF DR_read, hw_error
  <1>7. CASE SR_read
    BY <1>7 DEF SR_read
  <1>8. ASSUME NEW w \in SRWrites, SR_write(w[1], w[2])
        PROVE FlagsTyped'
    <2>1. [SR EXCEPT !.TC = 0, !.RXNE = 0] \in SRFlags
      BY Zenon DEF SRFlags, Bit
    <2> QED
      BY <1>8, <2>1 DEF SR_write, hw_error
  <1>9. ASSUME NEW flags \in CR1Writes, NEW map_ok \in BOOLEAN,
               CR1_write(flags, map_ok)
        PROVE FlagsTyped'
    BY <1>9, CR1Assumption DEF CR1_write, hw_error
  <1>10. CASE reset
    BY <1>10 DEF reset, ResetSR, ResetCR1, SRFlags, CR1Flags, Bit
  <1>11. CASE UNCHANGED vars
    BY <1>11 DEF vars
  <1> QED
    BY <1>1, <1>2, <1>3, <1>4, <1>5, <1>6, <1>7, <1>8, <1>9, <1>10, <1>11
       DEF Next

LEMMA DataStep == DataTyped /\ [Next]_vars => DataTyped'
  <1> SUFFICES ASSUME DataTyped, [Next]_vars PROVE DataTyped'
    OBVIOUS
  <1> USE DEF DataTyped, txVars, rxVars
  <1>1. ASSUME NEW v \in DRValues, NEW pin \in PinConfigs,
               DR_write(v, pin)
        PROVE DataTyped'
    <2>1. v \in Nat
      BY UartAssumption
    <2>2. write_value(v) \in TransmitWord
      BY <2>1, RegisterWidth
    <2>3. Append(chr_out, wire_byte(write_value(v))) \in Seq(Byte)
      BY <2>2, WireWidth
    <2> QED
      BY <1>1, <2>2, <2>3 DEF DR_write, start_tx, hw_error
  <1>2. CASE tx_timer_expire
    BY <1>2, WireWidth DEF tx_timer_expire, start_tx
  <1>3. CASE chr_read_poll
    BY <1>3 DEF chr_read_poll, can_receive
  <1>4. ASSUME NEW c \in Chars, receive(c)
        PROVE DataTyped'
    BY <1>4, UartAssumption DEF receive
  <1>5. CASE rx_timer_expire
    BY <1>5 DEF rx_timer_expire
  <1>6. CASE DR_read
    BY <1>6 DEF DR_read, hw_error
  <1>7. CASE SR_read
    BY <1>7 DEF SR_read
  <1>8. ASSUME NEW w \in SRWrites, SR_write(w[1], w[2])
        PROVE DataTyped'
    BY <1>8 DEF SR_write, hw_error
  <1>9. ASSUME NEW flags \in CR1Writes, NEW map_ok \in BOOLEAN,
               CR1_write(flags, map_ok)
        PROVE DataTyped'
    BY <1>9 DEF CR1_write, hw_error
  <1>10. CASE reset
    BY <1>10 DEF reset
  <1>11. CASE UNCHANGED vars
    BY <1>11 DEF vars
  <1> QED
    BY <1>1, <1>2, <1>3, <1>4, <1>5, <1>6, <1>7, <1>8, <1>9, <1>10, <1>11
       DEF Next

LEMMA BooleansStep == BooleansTyped /\ [Next]_vars => BooleansTyped'
  <1> SUFFICES ASSUME BooleansTyped, [Next]_vars PROVE BooleansTyped'
    OBVIOUS
  <1> USE DEF BooleansTyped, txVars, rxVars
  <1>1. ASSUME NEW v \in DRValues, NEW pin \in PinConfigs,
               DR_write(v, pin)
        PROVE BooleansTyped'
    BY Zenon, <1>1 DEF DR_write, start_tx, hw_error
  <1>2. CASE tx_timer_expire
    BY Zenon, <1>2 DEF tx_timer_expire, start_tx
  <1>3. CASE chr_read_poll
    BY Zenon, <1>3 DEF chr_read_poll, can_receive
  <1>4. ASSUME NEW c \in Chars, receive(c)
        PROVE BooleansTyped'
    BY Zenon, <1>4 DEF receive
  <1>5. CASE rx_timer_expire
    BY Zenon, <1>5 DEF rx_timer_expire
  <1>6. CASE DR_read
    BY Zenon, <1>6 DEF DR_read, hw_error
  <1>7. CASE SR_read
    BY Zenon, <1>7 DEF SR_read
  <1>8. ASSUME NEW w \in SRWrites, SR_write(w[1], w[2])
        PROVE BooleansTyped'
    BY Zenon, <1>8 DEF SR_write, hw_error
  <1>9. ASSUME NEW flags \in CR1Writes, NEW map_ok \in BOOLEAN,
               CR1_write(flags, map_ok)
        PROVE BooleansTyped'
    BY Zenon, <1>9 DEF CR1_write, hw_error
  <1>10. CASE reset
    BY Zenon, <1>10 DEF reset
  <1>11. CASE UNCHANGED vars
    BY Zenon, <1>11 DEF vars
  <1> QED
    BY <1>1, <1>2, <1>3, <1>4, <1>5, <1>6, <1>7, <1>8, <1>9, <1>10, <1>11
       DEF Next

LEMMA InitUartInv == Init => UartInv
  <1> SUFFICES ASSUME Init PROVE UartInv
    OBVIOUS
  <1>1. FlagsTyped /\ curr_irq_level \in Bit
    BY DEF Init, FlagsTyped, ResetSR, ResetCR1, SRFlags, CR1Flags, Bit
  <1>2. DataTyped
    BY DEF Init, DataTyped, TransmitWord, Byte
  <1>3. BooleansTyped
    BY Zenon DEF Init, BooleansTyped
  <1>4. IrqTracksFlags /\ ParkedWhileBusy
    BY DEF Init, IrqTracksFlags, ParkedWhileBusy, irq_level, ResetSR, ResetCR1
  <1> QED
    BY <1>1, <1>2, <1>3, <1>4, TypedByGroups DEF UartInv

(* The inductive step, one case per handler.                               *)
LEMMA UartInvStep == UartInv /\ [Next]_vars => UartInv'
  <1> SUFFICES ASSUME UartInv, [Next]_vars PROVE UartInv'
    OBVIOUS
  <1>0. FlagsTyped /\ DataTyped /\ BooleansTyped
    BY TypedByGroups DEF UartInv
  <1>a. FlagsTyped' /\ DataTyped' /\ BooleansTyped'
    BY <1>0, FlagsStep, DataStep, BooleansStep
  <1> SUFFICES (IrqTracksFlags /\ ParkedWhileBusy)'
    <2>1. ASSUME (IrqTracksFlags /\ ParkedWhileBusy)'
          PROVE curr_irq_level' \in Bit
      BY <2>1 DEF IrqTracksFlags, irq_level, Bit
    <2>2. ASSUME curr_irq_level' \in Bit
          PROVE TypeOK'
      BY <1>a, <2>2, Zenon DEF TypeOK, FlagsTyped, DataTyped, BooleansTyped
    <2> QED
      BY <2>1, <2>2 DEF UartInv
  <1> USE DEF UartInv, IrqTracksFlags, ParkedWhileBusy, TypeOK, SRFlags, Bit,
              txVars, rxVars
  <1>1. ASSUME NEW v \in DRValues, NEW pin \in PinConfigs, DR_write(v, pin)
        PROVE (IrqTracksFlags /\ ParkedWhileBusy)'
    BY <1>1 DEF DR_write, start_tx, update_irq, hw_error
  <1>2. CASE tx_timer_expire
    BY <1>2, Zenon DEF tx_timer_expire, start_tx, update_irq, irq_level
  <1>3. CASE chr_read_poll
    BY <1>3 DEF chr_read_poll
  <1>4. ASSUME NEW c \in Chars, receive(c)
        PROVE (IrqTracksFlags /\ ParkedWhileBusy)'
    BY <1>4 DEF receive, update_irq
  <1>5. CASE rx_timer_expire
    BY <1>5 DEF rx_timer_expire
  <1>6. CASE DR_read
    BY <1>6, Zenon DEF DR_read, update_irq, hw_error
  <1>7. CASE SR_read
    BY <1>7 DEF SR_read
  <1>8. ASSUME NEW w \in SRWrites, SR_write(w[1], w[2])
        PROVE (IrqTracksFlags /\ ParkedWhileBusy)'
    BY <1>8, Zenon DEF SR_write, update_irq, hw_error
  <1>9. ASSUME NEW flags \in CR1Writes, NEW map_ok \in BOOLEAN,
               CR1_write(flags, map_ok)
        PROVE (IrqTracksFlags /\ ParkedWhileBusy)'
    BY <1>9 DEF CR1_write, update_irq, hw_error
  <1>10. CASE reset
    BY <1>10 DEF reset, update_irq, ResetSR
  <1>11. CASE UNCHANGED vars
    BY <1>11 DEF vars
  <1> QED
    BY <1>1, <1>2, <1>3, <1>4, <1>5, <1>6, <1>7, <1>8, <1>9, <1>10, <1>11
       DEF Next

LEMMA UartInvariant == Spec => []UartInv
  BY InitUartInv, UartInvStep, PTL DEF Spec

(* Registers, timers and histories keep their types under every sequence   *)
(* of register accesses, input bytes, timer expiries and resets.           *)
THEOREM UartTypeCorrect == Spec => []TypeOK
  BY UartInvariant, PTL DEF UartInv

(* The NVIC sees the level the USART flags call for, always.               *)
THEOREM UartIrqCorrect == Spec => []IrqTracksFlags
  BY UartInvariant, PTL DEF UartInv
-----------------------------------------------------------------------------
(* The transmitter implements FifoChannel                                  *)

(* Handlers that touch neither TXE, TDR nor the output are stutters of the *)
(* channel.                                                                *)
LEMMA LineStutter ==
    SR'.TXE = SR.TXE /\ TDR' = TDR /\ chr_out' = chr_out
      => UNCHANGED Line!channelVars
  BY DEF Line!channelVars, parked

LEMMA LineStep == UartInv /\ [Next]_vars => [Line!Next]_(Line!channelVars)
  <1> SUFFICES ASSUME UartInv, [Next]_vars
               PROVE Line!Next \/ UNCHANGED Line!channelVars
    OBVIOUS
  <1> USE DEF UartInv, TypeOK, SRFlags, Bit, txVars, rxVars
  <1>1. ASSUME NEW v \in DRValues, NEW pin \in PinConfigs, DR_write(v, pin)
        PROVE Line!Next \/ UNCHANGED Line!channelVars
    <2>1. /\ wire_byte(write_value(v)) = wire_byte(v)
          /\ wire_byte(v) \in WireBytes
      BY UartAssumption, WireOfMasked DEF WireBytes
    <2>2. ASSUME SR.TC = 1, start_tx(SR, write_value(v)), UNCHANGED TDR
          PROVE Line!Put(wire_byte(v))
      BY <2>1, <2>2 DEF start_tx, Line!Put, parked, ParkedWhileBusy
    <2>3. ASSUME SR.TXE = 1, TDR' = write_value(v),
                 SR' = [SR EXCEPT !.TXE = 0], UNCHANGED chr_out
          PROVE Line!Put(wire_byte(v))
      BY <2>1, <2>3 DEF Line!Put, parked
    <2>4. ASSUME hw_error
          PROVE UNCHANGED Line!channelVars
      BY <2>4, LineStutter DEF hw_error
    <2> QED
      BY <1>1, <2>1, <2>2, <2>3, <2>4 DEF DR_write, Line!Next
  <1>2. CASE tx_timer_expire
    <2>1. ASSUME SR.TXE = 1, SR' = [SR EXCEPT !.TC = 1], UNCHANGED <<TDR, chr_out>>
          PROVE UNCHANGED Line!channelVars
      BY <2>1, LineStutter
    <2>2. ASSUME SR.TXE = 0, start_tx([SR EXCEPT !.TXE = 1], TDR)
          PROVE Line!Transmit
      BY <2>2 DEF start_tx, Line!Transmit, parked
    <2> QED
      BY <1>2, <2>1, <2>2 DEF tx_timer_expire, Line!Next
  <1>3. CASE chr_read_poll
    BY <1>3, LineStutter DEF chr_read_poll
  <1>4. ASSUME NEW c \in Chars, receive(c)
        PROVE Line!Next \/ UNCHANGED Line!channelVars
    BY <1>4, LineStutter DEF receive
  <1>5. CASE rx_timer_expire
    BY <1>5, LineStutter DEF rx_timer_expire
  <1>6. CASE DR_read
    BY <1>6, LineStutter, Zenon DEF DR_read, hw_error
  <1>7. CASE SR_read
    BY <1>7, LineStutter DEF SR_read
  <1>8. ASSUME NEW w \in SRWrites, SR_write(w[1], w[2])
        PROVE Line!Next \/ UNCHANGED Line!channelVars
    BY <1>8, LineStutter, Zenon DEF SR_write, hw_error
  <1>9. ASSUME NEW flags \in CR1Writes, NEW map_ok \in BOOLEAN,
               CR1_write(flags, map_ok)
        PROVE Line!Next \/ UNCHANGED Line!channelVars
    BY <1>9, LineStutter DEF CR1_write, hw_error
  <1>10. CASE reset
    <2>1. Line!Flush
      BY <1>10 DEF reset, ResetSR, Line!Flush, parked
    <2> QED
      BY <2>1 DEF Line!Next
  <1>11. CASE UNCHANGED vars
    BY <1>11, LineStutter DEF vars
  <1> QED
    BY <1>1, <1>2, <1>3, <1>4, <1>5, <1>6, <1>7, <1>8, <1>9, <1>10, <1>11
       DEF Next

(* Characters leave the transmitter in the order and number in which the   *)
(* software wrote them to USART_DR, whatever the software does; a reset    *)
(* loses at most the parked one.                                           *)
THEOREM UartTxIsFifo == Spec => TxIsFifo
  <1>1. Init => Line!Init
    BY DEF Init, Line!Init, parked, ResetSR
  <1> QED
    BY <1>1, LineStep, UartInvariant, PTL DEF Spec, TxIsFifo, Line!Spec

-----------------------------------------------------------------------------
(* As long as the software has not written USART_SR since the last reset   *)

(* The overrun flag outlives every handler until a status that shows it    *)
(* has been read, and only then may a data read clear it.                  *)
OverrunKept == unseen /\ ~sr_written => SR.ORE = 1 /\ ~sr_read_since_ore_set

DriverInv == OverrunKept /\ TransmitHasTimer

(* One case per handler: a write of USART_SR voids both promises, a reset  *)
(* makes them again.                                                       *)
LEMMA DriverInvStep == UartInv /\ DriverInv /\ [Next]_vars => DriverInv'
  <1> SUFFICES ASSUME UartInv, DriverInv, [Next]_vars PROVE DriverInv'
    OBVIOUS
  <1>0. BooleansTyped /\ FlagsTyped
    BY TypedByGroups DEF UartInv
  <1> USE <1>0 DEF DriverInv, OverrunKept, TransmitHasTimer, FlagsTyped, SRFlags,
                   Bit, txVars, rxVars
  <1>1. ASSUME NEW v \in DRValues, NEW pin \in PinConfigs, DR_write(v, pin)
        PROVE DriverInv'
    <2>1. CASE start_tx(SR, write_value(v)) /\ UNCHANGED rxVars
      BY <2>1 DEF start_tx
    <2>2. CASE SR' = [SR EXCEPT !.TXE = 0] /\ UNCHANGED <<tx_timer, rxVars>>
      BY <2>2
    <2>3. CASE hw_error
      BY <2>3 DEF hw_error
    <2> QED
      BY <1>1, <2>1, <2>2, <2>3, Zenon DEF DR_write
  <1>2. CASE tx_timer_expire
    <2>1. CASE SR' = [SR EXCEPT !.TC = 1] /\ UNCHANGED rxVars
      BY <2>1
    <2>2. CASE start_tx([SR EXCEPT !.TXE = 1], TDR) /\ UNCHANGED rxVars
      BY <2>2 DEF start_tx
    <2> QED
      BY <1>2, <2>1, <2>2, Zenon DEF tx_timer_expire
  <1>3. CASE chr_read_poll
    BY <1>3 DEF chr_read_poll
  <1>4. ASSUME NEW c \in Chars, receive(c)
        PROVE DriverInv'
    BY <1>4 DEF receive
  <1>5. CASE rx_timer_expire
    BY <1>5 DEF rx_timer_expire
  <1>6. CASE DR_read
    <2>1. ASSUME unseen, ~sr_written
          PROVE (IF sr_read_since_ore_set THEN 0 ELSE SR.ORE) = 1
      BY <2>1
    <2>2. ASSUME NEW b \in Bit
          PROVE /\ [SR EXCEPT !.RXNE = 0, !.ORE = b].ORE = b
                /\ [SR EXCEPT !.RXNE = 0, !.ORE = b].TC = SR.TC
      OBVIOUS
    <2>3. (IF sr_read_since_ore_set THEN 0 ELSE SR.ORE) \in Bit
      OBVIOUS
    <2>4. CASE hw_error
      BY <2>4 DEF hw_error
    <2>5. ASSUME NEW b \in Bit, unseen /\ ~sr_written => b = 1,
                 SR' = [SR EXCEPT !.RXNE = 0, !.ORE = b], UNCHANGED <<txVars, rxVars>>
          PROVE DriverInv'
      BY <2>2, <2>5
    <2> QED
      BY <1>6, <2>1, <2>3, <2>4, <2>5, Zenon DEF DR_read
  <1>7. CASE SR_read
    <2>1. sr_written \/ ~(unseen /\ SR.ORE = 0)
      OBVIOUS
    <2>2. sr_written' \/ unseen' = FALSE
      BY <1>7, <2>1, Zenon DEF SR_read
    <2> QED
      BY <1>7, <2>2 DEF SR_read
  <1>8. CASE \E flags \in CR1Writes, map_ok \in BOOLEAN : CR1_write(flags, map_ok)
    BY <1>8 DEF CR1_write, hw_error
  <1>9. CASE reset
    BY <1>9 DEF reset, ResetSR
  <1>10. CASE UNCHANGED vars
    BY <1>10 DEF vars
  <1>11. ASSUME NEW w \in SRWrites, SR_write(w[1], w[2])
         PROVE DriverInv'
    <2>1. sr_written' = TRUE \/ hw_error
      BY <1>11 DEF SR_write
    <2> QED
      BY <2>1 DEF hw_error
  <1> QED
    BY <1>1, <1>2, <1>3, <1>4, <1>5, <1>6, <1>7, <1>8, <1>9, <1>10, <1>11 DEF Next

LEMMA DriverInvariant == Spec => []DriverInv
  <1>1. Init => DriverInv
    BY DEF Init, DriverInv, OverrunKept, TransmitHasTimer, ResetSR
  <1> QED
    BY <1>1, DriverInvStep, UartInvariant, PTL DEF Spec

(* An overwritten character is always announced by ORE before ORE can be    *)
(* cleared, as long as the software has not written USART_SR.              *)
THEOREM UartOverrunReported == Spec => []OverrunReported
  <1>1. DriverInv => OverrunReported
    BY DEF DriverInv, OverrunKept, OverrunReported
  <1> QED
    BY <1>1, DriverInvariant, PTL

(* A transmission under way always has its timer armed, so none is left    *)
(* without a completion, as long as the software has not written USART_SR. *)
THEOREM UartTransmitHasTimer == Spec => []TransmitHasTimer
  BY DriverInvariant, PTL DEF DriverInv

-----------------------------------------------------------------------------
(* The driver                                                              *)

PCs == {"init", "enable", "main", "test", "send", "poll"}

(* The device is enabled once the driver is past its initialisation, and   *)
(* the transmit register is free whenever the driver is not polling for it.*)
DriverReady ==
    /\ halted = FALSE
    /\ pc \in PCs
    /\ pc \notin {"init", "enable"} => CR1 = TxEnabled
    /\ pc # "poll" => SR.TXE = 1

(* A text that ends before the index of println wraps.                     *)
ShortText == Len(Text) < IndexMod

IndexOK ==
    /\ i \in 0..Len(Text)
    /\ pc \in {"send", "poll"} => i < Len(Text)

ReadyInv == UartInv /\ DriverReady /\ IndexOK

(* The characters of the text are values written to USART_DR.              *)
LEMMA TextTyped ==
    Len(Text) \in Nat /\ \A n \in 1..Len(Text) : Text[n] \in DRValues /\ Text[n] \in Nat
<1>1. Text \in Seq(DRValues) /\ \A v \in DRValues : v \in Nat
  BY SerialAssumption, UartAssumption
<1>2. Len(Text) \in Nat /\ \A n \in 1..Len(Text) : Text[n] \in DRValues
  BY <1>1
<1> QED
  BY <1>1, <1>2

(* The index does not wrap below its range.                                *)
LEMMA ModSmall == \A x \in Nat, m \in Nat : x < m => x % m = x
<1> SUFFICES ASSUME NEW x \in Nat, NEW m \in Nat, x < m
             PROVE  x % m = x
  OBVIOUS
<1> QED
  BY SMT

(* A step of the program or of the machine is a step of the USART, or      *)
(* leaves it alone.                                                        *)
LEMMA DeviceStep == IndexOK /\ [SerialNext]_serialVars => [Next]_vars
<1> SUFFICES ASSUME IndexOK, [SerialNext]_serialVars
             PROVE  Next \/ UNCHANGED vars
  OBVIOUS
<1>1. CASE init_usart2
  <2>1. TxMode \in CR1Writes
    BY SerialAssumption
  <2> QED
    BY <1>1, <2>1, Zenon DEF init_usart2, Next
<1>2. CASE enable_rs232
  <2>1. TxEnabled \in CR1Writes
    BY SerialAssumption
  <2> QED
    BY <1>2, <2>1, Zenon DEF enable_rs232, Next
<1>3. CASE println \/ println_test
  BY <1>3 DEF println, println_test
<1>4. CASE send_byte_wait
  BY <1>4 DEF send_byte_wait, Next
<1>5. CASE Machine
  BY <1>5 DEF Machine, Next
<1>6. CASE machine_reset
  BY <1>6 DEF machine_reset, Next
<1>7. CASE UNCHANGED serialVars
  BY <1>7 DEF serialVars
<1>8. CASE send_byte
  <2>1. i + 1 \in 1..Len(Text)
    BY <1>8, TextTyped DEF send_byte, IndexOK
  <2>2. Text[i + 1] \in DRValues /\ Pin \in PinConfigs
    BY <2>1, TextTyped DEF Pin, PinConfigs
  <2> QED
    BY <1>8, <2>2 DEF send_byte, Next
<1> QED
  BY <1>1, <1>2, <1>3, <1>4, <1>5, <1>6, <1>7, <1>8 DEF SerialNext, Program

(* println stays within its text.                                          *)
LEMMA IndexStep ==
    ASSUME ShortText
    PROVE  IndexOK /\ pc \in PCs /\ [SerialNext]_serialVars => IndexOK' /\ pc' \in PCs
<1> SUFFICES ASSUME IndexOK, pc \in PCs, [SerialNext]_serialVars
             PROVE  IndexOK' /\ pc' \in PCs
  OBVIOUS
<1> USE TextTyped DEF IndexOK, PCs
<1>1. CASE init_usart2 \/ enable_rs232 \/ send_byte
  BY <1>1, Zenon DEF init_usart2, enable_rs232, send_byte
<1>2. CASE println \/ println_test
  BY <1>2 DEF println, println_test
<1>3. CASE send_byte_wait
  <2>1. CASE SR.TXE = 1 /\ pc' = "test" /\ i' = (i + 1) % IndexMod
    <3>1. i + 1 \in Nat /\ i + 1 <= Len(Text) /\ IndexMod \in Nat /\ i + 1 < IndexMod
      BY <1>3, SerialAssumption DEF send_byte_wait, ShortText
    <3>2. i' = i + 1
      BY <2>1, <3>1, ModSmall, Zenon
    <3> QED
      BY <2>1, <3>1, <3>2
  <2>2. CASE UNCHANGED <<pc, i>>
    BY <2>2
  <2> QED
    BY <1>3, <2>1, <2>2 DEF send_byte_wait
<1>4. CASE Machine
  BY <1>4 DEF Machine, progVars
<1>5. CASE machine_reset
  BY <1>5 DEF machine_reset
<1>6. CASE UNCHANGED serialVars
  BY <1>6 DEF serialVars, progVars
<1> QED
  BY <1>1, <1>2, <1>3, <1>4, <1>5, <1>6 DEF SerialNext, Program

(* The driver writes only when the USART is ready for it: each step of the *)
(* program, the timers and a reset keep the invariant.                     *)
LEMMA ReadyStep ==
    ASSUME ShortText
    PROVE  ReadyInv /\ [SerialNext]_serialVars => ReadyInv'
<1> SUFFICES ASSUME ReadyInv, [SerialNext]_serialVars
             PROVE  ReadyInv'
  OBVIOUS
<1>1. UartInv' /\ IndexOK' /\ pc' \in PCs
  BY DeviceStep, UartInvStep, IndexStep DEF ReadyInv, DriverReady
<1> SUFFICES halted' = FALSE /\ (pc' \notin {"init", "enable"} => CR1' = TxEnabled)
             /\ (pc' # "poll" => SR'.TXE = 1)
  BY <1>1 DEF ReadyInv, DriverReady
<1>0. SR \in SRFlags
  BY DEF ReadyInv, UartInv, TypeOK
<1> USE DEF ReadyInv, DriverReady, PCs
<1>2. CASE init_usart2 \/ enable_rs232
  BY <1>2 DEF init_usart2, enable_rs232, CR1_write, hw_error
<1>3. CASE println \/ println_test
  BY <1>3 DEF println, println_test, vars
<1>4. CASE send_byte
  <2>1. tx_ready(Pin) /\ SR.TXE = 1
    BY <1>4, Zenon DEF send_byte, tx_ready, Pin, TxEnabled, TxMode, ResetCR1
  <2> QED
    BY <1>4, <2>1 DEF send_byte, DR_write
<1>5. CASE send_byte_wait
  BY <1>5 DEF send_byte_wait, SR_read
<1>6. CASE Machine
  <2>1. UNCHANGED <<pc, CR1, halted>>
    BY <1>6 DEF Machine, progVars, tx_timer_expire, chr_read_poll, rx_timer_expire,
       receive
  <2>2. SR.TXE = 1 => SR'.TXE = 1
    <3>1. CASE tx_timer_expire
      BY <3>1, <1>0 DEF tx_timer_expire, SRFlags
    <3>2. CASE chr_read_poll \/ rx_timer_expire
      BY <3>2 DEF chr_read_poll, rx_timer_expire
    <3>3. CASE \E c \in Chars : receive(c)
      BY <3>3, <1>0 DEF receive, SRFlags
    <3> QED
      BY <1>6, <3>1, <3>2, <3>3 DEF Machine
  <2> QED
    BY <2>1, <2>2
<1>7. CASE machine_reset
  BY <1>7 DEF machine_reset, reset, ResetSR
<1>8. CASE UNCHANGED serialVars
  BY <1>8 DEF serialVars, progVars, vars
<1> QED
  BY <1>2, <1>3, <1>4, <1>5, <1>6, <1>7, <1>8, Zenon DEF SerialNext, Program

(* The invariant holds at power-on.                                        *)
LEMMA ReadyInit == SerialInit => ReadyInv
<1> SUFFICES ASSUME SerialInit
             PROVE  ReadyInv
  OBVIOUS
<1>1. UartInv
  BY InitUartInv DEF SerialInit
<1>2. DriverReady /\ IndexOK
  BY TextTyped DEF SerialInit, Init, DriverReady, IndexOK, PCs, ResetSR
<1> QED
  BY <1>1, <1>2 DEF ReadyInv

(* The polling driver never makes the emulator abort: it writes USART_DR   *)
(* only while the device is enabled and its transmit register is free.     *)
THEOREM SerialNoAbort ==
    ASSUME ShortText PROVE SerialSpec => []NoAbort
<1>1. ReadyInv => NoAbort
  BY DEF ReadyInv, DriverReady, NoAbort
<1> QED
  BY <1>1, ReadyInit, ReadyStep, PTL DEF SerialSpec
-----------------------------------------------------------------------------
(* All that was accepted for transmission, parked character included.      *)
Out == chr_out \o parked

sentNow == IF pc = "poll" THEN i + 1 ELSE i

PrintInv ==
    /\ start \in Nat
    /\ pc \in {"test", "send", "poll"} =>
         /\ Len(Out) = start + sentNow
         /\ \A n \in 1..sentNow : Out[start + n] = wire_byte(Text[n])

(* What was accepted is a sequence of bytes, as long as accepted says.     *)
LEMMA OutTyped ==
    ASSUME UartInv
    PROVE  /\ Out \in Seq(Byte) /\ Len(Out) = accepted /\ Len(chr_out) \in Nat
           /\ Len(Out) \in Nat
<1>1. /\ chr_out \in Seq(Byte) /\ SR.TXE \in {0, 1} /\ wire_byte(TDR) \in Byte
  BY WireWidth DEF UartInv, TypeOK, SRFlags, Bit
<1>2. CASE SR.TXE = 1
  <2>1. parked = <<>>
    BY <1>2 DEF parked
  <2> QED
    BY <1>1, <1>2, <2>1 DEF Out, accepted
<1>3. CASE SR.TXE = 0
  <2>1. parked = <<wire_byte(TDR)>>
    BY <1>3 DEF parked
  <2> QED
    BY <1>1, <1>3, <2>1 DEF Out, accepted
<1> QED
  BY <1>1, <1>2, <1>3

(* A write to USART_DR appends its byte to what was accepted; no other     *)
(* handler but reset changes it.                                           *)
LEMMA OutAppended ==
    ASSUME UartInv, SR.TXE = 1, tx_ready(Pin), NEW v \in Nat, DR_write(v, Pin)
    PROVE  Out' = Append(Out, wire_byte(v))
<1>1. /\ chr_out \in Seq(Byte) /\ SR \in SRFlags
      /\ wire_byte(write_value(v)) = wire_byte(v)
  BY WireOfMasked DEF UartInv, TypeOK
<1>2. parked = <<>> /\ Out = chr_out
  BY <1>1 DEF parked, Out
<1>3. CASE SR.TC = 1
  <2>1. start_tx(SR, write_value(v))
    BY <1>3, tx_ready(Pin) DEF DR_write
  <2>2. chr_out' = Append(chr_out, wire_byte(v)) /\ SR'.TXE = 1
    BY <1>1, <2>1 DEF start_tx, SRFlags
  <2>3. parked' = <<>> /\ chr_out' \in Seq(Byte \cup {wire_byte(v)})
    BY <2>2, <1>1 DEF parked
  <2> QED
    BY <1>2, <2>2, <2>3 DEF Out
<1>4. CASE SR.TC # 1
  <2>1. TDR' = write_value(v) /\ SR' = [SR EXCEPT !.TXE = 0] /\ chr_out' = chr_out
    BY <1>4 DEF DR_write
  <2>2. SR'.TXE = 0
    BY <1>1, <2>1 DEF SRFlags
  <2>3. parked' = <<wire_byte(v)>>
    BY <1>1, <2>1, <2>2 DEF parked
  <2> QED
    BY <1>1, <1>2, <2>1, <2>3 DEF Out
<1> QED
  BY <1>3, <1>4

(* Handlers that touch neither TXE, TDR nor the output keep it.            *)
LEMMA OutKept ==
    ASSUME UartInv, UartInv', SR'.TXE = SR.TXE, TDR' = TDR, chr_out' = chr_out
    PROVE  Out' = Out
  BY DEF Out, parked

(* The transmit timer moves the parked character and changes nothing else. *)
LEMMA OutTransmitted ==
    ASSUME UartInv, tx_timer_expire
    PROVE  Out' = Out
<1>1. chr_out \in Seq(Byte) /\ SR \in SRFlags /\ wire_byte(TDR) \in Byte
  BY WireWidth DEF UartInv, TypeOK
<1>2. CASE SR.TXE = 1
  <2>1. SR' = [SR EXCEPT !.TC = 1] /\ chr_out' = chr_out /\ TDR' = TDR
    BY <1>2 DEF tx_timer_expire
  <2>2. SR'.TXE = 1
    BY <1>1, <1>2, <2>1 DEF SRFlags
  <2> QED
    BY <1>2, <2>1, <2>2, Zenon DEF Out, parked
<1>3. CASE SR.TXE = 0
  <2>1. start_tx([SR EXCEPT !.TXE = 1], TDR)
    BY <1>3 DEF tx_timer_expire
  <2>2. chr_out' = Append(chr_out, wire_byte(TDR)) /\ SR'.TXE = 1
    BY <1>1, <2>1 DEF start_tx, SRFlags
  <2>3. parked' = <<>> /\ parked = <<wire_byte(TDR)>>
    BY <1>3, <2>2 DEF parked
  <2> QED
    BY <1>1, <2>2, <2>3 DEF Out
<1> QED
  BY <1>1, <1>2, <1>3 DEF SRFlags, Bit

(* Each step keeps the characters accepted since the call equal to the     *)
(* text so far.                                                            *)
LEMMA PrintStep ==
    ASSUME ShortText
    PROVE  ReadyInv /\ PrintInv /\ [SerialNext]_serialVars => PrintInv'
<1> SUFFICES ASSUME ReadyInv, PrintInv, [SerialNext]_serialVars
             PROVE  PrintInv'
  OBVIOUS
<1>1. ReadyInv' /\ UartInv' /\ UartInv
  BY ReadyStep DEF ReadyInv
<1>2. /\ Out \in Seq(Byte) /\ Len(Out) = accepted /\ Len(chr_out) \in Nat
      /\ Len(Out) \in Nat
  BY <1>1, OutTyped
<1>3. i \in 0..Len(Text) /\ Len(Text) \in Nat /\ start \in Nat
  BY TextTyped DEF ReadyInv, IndexOK, PrintInv
<1>4. ASSUME Out' = Out, UNCHANGED <<pc, i, start>>
      PROVE  PrintInv'
  BY <1>4 DEF PrintInv, sentNow
<1>5. CASE init_usart2 \/ enable_rs232
  BY <1>5, <1>3, Zenon DEF init_usart2, enable_rs232, PrintInv
<1>6. CASE println
  <2>1. Out' = Out
    BY <1>6, <1>1, OutKept DEF println, vars, txVars
  <2>2. start' = Len(Out) /\ i' = 0 /\ pc' = "test"
    BY <1>6, <1>2 DEF println
  <2> QED
    BY <2>1, <2>2, <1>2 DEF PrintInv, sentNow
<1>7. CASE println_test
  <2>1. Out' = Out
    BY <1>7, <1>1, OutKept DEF println_test, vars, txVars
  <2>2. start' = start /\ i' = i /\ pc' \in {"main", "send"} /\ pc = "test"
    BY <1>7 DEF println_test
  <2> QED
    BY <2>1, <2>2, <1>3 DEF PrintInv, sentNow
<1>8. CASE send_byte
  <2>1. tx_ready(Pin) /\ SR.TXE = 1
    BY <1>8, Zenon DEF send_byte, tx_ready, Pin, TxEnabled, TxMode, ResetCR1, ReadyInv,
       DriverReady
  <2>2. i + 1 \in 1..Len(Text)
    BY <1>8, <1>3 DEF send_byte, ReadyInv, IndexOK
  <2>3. Text[i + 1] \in Nat
    BY <2>2, TextTyped
  <2>4. Out' = Append(Out, wire_byte(Text[i + 1]))
    BY <1>1, <1>8, <2>1, <2>3, OutAppended DEF send_byte
  <2>5. pc = "send" /\ pc' = "poll" /\ i' = i /\ start' = start
    BY <1>8 DEF send_byte
  <2>6. /\ Len(Out) = start + i
        /\ \A n \in 1..i : Out[start + n] = wire_byte(Text[n])
    BY <2>5 DEF PrintInv, sentNow
  <2>7. /\ Len(Out') = start + i + 1
        /\ Out'[start + i + 1] = wire_byte(Text[i + 1])
        /\ \A n \in 1..Len(Out) : Out'[n] = Out[n]
    BY <1>2, <2>4, <2>6
  <2>8. \A n \in 1..(i + 1) : Out'[start + n] = wire_byte(Text[n])
    <3> TAKE n \in 1..(i + 1)
    <3>1. CASE n = i + 1
      BY <3>1, <2>7, <1>3
    <3>2. CASE n # i + 1
      <4>1. n \in 1..i /\ start + n \in 1..Len(Out)
        BY <3>2, <2>6, <1>3
      <4> QED
        BY <4>1, <2>6, <2>7
    <3> QED
      BY <3>1, <3>2
  <2>9. sentNow' = i + 1
    BY <2>5 DEF sentNow
  <2> QED
    BY <2>5, <2>7, <2>8, <2>9, <1>3 DEF PrintInv
<1>9. CASE send_byte_wait
  <2>1. Out' = Out /\ start' = start /\ pc = "poll"
    BY <1>9, <1>1, OutKept DEF send_byte_wait, SR_read, txVars
  <2>2. CASE UNCHANGED <<pc, i>>
    BY <2>1, <2>2, <1>4
  <2>3. CASE pc' = "test" /\ i' = (i + 1) % IndexMod
    <3>1. i + 1 \in Nat /\ i + 1 < IndexMod /\ IndexMod \in Nat
      BY <1>3, <2>1, SerialAssumption DEF ShortText, ReadyInv, IndexOK
    <3>2. i' = i + 1
      BY <2>3, <3>1, ModSmall
    <3> QED
      BY <2>1, <2>3, <3>2 DEF PrintInv, sentNow
  <2> QED
    BY <1>9, <2>2, <2>3 DEF send_byte_wait
<1>10. CASE Machine
  <2>1. UNCHANGED <<pc, i, start>>
    BY <1>10 DEF Machine, progVars
  <2>2. CASE tx_timer_expire
    BY <1>1, <1>4, <2>1, <2>2, OutTransmitted
  <2>3. CASE chr_read_poll \/ rx_timer_expire
    BY <1>1, <1>4, <2>1, <2>3, OutKept DEF chr_read_poll, rx_timer_expire, txVars
  <2>4. CASE \E c \in Chars : receive(c)
    <3>1. SR'.TXE = SR.TXE /\ TDR' = TDR /\ chr_out' = chr_out
      BY <2>4, <1>1 DEF receive, txVars, UartInv, TypeOK, SRFlags
    <3> QED
      BY <1>1, <1>4, <2>1, <3>1, OutKept
  <2> QED
    BY <1>10, <2>2, <2>3, <2>4 DEF Machine
<1>11. CASE machine_reset
  BY <1>11, <1>2 DEF machine_reset, PrintInv
<1>12. CASE UNCHANGED serialVars
  BY <1>12, <1>1, <1>4, OutKept DEF serialVars, progVars, vars, txVars
<1> QED
  BY <1>5, <1>6, <1>7, <1>8, <1>9, <1>10, <1>11, <1>12 DEF SerialNext, Program

(* What println has handed to the USART is its text so far, whatever the   *)
(* timer and the character device do meanwhile, after any reset.           *)
THEOREM SerialPrintsText ==
    ASSUME ShortText PROVE SerialSpec => []PrintsText
<1>1. SerialInit => PrintInv
  BY DEF SerialInit, PrintInv
<1>2. ReadyInv /\ PrintInv => PrintsText
  <2> SUFFICES ASSUME ReadyInv, PrintInv, pc \in {"test", "send", "poll"}
               PROVE  printed = [n \in 1..sentNow |-> wire_byte(Text[n])]
    BY DEF PrintsText, sentNow
  <2>1. /\ Out \in Seq(Byte) /\ Len(Out) = accepted /\ Len(Out) \in Nat
    BY OutTyped DEF ReadyInv
  <2>2. sentNow \in Nat /\ start \in Nat /\ accepted = start + sentNow
    BY <2>1, TextTyped DEF ReadyInv, IndexOK, PrintInv, sentNow
  <2>3. SubSeq(Out, start + 1, accepted) = [n \in 1..sentNow |-> Out[start + n]]
    BY <2>1, <2>2
  <2> QED
    BY <2>3, Zenon DEF PrintInv, printed, Out
<1> QED
  BY <1>1, <1>2, ReadyInit, ReadyStep, PrintStep, PTL DEF SerialSpec
=============================================================================
