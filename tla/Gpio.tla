-------------------------------- MODULE Gpio --------------------------------
(***************************************************************************)
(* One GPIO port (hw/gpio/stm32_gpio.c).  A register is the set of the     *)
(* pins whose bit is 1; of the configuration registers only the direction  *)
(* that they give each pin is kept.  Handlers run one at a time.           *)
(***************************************************************************)
EXTENDS Integers

CONSTANTS Pins,          \* the pins of the port that are used, of 16
          BSRRValues     \* <<set, reset>>: what software writes to GPIOx_BSRR

ASSUME GpioAssumption ==
    /\ Pins \subseteq 0..15
    /\ BSRRValues \subseteq (SUBSET Pins) \X (SUBSET Pins)

VARIABLES
    in,           \* pins whose input is high
    GPIOx_ODR,
    dir_mask,     \* pins configured as outputs
    out,          \* pins whose output was last driven high
    settled       \* history: pins written since they are outputs, and not
                  \* reset since by the upper half of BSRR

vars == <<in, GPIOx_ODR, dir_mask, out, settled>>

(* qemu_set_irq on the outputs of the given pins, with their bit of odr.   *)
set_irq(pins, odr) ==
    out' = (out \ pins) \cup (pins \cap odr)

(* The level is also passed on to the EXTI line the pin is connected to    *)
(* (gpio_in_handler of Exti).                                              *)
in_trigger(pin, level) ==
    /\ in' = IF level = 1 THEN in \cup {pin} ELSE in \ {pin}
    /\ UNCHANGED <<GPIOx_ODR, dir_mask, out, settled>>

(* Pins 0 to 7 are configured by CRL, pins 8 to 15 by CRH.                 *)
cr_pins(cr_index) == {pin \in Pins : pin \div 8 = cr_index}

(* A write of CRL or CRH: stm32_gpio_update_dir drives nothing.            *)
CRy_write(cr_index, outputs) ==
    /\ dir_mask' = (dir_mask \ cr_pins(cr_index))
                     \cup (outputs \cap cr_pins(cr_index))
    /\ settled' = settled \cap dir_mask'
    /\ UNCHANGED <<in, GPIOx_ODR, out>>

(* Mutant of ODR_write: the outputs are driven with the old bits.          *)
ODR_write_old_bits(value) ==
    LET changed == (GPIOx_ODR \ value) \cup (value \ GPIOx_ODR) IN
    /\ GPIOx_ODR' = value
    /\ set_irq(changed \cap dir_mask, GPIOx_ODR)
    /\ settled' = settled \cup (changed \cap dir_mask)
    /\ UNCHANGED <<in, dir_mask>>

ODR_write(value) ==
    LET changed == (GPIOx_ODR \ value) \cup (value \ GPIOx_ODR) IN
    /\ GPIOx_ODR' = value
    /\ set_irq(changed \cap dir_mask, value)
    /\ settled' = settled \cup (changed \cap dir_mask)
    /\ UNCHANGED <<in, dir_mask>>

(* Mutant of trigger_irq: pins that are inputs are driven too.             *)
trigger_irq_any_pin(value, pin_nbr) ==
    /\ GPIOx_ODR' = value
    /\ set_irq(pin_nbr, value)
    /\ settled' = settled \cup pin_nbr
    /\ UNCHANGED <<in, dir_mask>>

(* stm32_gpio_trigger_irq drives the outputs among the pins it is given,   *)
(* changed or not, and only those: another bit that falls is not shown.    *)
trigger_irq(value, pin_nbr) ==
    /\ GPIOx_ODR' = value
    /\ set_irq(pin_nbr \cap dir_mask, value)
    /\ settled' = (settled \ (GPIOx_ODR \ value)) \cup (pin_nbr \cap dir_mask)
    /\ UNCHANGED <<in, dir_mask>>

(* The pins given are those of the lower half of the value written.        *)
BSRR_write(set, rst) ==
    trigger_irq((GPIOx_ODR \ rst) \cup set, set)

BRR_write(rst) ==
    trigger_irq(GPIOx_ODR \ rst, rst)

reset ==
    /\ GPIOx_ODR' = {} /\ dir_mask' = {}
    /\ set_irq(Pins, {})
    /\ settled' = {}
    /\ UNCHANGED in

Init ==
    /\ in = {} /\ GPIOx_ODR = {} /\ dir_mask = {} /\ out = {}
    /\ settled = {}

Next ==
    \/ \E pin \in Pins, level \in {0, 1} : in_trigger(pin, level)
    \/ \E cr_index \in {0, 1}, value \in SUBSET Pins : CRy_write(cr_index, value)
    \/ \E value \in SUBSET Pins : ODR_write(value) \/ BRR_write(value)
    \/ \E v \in BSRRValues : BSRR_write(v[1], v[2])
    \/ reset

Spec == Init /\ [][Next]_vars
-----------------------------------------------------------------------------
(* Properties                                                              *)

(* Registers hold pins.                                                    *)
TypeOK ==
    /\ in \subseteq Pins /\ GPIOx_ODR \subseteq Pins /\ dir_mask \subseteq Pins
    /\ out \subseteq Pins /\ settled \subseteq dir_mask

(* An output that was written since it is an output has the level of its   *)
(* bit in GPIOx_ODR, through any mix of ODR, BSRR and BRR writes, changes  *)
(* of direction and resets, as long as its last change was not a reset by  *)
(* the upper half of BSRR, which stm32_gpio_trigger_irq is not told of.    *)
OutputsFollowODR == \A p \in settled : p \in out <=> p \in GPIOx_ODR
=============================================================================
