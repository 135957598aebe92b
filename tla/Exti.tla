-------------------------------- MODULE Exti --------------------------------
(***************************************************************************)
(* The external interrupt controller (hw/gpio/stm32_exti.c).  A register   *)
(* is the set of the lines whose bit is 1.  Handlers run one at a time:    *)
(* register accesses by the virtual CPU, pin changes, the machine reset.   *)
(***************************************************************************)
EXTENDS Integers

CONSTANTS Lines,        \* the lines the software and the pins use, of 20
          MaskedSWIER   \* the lines software may trigger while it masks them

ASSUME ExtiAssumption == Lines \subseteq 0..19 /\ MaskedSWIER \subseteq Lines

VARIABLES
    EXTI_IMR, EXTI_RTSR, EXTI_FTSR, EXTI_SWIER, EXTI_PR,
    irq,          \* the levels last driven on the ten NVIC inputs
    halted        \* an assertion failed

vars == <<EXTI_IMR, EXTI_RTSR, EXTI_FTSR, EXTI_SWIER, EXTI_PR, irq, halted>>

Irqs == 0..9

(* Mutant of irq_of: line 4 shares the input of lines 5 to 9.              *)
irq_of_off_by_one(pos) ==
    IF pos < 4 THEN pos
    ELSE IF pos <= 9 THEN 5
    ELSE IF pos <= 15 THEN 6
    ELSE pos - 9

(* Lines 5 to 9, and 10 to 15, share an NVIC input.                        *)
irq_of(pos) ==
    IF pos <= 4 THEN pos
    ELSE IF pos <= 9 THEN 5
    ELSE IF pos <= 15 THEN 6
    ELSE pos - 9

(* Mutant of drive: an input counts its pending lines.                     *)
drive_counts(lines, level) ==
    [i \in Irqs |-> IF \E pos \in lines : irq_of(pos) = i
                   THEN irq[i] + 2 * level - 1 ELSE irq[i]]

drive(lines, level) ==
    [i \in Irqs |-> IF \E pos \in lines : irq_of(pos) = i THEN level ELSE irq[i]]

(* stm32_exti_change_EXTI_PR_bit on each of the given lines, to 1 or to 0. *)
(* A bit that keeps its value is left alone.  Line 19 has no NVIC input:   *)
(* assert(false).                                                          *)
set_PR(lines) ==
    LET changed == lines \ EXTI_PR IN
    /\ EXTI_PR' = EXTI_PR \cup changed
    /\ irq' = drive(changed, 1)
    /\ halted' = (19 \in changed)

(* Mutants of clear_PR: the input stays high; SWIER keeps its bit.         *)
clear_PR_keeps_irq(lines) ==
    LET changed == lines \cap EXTI_PR IN
    /\ EXTI_PR' = EXTI_PR \ changed
    /\ EXTI_SWIER' = EXTI_SWIER \ changed
    /\ UNCHANGED <<irq, halted>>

clear_PR_keeps_SWIER(lines) ==
    LET changed == lines \cap EXTI_PR IN
    /\ EXTI_PR' = EXTI_PR \ changed
    /\ irq' = drive(changed, 0)
    /\ halted' = (19 \in changed)
    /\ UNCHANGED EXTI_SWIER

clear_PR(lines) ==
    LET changed == lines \cap EXTI_PR IN
    /\ EXTI_PR' = EXTI_PR \ changed
    /\ EXTI_SWIER' = EXTI_SWIER \ changed
    /\ irq' = drive(changed, 0)
    /\ halted' = (19 \in changed)

trigger(lines) == set_PR(lines \cap EXTI_IMR)

gpio_in_handler(pin, level) ==
    /\ ~halted
    /\ trigger({pin} \cap (IF level = 1 THEN EXTI_RTSR ELSE EXTI_FTSR))
    /\ UNCHANGED <<EXTI_IMR, EXTI_RTSR, EXTI_FTSR, EXTI_SWIER>>

IMR_write(value) ==
    /\ ~halted
    /\ EXTI_IMR' = value
    /\ UNCHANGED <<EXTI_RTSR, EXTI_FTSR, EXTI_SWIER, EXTI_PR, irq, halted>>

differ(a, b) == (a \ b) \cup (b \ a)

(* update_TSR_bit clears the pending bit of a line whose sensitivity       *)
(* changes.                                                                *)
RTSR_write(value) ==
    /\ ~halted
    /\ clear_PR(differ(EXTI_RTSR, value))
    /\ EXTI_RTSR' = value
    /\ UNCHANGED <<EXTI_IMR, EXTI_FTSR>>

FTSR_write(value) ==
    /\ ~halted
    /\ clear_PR(differ(EXTI_FTSR, value))
    /\ EXTI_FTSR' = value
    /\ UNCHANGED <<EXTI_IMR, EXTI_RTSR>>

(* Only a bit that changes from 0 to 1 triggers.                           *)
SWIER_write(value) ==
    /\ ~halted
    /\ value \subseteq EXTI_IMR \cup MaskedSWIER
    /\ trigger(value \ EXTI_SWIER)
    /\ EXTI_SWIER' = EXTI_SWIER \cup value
    /\ UNCHANGED <<EXTI_IMR, EXTI_RTSR, EXTI_FTSR>>

PR_write(value) ==
    /\ ~halted
    /\ clear_PR(value)
    /\ UNCHANGED <<EXTI_IMR, EXTI_RTSR, EXTI_FTSR>>

(* The registers are zeroed without a call of qemu_set_irq; the levels are *)
(* forgotten by the interrupt controller, which is reset with the machine. *)
reset ==
    /\ ~halted
    /\ EXTI_IMR' = {} /\ EXTI_RTSR' = {} /\ EXTI_FTSR' = {}
    /\ EXTI_SWIER' = {} /\ EXTI_PR' = {}
    /\ irq' = [i \in Irqs |-> 0]
    /\ UNCHANGED halted

Init ==
    /\ EXTI_IMR = {} /\ EXTI_RTSR = {} /\ EXTI_FTSR = {}
    /\ EXTI_SWIER = {} /\ EXTI_PR = {}
    /\ irq = [i \in Irqs |-> 0]
    /\ halted = FALSE

Next ==
    \/ \E pin \in Lines \cap 0..15, level \in {0, 1} : gpio_in_handler(pin, level)
    \/ \E value \in SUBSET Lines :
          \/ IMR_write(value) \/ RTSR_write(value) \/ FTSR_write(value)
          \/ SWIER_write(value) \/ PR_write(value)
    \/ reset

Spec == Init /\ [][Next]_vars
-----------------------------------------------------------------------------
(* Properties                                                              *)

(* Registers hold lines, inputs of the NVIC have a level.                  *)
TypeOK ==
    /\ EXTI_IMR \subseteq Lines /\ EXTI_RTSR \subseteq Lines
    /\ EXTI_FTSR \subseteq Lines /\ EXTI_SWIER \subseteq Lines
    /\ EXTI_PR \subseteq Lines
    /\ irq \in [Irqs -> {0, 1}]
    /\ halted \in BOOLEAN

(* An NVIC input is only high while one of its lines is pending: software  *)
(* that finds no pending line has not missed a level that stays up.        *)
IrqMeansPending ==
    \A i \in Irqs : irq[i] = 1 => \E pos \in EXTI_PR : irq_of(pos) = i

shared(pos) == pos \in 5..15

(* A pending line with an NVIC input of its own keeps that input high.     *)
OwnInputRaised ==
    ~halted => \A pos \in EXTI_PR : ~shared(pos) => irq[irq_of(pos)] = 1

(* SWIER is clear again whenever a line is no longer pending, so that      *)
(* software can trigger it once more, unless it triggers it while masked;  *)
(* triggers of other, masked, lines do no harm.                            *)
SwierRearmed == EXTI_SWIER \ MaskedSWIER \subseteq EXTI_PR
=============================================================================
