-------------------------------- MODULE Afio --------------------------------
(***************************************************************************)
(* The line routing of the alternate-function controller                   *)
(* (hw/gpio/stm32_afio.c): which port drives each EXTI line.  Port 0 is    *)
(* GPIOA.                                                                  *)
(***************************************************************************)
EXTENDS Integers

CONSTANT Lines

VARIABLES
    AFIO_EXTICR,  \* the port selected for each line
    in_irq        \* <<port, line>>: the pins connected to their EXTI line

afioVars == <<AFIO_EXTICR, in_irq>>

(* Four lines are configured by each of the four registers.                *)
cr_lines(index) == {l \in Lines : l \div 4 = index}

pins_of(cr, lines) == {<<cr[l], l>> : l \in lines}

(* Mutant of EXTICR_write: the port selected before stays connected.       *)
EXTICR_write_keeps_old(index, value) ==
    /\ in_irq' = in_irq \cup pins_of(value, cr_lines(index))
    /\ AFIO_EXTICR' = [l \in Lines |-> IF l \in cr_lines(index) THEN value[l]
                                       ELSE AFIO_EXTICR[l]]

(* All four lines are disconnected from the port that the register named   *)
(* and connected to the one that it names now, changed or not.             *)
EXTICR_write(index, value) ==
    /\ in_irq' = (in_irq \ pins_of(AFIO_EXTICR, cr_lines(index)))
                   \cup pins_of(value, cr_lines(index))
    /\ AFIO_EXTICR' = [l \in Lines |-> IF l \in cr_lines(index) THEN value[l]
                                       ELSE AFIO_EXTICR[l]]

(* A reset connects port A and disconnects nothing.                        *)
reset ==
    /\ AFIO_EXTICR' = [l \in Lines |-> 0]
    /\ in_irq' = in_irq \cup pins_of(AFIO_EXTICR', Lines)

Init ==
    /\ AFIO_EXTICR = [l \in Lines |-> 0]
    /\ in_irq = pins_of(AFIO_EXTICR, Lines)
=============================================================================
