-------------------------------- MODULE Nvic --------------------------------
(***************************************************************************)
(* The interrupt controller of the core (hw/intc/arm_gic.c as an NVIC) for *)
(* level triggered interrupts of one priority, so that none preempts       *)
(* another.  An interrupt is named by the EXTI output that raises it.      *)
(***************************************************************************)
EXTENDS Integers

CONSTANT Irqs

VARIABLES
    irq,          \* the level of each input
    enabled, pending,
    running       \* the interrupt being served, or NoIrq

nvicVars == <<enabled, pending, running>>

NoIrq == 1023

(* The reaction to the inputs that change in a step.  A rising input makes *)
(* an enabled interrupt pending; a falling one withdraws nothing.          *)
gic_set_irq ==
    /\ pending' = pending \cup {i \in enabled : irq[i] = 0 /\ irq'[i] = 1}
    /\ UNCHANGED <<enabled, running>>

(* A raised input is pending as soon as it is enabled.                     *)
set_enable(i) ==
    /\ enabled' = enabled \cup {i}
    /\ pending' = pending \cup {j \in {i} : irq[j] = 1}
    /\ UNCHANGED <<irq, running>>

(* The lowest number goes first.                                           *)
gic_acknowledge_irq(i) ==
    /\ running = NoIrq
    /\ i \in pending \cap enabled
    /\ \A j \in pending \cap enabled : i <= j
    /\ pending' = pending \ {i}
    /\ running' = i
    /\ UNCHANGED <<irq, enabled>>

(* Mutant of gic_complete_irq: an input that is still raised is forgotten. *)
gic_complete_irq_forgets ==
    /\ running' = NoIrq
    /\ UNCHANGED <<irq, enabled, pending>>

(* An input that is still raised is served again.                          *)
gic_complete_irq ==
    /\ pending' = pending \cup {i \in enabled \cap {running} : irq[i] = 1}
    /\ running' = NoIrq
    /\ UNCHANGED <<irq, enabled>>

Init == enabled = {} /\ pending = {} /\ running = NoIrq

reset == enabled' = {} /\ pending' = {} /\ running' = NoIrq
=============================================================================
