----------------------------- MODULE GpioProofs -----------------------------
(* Proofs about Gpio for every set of pins.                                *)
EXTENDS Gpio, TLAPS

(* Registers keep their types, whatever is written to them.                *)
THEOREM GpioTypeCorrect == Spec => []TypeOK
  <1>1. Init => TypeOK
    BY DEF Init, TypeOK
  <1>2. TypeOK /\ [Next]_vars => TypeOK'
    <2> SUFFICES ASSUME TypeOK, [Next]_vars PROVE TypeOK'
      OBVIOUS
    <2> USE DEF TypeOK, set_irq, trigger_irq
    <2>1. ASSUME NEW pin \in Pins, NEW level \in {0, 1}, in_trigger(pin, level)
          PROVE TypeOK'
      BY <2>1 DEF in_trigger
    <2>2. ASSUME NEW cr_index \in {0, 1}, NEW value \in SUBSET Pins,
                 CRy_write(cr_index, value)
          PROVE TypeOK'
      BY <2>2 DEF CRy_write
    <2>3. ASSUME NEW value \in SUBSET Pins, ODR_write(value) PROVE TypeOK'
      BY <2>3 DEF ODR_write
    <2>4. ASSUME NEW value \in SUBSET Pins, BRR_write(value) PROVE TypeOK'
      BY <2>4 DEF BRR_write
    <2>5. ASSUME NEW v \in BSRRValues, BSRR_write(v[1], v[2]) PROVE TypeOK'
      <3>1. v[1] \in SUBSET Pins /\ v[2] \in SUBSET Pins
        BY GpioAssumption
      <3> QED
        BY <2>5, <3>1 DEF BSRR_write
    <2>6. CASE reset
      BY <2>6 DEF reset
    <2>7. CASE UNCHANGED vars
      BY <2>7 DEF vars
    <2> QED
      BY <2>1, <2>2, <2>3, <2>4, <2>5, <2>6, <2>7 DEF Next
  <1> QED
    BY <1>1, <1>2, PTL DEF Spec

(* Whatever is written to the registers, an output once written shows its  *)
(* bit of GPIOx_ODR until the upper half of BSRR resets it.                *)
THEOREM GpioOutputsFollowODR == Spec => []OutputsFollowODR
  <1>1. Init => OutputsFollowODR
    BY DEF Init, OutputsFollowODR
  <1>2. TypeOK /\ OutputsFollowODR /\ [Next]_vars => OutputsFollowODR'
    <2> SUFFICES ASSUME TypeOK, OutputsFollowODR, [Next]_vars
                 PROVE OutputsFollowODR'
      OBVIOUS
    <2> USE DEF TypeOK, OutputsFollowODR, set_irq, trigger_irq
    <2>1. ASSUME NEW pin \in Pins, NEW level \in {0, 1}, in_trigger(pin, level)
          PROVE OutputsFollowODR'
      BY <2>1 DEF in_trigger
    <2>2. ASSUME NEW cr_index \in {0, 1}, NEW value \in SUBSET Pins,
                 CRy_write(cr_index, value)
          PROVE OutputsFollowODR'
      BY <2>2 DEF CRy_write
    <2>3. ASSUME NEW value \in SUBSET Pins, ODR_write(value)
          PROVE OutputsFollowODR'
      BY <2>3 DEF ODR_write
    <2>4. ASSUME NEW value \in SUBSET Pins, BRR_write(value)
          PROVE OutputsFollowODR'
      BY <2>4 DEF BRR_write
    <2>5. ASSUME NEW v \in BSRRValues, BSRR_write(v[1], v[2])
          PROVE OutputsFollowODR'
      BY <2>5 DEF BSRR_write
    <2>6. CASE reset
      BY <2>6 DEF reset
    <2>7. CASE UNCHANGED vars
      BY <2>7 DEF vars
    <2> QED
      BY <2>1, <2>2, <2>3, <2>4, <2>5, <2>6, <2>7 DEF Next
  <1> QED
    BY <1>1, <1>2, GpioTypeCorrect, PTL DEF Spec
=============================================================================
