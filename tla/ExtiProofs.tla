----------------------------- MODULE ExtiProofs -----------------------------
(* Proofs about Exti for every set of lines in use.                        *)
EXTENDS Exti, TLAPS

(* Line 19, which has no NVIC input, is never left pending.                *)
ExtiInv ==
    /\ TypeOK /\ IrqMeansPending /\ OwnInputRaised
    /\ ~halted => 19 \notin EXTI_PR

(* Two lines with the same NVIC input are equal or both shared.            *)
LEMMA OwnInput ==
    ASSUME NEW p \in 0..18, NEW q \in 0..19, irq_of(p) = irq_of(q)
    PROVE /\ irq_of(p) \in Irqs
          /\ ~shared(p) => p = q
  BY DEF irq_of, shared, Irqs

LEMMA LinesRange == Lines \subseteq 0..19
  BY ExtiAssumption

(* What a change of pending bits does to the levels.                       *)
LEMMA DriveLevels ==
    ASSUME TypeOK, NEW lines \in SUBSET Lines, NEW level \in {0, 1}
    PROVE drive(lines, level) \in [Irqs -> {0, 1}]
  BY DEF drive, TypeOK

LEMMA SetPRStep ==
    ASSUME ExtiInv, ~halted, NEW lines \in SUBSET Lines, set_PR(lines)
    PROVE /\ EXTI_PR' \subseteq Lines /\ irq' \in [Irqs -> {0, 1}]
          /\ halted' \in BOOLEAN
          /\ IrqMeansPending' /\ OwnInputRaised'
          /\ ~halted' => 19 \notin EXTI_PR'
  <1> DEFINE changed == lines \ EXTI_PR
  <1>1. /\ EXTI_PR' = EXTI_PR \cup changed
        /\ irq' = drive(changed, 1)
        /\ halted' = (19 \in changed)
    BY DEF set_PR
  <1>2. irq' \in [Irqs -> {0, 1}]
    BY <1>1, DriveLevels DEF ExtiInv
  <1>3. EXTI_PR' \subseteq Lines
    BY <1>1 DEF ExtiInv, TypeOK
  <1>4. ~halted' => 19 \notin EXTI_PR'
    BY <1>1, Zenon DEF ExtiInv
  <1>5. \A i \in Irqs : irq'[i] = IF \E pos \in changed : irq_of(pos) = i
                                  THEN 1 ELSE irq[i]
    BY <1>1 DEF drive
  <1>6. IrqMeansPending'
    BY <1>1, <1>5 DEF ExtiInv, IrqMeansPending
  <1>7. OwnInputRaised'
    <2> SUFFICES ASSUME ~halted', NEW pos \in EXTI_PR', ~shared(pos)
                 PROVE irq'[irq_of(pos)] = 1
      BY DEF OwnInputRaised, shared
    <2>1. pos \in 0..18
      BY <1>3, <1>4, LinesRange
    <2>2. irq_of(pos) \in Irqs
      BY <2>1, OwnInput
    <2>3. pos \in changed => irq'[irq_of(pos)] = 1
      BY <1>5, <2>2
    <2>4. pos \in EXTI_PR => irq[irq_of(pos)] = 1
      BY DEF ExtiInv, OwnInputRaised
    <2> QED
      BY <1>1, <1>5, <2>2, <2>3, <2>4
  <1>8. halted' \in BOOLEAN
    BY <1>1
  <1> QED
    BY <1>2, <1>3, <1>4, <1>6, <1>7, <1>8

LEMMA ClearPRStep ==
    ASSUME ExtiInv, ~halted, NEW lines \in SUBSET Lines, clear_PR(lines)
    PROVE /\ EXTI_PR' \subseteq Lines /\ irq' \in [Irqs -> {0, 1}]
          /\ EXTI_SWIER' \subseteq Lines
          /\ halted' \in BOOLEAN
          /\ IrqMeansPending' /\ OwnInputRaised'
          /\ ~halted' => 19 \notin EXTI_PR'
  <1> DEFINE changed == lines \cap EXTI_PR
  <1>1. /\ EXTI_PR' = EXTI_PR \ changed
        /\ EXTI_SWIER' = EXTI_SWIER \ changed
        /\ irq' = drive(changed, 0)
        /\ halted' = (19 \in changed)
    BY DEF clear_PR
  <1>2. irq' \in [Irqs -> {0, 1}]
    BY <1>1, DriveLevels DEF ExtiInv
  <1>3. EXTI_PR' \subseteq Lines /\ EXTI_SWIER' \subseteq Lines
    BY <1>1 DEF ExtiInv, TypeOK
  <1>4. ~halted' => 19 \notin EXTI_PR'
    BY <1>1 DEF ExtiInv
  <1>5. \A i \in Irqs : irq'[i] = IF \E pos \in changed : irq_of(pos) = i
                                  THEN 0 ELSE irq[i]
    BY <1>1 DEF drive
  <1>6. IrqMeansPending'
    <2> SUFFICES ASSUME NEW i \in Irqs, irq'[i] = 1
                 PROVE \E pos \in EXTI_PR' : irq_of(pos) = i
      BY DEF IrqMeansPending
    <2>1. irq[i] = 1 /\ \A pos \in changed : irq_of(pos) # i
      BY <1>5
    <2>2. PICK pos \in EXTI_PR : irq_of(pos) = i
      BY <2>1 DEF ExtiInv, IrqMeansPending
    <2> QED
      BY <1>1, <2>1, <2>2
  <1>7. OwnInputRaised'
    <2> SUFFICES ASSUME ~halted', NEW pos \in EXTI_PR', ~shared(pos)
                 PROVE irq'[irq_of(pos)] = 1
      BY DEF OwnInputRaised, shared
    <2>1. pos \in EXTI_PR /\ pos \notin changed
      BY <1>1
    <2>2. pos \in 0..18 /\ changed \subseteq 0..19
      <3>1. pos \in Lines /\ pos # 19
        BY <1>3, <1>4
      <3>2. pos \in 0..18
        BY <3>1, LinesRange
      <3>3. changed \subseteq Lines
        OBVIOUS
      <3> QED
        BY <3>2, <3>3, LinesRange, Zenon
    <2>3. irq_of(pos) \in Irqs
      BY <2>2, OwnInput
    <2>4. \A q \in changed : irq_of(q) # irq_of(pos)
      BY <2>1, <2>2, OwnInput
    <2>5. irq[irq_of(pos)] = 1
      BY <2>1 DEF ExtiInv, OwnInputRaised
    <2> QED
      BY <1>5, <2>3, <2>4, <2>5
  <1>8. halted' \in BOOLEAN
    BY <1>1
  <1> QED
    BY <1>2, <1>3, <1>4, <1>6, <1>7, <1>8

LEMMA ExtiInvStep == ExtiInv /\ [Next]_vars => ExtiInv'
  <1> SUFFICES ASSUME ExtiInv, [Next]_vars PROVE ExtiInv'
    OBVIOUS
  <1> USE DEF TypeOK
  <1>1. ASSUME NEW pin \in Lines \cap 0..15, NEW level \in {0, 1},
               gpio_in_handler(pin, level)
        PROVE ExtiInv'
    <2> DEFINE edge == {pin} \cap (IF level = 1 THEN EXTI_RTSR ELSE EXTI_FTSR)
    <2>1. ~halted /\ set_PR(edge \cap EXTI_IMR)
      BY <1>1 DEF gpio_in_handler, trigger
    <2>2. edge \cap EXTI_IMR \in SUBSET Lines
      OBVIOUS
    <2> HIDE DEF edge
    <2> QED
      BY <1>1, <2>1, <2>2, SetPRStep DEF ExtiInv, gpio_in_handler
  <1>2. ASSUME NEW value \in SUBSET Lines, IMR_write(value) PROVE ExtiInv'
    BY <1>2 DEF ExtiInv, IMR_write, IrqMeansPending, OwnInputRaised
  <1>3. ASSUME NEW value \in SUBSET Lines, RTSR_write(value) PROVE ExtiInv'
    <2>1. differ(EXTI_RTSR, value) \in SUBSET Lines
      BY DEF differ, ExtiInv
    <2> QED
      BY <1>3, <2>1, ClearPRStep DEF ExtiInv, RTSR_write
  <1>4. ASSUME NEW value \in SUBSET Lines, FTSR_write(value) PROVE ExtiInv'
    <2>1. differ(EXTI_FTSR, value) \in SUBSET Lines
      BY DEF differ, ExtiInv
    <2> QED
      BY <1>4, <2>1, ClearPRStep DEF ExtiInv, FTSR_write
  <1>5. ASSUME NEW value \in SUBSET Lines, SWIER_write(value) PROVE ExtiInv'
    <2> DEFINE hit == (value \ EXTI_SWIER) \cap EXTI_IMR
    <2>1. ~halted /\ set_PR(hit)
      BY <1>5 DEF SWIER_write, trigger
    <2>2. hit \in SUBSET Lines
      OBVIOUS
    <2> HIDE DEF hit
    <2> QED
      BY <1>5, <2>1, <2>2, SetPRStep DEF ExtiInv, SWIER_write
  <1>6. ASSUME NEW value \in SUBSET Lines, PR_write(value) PROVE ExtiInv'
    BY <1>6, ClearPRStep DEF ExtiInv, PR_write
  <1>7. CASE reset
    BY <1>7 DEF ExtiInv, reset, IrqMeansPending, OwnInputRaised
  <1>8. CASE UNCHANGED vars
    BY <1>8 DEF ExtiInv, vars, IrqMeansPending, OwnInputRaised
  <1> QED
    BY <1>1, <1>2, <1>3, <1>4, <1>5, <1>6, <1>7, <1>8 DEF Next

LEMMA ExtiInvariant == Spec => []ExtiInv
  <1>1. Init => ExtiInv
    <2> SUFFICES ASSUME Init PROVE ExtiInv
      OBVIOUS
    <2>1. \A i \in Irqs : irq[i] = 0
      BY DEF Init
    <2>2. EXTI_PR = {} /\ halted \in BOOLEAN
      BY Zenon DEF Init
    <2>3. TypeOK
      BY <2>2 DEF Init, TypeOK
    <2>4. IrqMeansPending /\ OwnInputRaised
      BY <2>1, <2>2 DEF IrqMeansPending, OwnInputRaised
    <2> QED
      BY <2>2, <2>3, <2>4 DEF ExtiInv
  <1> QED
    BY <1>1, ExtiInvStep, PTL DEF Spec

(* The registers and the levels keep their types for every set of lines.   *)
THEOREM ExtiTypeCorrect == Spec => []TypeOK
  BY ExtiInvariant, PTL DEF ExtiInv

(* No NVIC input is high without a pending line behind it.                 *)
THEOREM ExtiIrqMeansPending == Spec => []IrqMeansPending
  BY ExtiInvariant, PTL DEF ExtiInv

(* A pending line with its own NVIC input holds that input high until it   *)
(* is cleared.                                                             *)
THEOREM ExtiOwnInputRaised == Spec => []OwnInputRaised
  BY ExtiInvariant, PTL DEF ExtiInv

(* A line that software never triggers while it is masked can be triggered *)
(* again once its pending bit in EXTI_PR is cleared.                       *)
THEOREM ExtiSwierRearmed == Spec => []SwierRearmed
  <1>1. Init => SwierRearmed
    BY DEF Init, SwierRearmed
  <1>2. SwierRearmed /\ [Next]_vars => SwierRearmed'
    BY Zenon DEF SwierRearmed, Next, vars, gpio_in_handler, IMR_write, RTSR_write,
           FTSR_write, SWIER_write, PR_write, reset, trigger, set_PR, clear_PR
  <1> QED
    BY <1>1, <1>2, PTL DEF Spec
=============================================================================
