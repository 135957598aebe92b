--------------------------- MODULE ButtonsProofs ---------------------------
(* Proofs about Buttons for every set of inputs and every bound.           *)
EXTENDS Buttons, TLAPS

(* No two of the lines in use share an input of the NVIC.                  *)
Exclusive == \A l, m \in Lines : Ex!irq_of(l) = Ex!irq_of(m) => l = m

(* Lines of pins are lines 0 to 15, and each has an NVIC input.            *)
LEMMA IrqOf == \A l \in Lines : l \in 0..15 /\ Ex!irq_of(l) \in 0..6
  BY ButtonsAssumption DEF Lines, line, Ex!irq_of

(* A line without a callback belongs to no input.                          *)
LEMMA NoneIsNoInput == None \notin Inputs
  BY ButtonsAssumption DEF None

(* What the accesses to Exti do to the pending lines and to the inputs of  *)
(* the NVIC.                                                               *)
Raised(S) ==
    /\ EXTI_PR' = EXTI_PR \cup S
    /\ irq' = [i \in Ex!Irqs |-> IF \E l \in S \ EXTI_PR : Ex!irq_of(l) = i
                                THEN 1 ELSE irq[i]]

Cleared(S) ==
    /\ EXTI_PR' = EXTI_PR \ S
    /\ irq' = [i \in Ex!Irqs |-> IF \E l \in S \cap EXTI_PR : Ex!irq_of(l) = i
                                THEN 0 ELSE irq[i]]

(* What a level from the board does to the EXTI registers of its line.     *)
LEMMA HandlerRaises ==
    ASSUME NEW l \in Lines, NEW lvl, Ex!gpio_in_handler(l, lvl)
    PROVE \/ Raised({l})
          \/ Raised({}) /\ ~(l \in EXTI_IMR \cap EXTI_RTSR \cap EXTI_FTSR)
  <1> DEFINE T == ({l} \cap (IF lvl = 1 THEN EXTI_RTSR ELSE EXTI_FTSR)) \cap EXTI_IMR
  <1>1. Raised(T)
    BY DEF Ex!gpio_in_handler, Ex!trigger, Ex!set_PR, Ex!drive, Raised
  <1>2. T = {l} \/ (T = {} /\ ~(l \in EXTI_IMR \cap EXTI_RTSR \cap EXTI_FTSR))
    OBVIOUS
  <1> HIDE DEF T
  <1> QED
    BY <1>1, <1>2

(* Register writes of the program clear pending lines and set none.        *)
LEMMA WritesClear ==
    ASSUME NEW V
    PROVE /\ Ex!PR_write(V) => Cleared(V)
          /\ Ex!RTSR_write(V) => \E S : Cleared(S)
          /\ Ex!FTSR_write(V) => \E S : Cleared(S)
          /\ Ex!IMR_write(V) => UNCHANGED <<EXTI_PR, irq>>
  <1>1. ASSUME NEW S, Ex!clear_PR(S) PROVE Cleared(S)
    <2>1. S \cap EXTI_PR = S \cap EXTI_PR /\ EXTI_PR' = EXTI_PR \ S
      BY <1>1 DEF Ex!clear_PR
    <2> QED
      BY <1>1, <2>1 DEF Ex!clear_PR, Ex!drive, Cleared
  <1>2. Ex!PR_write(V) => Cleared(V)
    BY <1>1 DEF Ex!PR_write
  <1>3. Ex!RTSR_write(V) => \E S : Cleared(S)
    BY <1>1 DEF Ex!RTSR_write
  <1>4. Ex!FTSR_write(V) => \E S : Cleared(S)
    BY <1>1 DEF Ex!FTSR_write
  <1>5. Ex!IMR_write(V) => UNCHANGED <<EXTI_PR, irq>>
    BY DEF Ex!IMR_write
  <1> QED
    BY <1>2, <1>3, <1>4, <1>5
-----------------------------------------------------------------------------
(* The lines and the NVIC                                                  *)

(* A line's input is high exactly while the line is pending, and an        *)
(* enabled interrupt whose line is pending is pending or being served.     *)
LineInv ==
    /\ EXTI_PR \subseteq Lines
    /\ irq \in [Ex!Irqs -> {0, 1}]
    /\ \A l \in Lines : irq[Ex!irq_of(l)] = 1 <=> l \in EXTI_PR
    /\ \A l \in EXTI_PR : Ex!irq_of(l) \in enabled =>
           Ex!irq_of(l) \in pending \/ running = Ex!irq_of(l)

(* Setting one pending line keeps the invariant of the lines.              *)
LEMMA RaisedLineInv ==
    ASSUME Exclusive, LineInv, NEW S \in SUBSET Lines, Raised(S), Nv!gic_set_irq
    PROVE LineInv'
  <1> USE IrqOf DEF LineInv, Raised, Ex!Irqs
  <1>1. EXTI_PR' \subseteq Lines /\ irq' \in [Ex!Irqs -> {0, 1}]
    OBVIOUS
  <1>2. \A l \in Lines : irq'[Ex!irq_of(l)] = 1 <=> l \in EXTI_PR'
    BY DEF Exclusive
  <1>3. \A l \in EXTI_PR' : Ex!irq_of(l) \in enabled' =>
           Ex!irq_of(l) \in pending' \/ running' = Ex!irq_of(l)
    <2> SUFFICES ASSUME NEW l \in EXTI_PR', Ex!irq_of(l) \in enabled
                 PROVE Ex!irq_of(l) \in pending' \/ running = Ex!irq_of(l)
      BY DEF Nv!gic_set_irq
    <2>1. CASE l \in EXTI_PR
      BY <2>1 DEF Nv!gic_set_irq
    <2>2. CASE l \notin EXTI_PR
      <3>1. l \in Lines /\ irq[Ex!irq_of(l)] = 0 /\ irq'[Ex!irq_of(l)] = 1
        BY <1>1, <1>2, <2>2
      <3> QED
        BY <3>1 DEF Nv!gic_set_irq
    <2> QED
      BY <2>1, <2>2
  <1> QED
    BY <1>1, <1>2, <1>3 DEF Ex!irq_of

(* Clearing pending lines keeps it.                                        *)
LEMMA ClearedLineInv ==
    ASSUME Exclusive, LineInv, NEW S, Cleared(S), Nv!gic_set_irq
    PROVE LineInv'
  <1> USE IrqOf DEF LineInv, Cleared, Ex!Irqs
  <1>1. EXTI_PR' \subseteq Lines /\ irq' \in [Ex!Irqs -> {0, 1}]
    OBVIOUS
  <1>2. \A l \in Lines : irq'[Ex!irq_of(l)] = 1 <=> l \in EXTI_PR'
    BY DEF Exclusive
  <1>3. \A l \in EXTI_PR' : Ex!irq_of(l) \in enabled' =>
           Ex!irq_of(l) \in pending' \/ running' = Ex!irq_of(l)
    BY DEF Nv!gic_set_irq
  <1> QED
    BY <1>1, <1>2, <1>3 DEF Ex!irq_of

(* It holds after power-on.                                                *)
LEMMA LineInvInit == Init => LineInv
  BY IrqOf DEF Init, Ex!Init, LineInv, Ex!Irqs

(* Every step keeps it: one case per action.                               *)
LEMMA LineInvStep == Exclusive /\ LineInv /\ [Next]_vars => LineInv'
  <1> SUFFICES ASSUME Exclusive, LineInv, [Next]_vars PROVE LineInv'
    OBVIOUS
  <1>0. ASSUME UNCHANGED <<EXTI_PR, irq, nvicVars>> PROVE LineInv'
    BY <1>0 DEF nvicVars, LineInv, Ex!irq_of
  <1>1. CASE Handler
    <2>1. CASE take_interrupt
      <3>1. PICK i \in Ex!Irqs : Nv!gic_acknowledge_irq(i)
        BY <2>1 DEF take_interrupt
      <3>2. UNCHANGED <<EXTI_PR, irq, enabled>> /\ running = Nv!NoIrq
        BY <2>1, <3>1 DEF take_interrupt, Nv!gic_acknowledge_irq, extiRegs
      <3>3. pending' = pending \ {i} /\ running' = i
        BY <3>1 DEF Nv!gic_acknowledge_irq
      <3>4. \A l \in Lines : Ex!irq_of(l) # Nv!NoIrq
        BY IrqOf DEF Nv!NoIrq
      <3> QED
        BY <3>2, <3>3, <3>4 DEF LineInv, Ex!irq_of
    <2>2. ASSUME NEW l \in Lines, checkLineFlag(l) PROVE LineInv'
      BY <1>0, <2>2 DEF checkLineFlag, extiVars, extiRegs
    <2>3. CASE callIsr \/ assert_fails
      BY <1>0, <2>3 DEF callIsr, assert_fails, extiVars, extiRegs
    <2>4. CASE clear_pending
      <3>1. Cleared({isr_line})
        BY <2>4, WritesClear DEF clear_pending
      <3> QED
        BY <2>4, <3>1, ClearedLineInv DEF clear_pending
    <2>5. CASE isr_return
      BY <2>5, IrqOf DEF isr_return, Nv!gic_complete_irq, extiRegs, LineInv, Ex!irq_of
    <2> QED
      BY <1>1, <2>1, <2>2, <2>3, <2>4, <2>5 DEF Handler
  <1>2. CASE Main
    <2>1. CASE EXTI_Init
      <3>1. ASSUME UNCHANGED <<EXTI_PR, irq>>, Nv!gic_set_irq PROVE LineInv'
        BY <3>1 DEF Nv!gic_set_irq, LineInv, Ex!irq_of
      <3>2. (\E S : Cleared(S)) \/ UNCHANGED <<EXTI_PR, irq>>
        BY <2>1, WritesClear DEF EXTI_Init
      <3> QED
        BY <2>1, <3>1, <3>2, ClearedLineInv DEF EXTI_Init
    <2>2. CASE NVIC_Init
      BY <2>2, IrqOf DEF NVIC_Init, Nv!set_enable, extiRegs, LineInv, Ex!irq_of
    <2>3. ASSUME NEW d \in Inputs, initialize(d) \/ unregisterInt(d) \/ read(d)
          PROVE LineInv'
      BY <1>0, <2>3 DEF initialize, unregisterInt, read, extiVars, extiRegs
    <2>4. CASE GPIO_EXTILineConfig \/ registerInt \/ read_store
      BY <1>0, <2>4 DEF GPIO_EXTILineConfig, route, registerInt, read_store, extiVars,
                        extiRegs
    <2> QED
      BY <1>2, <2>1, <2>2, <2>3, <2>4 DEF Main
  <1>3. CASE Board
    <2>1. ASSUME NEW d \in Wired, NEW lvl \in {0, 1}, in_trigger(d, lvl)
          PROVE LineInv'
      <3>1. line(d) \in Lines
        BY ButtonsAssumption DEF Lines
      <3>2. CASE UNCHANGED extiVars
        BY <2>1, <3>2 DEF in_trigger, extiVars, extiRegs, Nv!gic_set_irq, LineInv,
                          Ex!irq_of
      <3>3. CASE Ex!gpio_in_handler(line(d), lvl)
        <4>1. Raised({line(d)}) \/ Raised({})
          BY <3>1, <3>3, HandlerRaises
        <4> QED
          BY <2>1, <3>1, <4>1, RaisedLineInv DEF in_trigger
      <3> QED
        BY <2>1, <3>2, <3>3 DEF in_trigger
    <2>2. CASE machine_reset
      BY <2>2, IrqOf DEF machine_reset, Ex!reset, Nv!reset, LineInv, Ex!Irqs
    <2> QED
      BY <1>3, <2>1, <2>2 DEF Board
  <1>4. CASE UNCHANGED vars
    BY <1>0, <1>4 DEF vars, extiVars, extiRegs
  <1> QED
    BY <1>1, <1>2, <1>3, <1>4 DEF Next
-----------------------------------------------------------------------------
(* Types                                                                   *)

MainTyped ==
    /\ main_pc \in {"idle", "route_a", "route", "clear", "mask", "unmask",
                    "no_rise", "no_fall", "rise", "fall", "enable", "register",
                    "store"}
    /\ IF main_pc = "idle" THEN main_in = None ELSE main_in \in Inputs
    /\ main_val \in {"Invalid", "On", "Off"}
    /\ in \subseteq Inputs /\ unnoticed \subseteq Inputs

(* The main program keeps its place, its input and its value typed.        *)
LEMMA MainTypedStep == MainTyped /\ [Next]_vars => MainTyped'
  <1> SUFFICES ASSUME MainTyped, [Next]_vars PROVE MainTyped'
    OBVIOUS
  <1> USE DEF MainTyped, mainVars, at, return
  <1>1. CASE Handler
    BY <1>1 DEF Handler, take_interrupt, checkLineFlag, callIsr, clear_pending,
                isr_return, assert_fails
  <1>2. CASE Main
    <2>0. in' = in
      BY <1>2 DEF Main
    <2>1. ASSUME NEW d \in Inputs, initialize(d) \/ unregisterInt(d) \/ read(d)
          PROVE MainTyped'
      BY <2>0, <2>1 DEF initialize, unregisterInt, read, dropped, level
    <2>2. CASE GPIO_EXTILineConfig \/ NVIC_Init \/ registerInt \/ read_store
      BY <2>0, <2>2 DEF GPIO_EXTILineConfig, route, NVIC_Init, registerInt, read_store
    <2>3. CASE EXTI_Init
      BY <2>0, <2>3 DEF EXTI_Init, dropped
    <2> QED
      BY <1>2, <2>1, <2>2, <2>3 DEF Main
  <1>3. CASE Board
    <2>1. ASSUME NEW d \in Wired, NEW lvl \in {0, 1}, in_trigger(d, lvl)
          PROVE MainTyped'
      BY <2>1, ButtonsAssumption DEF in_trigger
    <2> QED
      BY <1>3, <2>1 DEF Board, machine_reset
  <1>4. CASE UNCHANGED vars
    BY <1>4 DEF vars
  <1> QED
    BY <1>1, <1>2, <1>3, <1>4 DEF Next

SoftTyped ==
    /\ isr_pc \in {"none", "check", "call", "clear"}
    /\ isr_line \in Lines \cup {NoLine} /\ isr_lines \subseteq Lines
    /\ isr_pc \in {"call", "clear"} => isr_line \in Lines
    /\ isrVector \in [Lines -> Inputs \cup {None}]
    /\ state \in [Inputs -> {"Invalid", "On", "Off"}]

(* The handler and the tables of the library stay typed.                   *)
LEMMA SoftTypedStep == MainTyped /\ SoftTyped /\ [Next]_vars => SoftTyped'
  <1> SUFFICES ASSUME MainTyped, SoftTyped, [Next]_vars PROVE SoftTyped'
    OBVIOUS
  <1> USE DEF SoftTyped, isrVars
  <1>1. CASE Handler
    <2>1. CASE take_interrupt
      BY <2>1 DEF take_interrupt, lines_of
    <2>2. ASSUME NEW l \in Lines, checkLineFlag(l) PROVE SoftTyped'
      BY <2>2 DEF checkLineFlag
    <2>3. CASE callIsr
      BY <2>3 DEF callIsr, level
    <2>4. CASE clear_pending \/ isr_return \/ assert_fails
      BY <2>4 DEF clear_pending, isr_return, assert_fails
    <2> QED
      BY <1>1, <2>1, <2>2, <2>3, <2>4 DEF Handler
  <1>2. CASE Main
    <2>0. UNCHANGED isrVars
      BY <1>2 DEF Main
    <2>1. ASSUME NEW d \in Inputs, initialize(d) \/ unregisterInt(d) \/ read(d)
          PROVE SoftTyped'
      BY <2>0, <2>1 DEF initialize, unregisterInt, read
    <2>2. CASE GPIO_EXTILineConfig \/ NVIC_Init \/ EXTI_Init
      BY <2>0, <2>2 DEF GPIO_EXTILineConfig, route, NVIC_Init, EXTI_Init
    <2>3. CASE registerInt \/ read_store
      BY <2>0, <2>3 DEF registerInt, read_store, return, MainTyped
    <2> QED
      BY <1>2, <2>1, <2>2, <2>3 DEF Main
  <1>3. CASE Board
    BY <1>3 DEF Board, in_trigger, machine_reset
  <1>4. CASE UNCHANGED vars
    BY <1>4 DEF vars
  <1> QED
    BY <1>1, <1>2, <1>3, <1>4 DEF Next

RegTyped ==
    /\ EXTI_IMR \subseteq Lines /\ EXTI_RTSR \subseteq Lines
    /\ EXTI_FTSR \subseteq Lines /\ EXTI_SWIER = {} /\ EXTI_PR \subseteq Lines
    /\ irq \in [Ex!Irqs -> {0, 1}]
    /\ enabled \subseteq Ex!Irqs /\ pending \subseteq Ex!Irqs
    /\ running \in Ex!Irqs \cup {Nv!NoIrq}

(* The registers of EXTI and NVIC stay typed.                              *)
LEMMA RegTypedStep == MainTyped /\ RegTyped /\ [Next]_vars => RegTyped'
  <1> SUFFICES ASSUME MainTyped, RegTyped, [Next]_vars PROVE RegTyped'
    OBVIOUS
  <1>0. ASSUME UNCHANGED <<extiVars, nvicVars>> PROVE RegTyped'
    BY <1>0 DEF RegTyped, extiVars, extiRegs, nvicVars
  <1>1. CASE Handler
    <2>1. CASE take_interrupt \/ isr_return
      BY <2>1 DEF take_interrupt, isr_return, Nv!gic_acknowledge_irq,
                  Nv!gic_complete_irq, RegTyped, extiRegs
    <2>2. CASE callIsr \/ assert_fails \/ \E l \in Lines : checkLineFlag(l)
      BY <1>0, <2>2 DEF callIsr, assert_fails, checkLineFlag
    <2>3. CASE clear_pending
      BY <2>3 DEF clear_pending, Ex!PR_write, Ex!clear_PR, Ex!drive, Nv!gic_set_irq,
                  RegTyped
    <2> QED
      BY <1>1, <2>1, <2>2, <2>3 DEF Handler
  <1>2. CASE Main
    <2>1. ASSUME NEW d \in Inputs, initialize(d) \/ unregisterInt(d) \/ read(d)
          PROVE RegTyped'
      BY <1>0, <2>1 DEF initialize, unregisterInt, read
    <2>2. CASE GPIO_EXTILineConfig \/ registerInt \/ read_store
      BY <1>0, <2>2 DEF GPIO_EXTILineConfig, route, registerInt, read_store
    <2>3. CASE NVIC_Init
      <3>1. line(main_in) \in Lines
        BY <2>3 DEF NVIC_Init, at, MainTyped, Lines
      <3>2. Ex!irq_of(line(main_in)) \in Ex!Irqs
        BY <3>1, IrqOf DEF Ex!Irqs
      <3> QED
        BY <2>3, <3>2 DEF NVIC_Init, Nv!set_enable, RegTyped, extiRegs
    <2>4. CASE EXTI_Init
      <3>1. line(main_in) \in Lines
        BY <2>4, Zenon DEF EXTI_Init, at, MainTyped, Lines
      <3> USE <3>1 DEF RegTyped, Nv!gic_set_irq
      <3>2. ASSUME NEW V, Ex!PR_write(V), Nv!gic_set_irq PROVE RegTyped'
        BY <3>2 DEF Ex!PR_write, Ex!clear_PR, Ex!drive
      <3>3. ASSUME NEW V \in SUBSET Lines, Ex!IMR_write(V), Nv!gic_set_irq
            PROVE RegTyped'
        BY <3>3 DEF Ex!IMR_write
      <3>4. ASSUME NEW V \in SUBSET Lines, Ex!RTSR_write(V), Nv!gic_set_irq
            PROVE RegTyped'
        BY <3>4 DEF Ex!RTSR_write, Ex!clear_PR, Ex!drive
      <3>5. ASSUME NEW V \in SUBSET Lines, Ex!FTSR_write(V), Nv!gic_set_irq
            PROVE RegTyped'
        BY <3>5 DEF Ex!FTSR_write, Ex!clear_PR, Ex!drive
      <3> HIDE DEF Nv!gic_set_irq
      <3> QED
        BY <2>4, <3>2, <3>3, <3>4, <3>5 DEF EXTI_Init
    <2> QED
      BY <1>2, <2>1, <2>2, <2>3, <2>4 DEF Main
  <1>3. CASE Board
    <2>1. ASSUME NEW d \in Wired, NEW lvl \in {0, 1}, in_trigger(d, lvl)
          PROVE RegTyped'
      <3>1. line(d) \in Lines
        BY ButtonsAssumption DEF Lines
      <3> QED
        BY <2>1, <3>1 DEF in_trigger, Ex!gpio_in_handler, Ex!trigger, Ex!set_PR,
                          Ex!drive, Nv!gic_set_irq, RegTyped, extiVars, extiRegs
    <2>2. CASE machine_reset
      BY <2>2 DEF machine_reset, Ex!reset, Nv!reset, RegTyped
    <2> QED
      BY <1>3, <2>1, <2>2, Zenon DEF Board
  <1>4. CASE UNCHANGED vars
    BY <1>0, <1>4 DEF vars
  <1> QED
    BY <1>1, <1>2, <1>3, <1>4 DEF Next

AfioTyped ==
    /\ AFIO_EXTICR \in [Lines -> 0..6]
    /\ in_irq \subseteq (0..6) \X Lines
    /\ OneDriver
    /\ changes \in Nat /\ calls \in Nat /\ resets \in Nat

(* The routing stays typed.                                                *)
LEMMA AfioTypedStep == MainTyped /\ AfioTyped /\ [Next]_vars => AfioTyped'
  <1> SUFFICES ASSUME MainTyped, AfioTyped, [Next]_vars PROVE AfioTyped'
    OBVIOUS
  <1> USE DEF AfioTyped
  <1>0. ASSUME UNCHANGED <<afioVars, resets>>, changes' \in Nat, calls' \in Nat
        PROVE AfioTyped'
    BY <1>0 DEF afioVars, OneDriver
  <1>1. CASE Handler
    BY <1>0, <1>1 DEF Handler, assert_fails, bounds
  <1>2. CASE Main
    <2>0. UNCHANGED <<changes, resets>> /\ calls' \in Nat
      BY <1>2 DEF Main
    <2>1. ASSUME NEW d \in Inputs, initialize(d) \/ unregisterInt(d) \/ read(d)
          PROVE AfioTyped'
      BY <1>0, <2>0, <2>1 DEF initialize, unregisterInt, read
    <2>2. CASE EXTI_Init \/ NVIC_Init \/ registerInt \/ read_store
      BY <1>0, <2>0, <2>2 DEF EXTI_Init, NVIC_Init, registerInt, read_store
    <2>3. CASE GPIO_EXTILineConfig
      <3>1. PICK port \in 0..6 : route(port)
        BY <2>3, ButtonsAssumption DEF GPIO_EXTILineConfig, at, MainTyped
      <3>2. line(main_in) \in Lines
        BY <2>3 DEF GPIO_EXTILineConfig, at, MainTyped, Lines
      <3> DEFINE v == [AFIO_EXTICR EXCEPT ![line(main_in)] = port]
                 C == Af!cr_lines(line(main_in) \div 4)
      <3>3. v \in [Lines -> 0..6] /\ C \subseteq Lines
        BY Zenon DEF Af!cr_lines
      <3>4. /\ in_irq' = (in_irq \ Af!pins_of(AFIO_EXTICR, C)) \cup Af!pins_of(v, C)
            /\ AFIO_EXTICR' = [l \in Lines |-> IF l \in C THEN v[l] ELSE AFIO_EXTICR[l]]
        BY <3>1 DEF route, Af!EXTICR_write
      <3> HIDE DEF v, C
      <3>5. AFIO_EXTICR' \in [Lines -> 0..6] /\ in_irq' \subseteq (0..6) \X Lines
        BY <3>3, <3>4 DEF Af!pins_of
      <3>6. OneDriver'
        BY <2>0, <3>3, <3>4 DEF OneDriver, Af!pins_of
      <3> QED
        BY <2>0, <3>5, <3>6
    <2> QED
      BY <1>2, <2>1, <2>2, <2>3 DEF Main
  <1>3. CASE Board
    <2>1. CASE machine_reset
      BY <2>1 DEF machine_reset, Af!reset, Af!pins_of, OneDriver
    <2>2. ASSUME NEW d \in Wired, NEW lvl \in {0, 1}, in_trigger(d, lvl)
          PROVE AfioTyped'
      BY <1>0, <2>2 DEF in_trigger
    <2> QED
      BY <1>3, <2>1, <2>2 DEF Board
  <1>4. CASE UNCHANGED vars
    BY <1>0, <1>4 DEF vars, bounds
  <1> QED
    BY <1>1, <1>2, <1>3, <1>4 DEF Next

(* The four groups together make an invariant.                             *)
LEMMA TypedInvariant == Spec => [](MainTyped /\ SoftTyped /\ RegTyped /\ AfioTyped)
  <1>1. Init => MainTyped /\ SoftTyped
    BY DEF Init, MainTyped, SoftTyped
  <1>2. Init => RegTyped
    BY DEF Init, Ex!Init, Nv!Init, RegTyped
  <1>3. Init => AfioTyped
    BY DEF Init, Af!Init, Af!pins_of, AfioTyped, OneDriver
  <1> QED
    BY <1>1, <1>2, <1>3, MainTypedStep, SoftTypedStep, RegTypedStep, AfioTypedStep,
       PTL DEF Spec

(* Every variable of the button path keeps its type.                       *)
THEOREM ButtonsTypeCorrect == Spec => []TypeOK
  <1>1. Init => halted \in BOOLEAN
    BY Zenon DEF Init, Ex!Init
  <1>2. halted \in BOOLEAN /\ [Next]_vars => (halted \in BOOLEAN)'
    BY Zenon DEF Next, Handler, Main, Board, assert_fails, machine_reset, vars
  <1>3. MainTyped /\ SoftTyped /\ RegTyped /\ AfioTyped /\ halted \in BOOLEAN => TypeOK
    BY Zenon DEF MainTyped, SoftTyped, RegTyped, AfioTyped, TypeOK
  <1> QED
    BY <1>1, <1>2, <1>3, TypedInvariant, PTL DEF Spec

(* Only the port selected in AFIO_EXTICR drives a line, for every set of   *)
(* inputs, until the machine is reset.                                     *)
THEOREM ButtonsOneDriver == Spec => []OneDriver
  BY TypedInvariant, PTL DEF AfioTyped
-----------------------------------------------------------------------------
(* The cached states                                                       *)

(* A change that d has yet to be told of: its line is pending, the         *)
(* interrupt is enabled, the callback is d's and has not been made.        *)
told_later(d) ==
    /\ line(d) \in EXTI_PR /\ Ex!irq_of(line(d)) \in enabled
    /\ isrVector[line(d)] = d
    /\ ~(isr_pc = "clear" /\ isr_line = line(d))

(* What the main program is about to store is what it should.  A stale     *)
(* state belongs to an input that will be told: due alone would not be     *)
(* inductive, since the callback made may be another input's.              *)
FreshInv ==
    \A d \in Inputs \ unnoticed :
       /\ storing(d) => main_val = level(d)
       /\ state[d] \in {"Invalid", level(d)} \/ told_later(d) \/ storing(d)

(* The strengthened invariant implies the property.                        *)
LEMMA FreshIsFresh == LineInv /\ FreshInv => CacheFresh
  BY Zenon DEF LineInv, FreshInv, CacheFresh, told_later, due

(* It is kept by every step, given the invariant of the lines.             *)
LEMMA FreshInvStep ==
    /\ LineInv /\ MainTyped /\ SoftTyped /\ RegTyped /\ FreshInv
    /\ [Next]_vars
    => FreshInv'
  <1> SUFFICES ASSUME LineInv, MainTyped, SoftTyped, RegTyped, FreshInv, [Next]_vars,
                      NEW d \in Inputs, d \notin unnoticed'
               PROVE /\ storing(d)' => main_val' = level(d)'
                     /\ \/ state'[d] \in {"Invalid", level(d)'}
                        \/ told_later(d)' \/ storing(d)'
    BY DEF FreshInv
  <1> DEFINE Goal == /\ storing(d)' => main_val' = level(d)'
                     /\ \/ state'[d] \in {"Invalid", level(d)'}
                        \/ told_later(d)' \/ storing(d)'
  <1>0. line(d) \in Lines
    BY DEF Lines
  <1>1. CASE Handler
    <2>0. UNCHANGED <<in, mainVars>> /\ (storing(d)' <=> storing(d)) /\ level(d)' = level(d)
      BY <1>1 DEF Handler, assert_fails, storing, level, mainVars
    <2>1. CASE take_interrupt
      BY <2>0, <2>1, Zenon DEF take_interrupt, Nv!gic_acknowledge_irq, extiRegs, FreshInv,
                        told_later, storing, mainVars, Ex!irq_of
    <2>2. ASSUME NEW l \in Lines, checkLineFlag(l) PROVE Goal
      BY <2>0, <2>2 DEF checkLineFlag, extiVars, extiRegs, nvicVars, FreshInv,
                        told_later, mainVars, Ex!irq_of
    <2>3. CASE callIsr
      <3>1. CASE d = isrVector[isr_line]
        <4>1. state'[d] = level(d)
          BY <2>3, <3>1 DEF callIsr, SoftTyped
        <4>2. storing(d) => d \notin unnoticed
          BY <2>3, <3>1 DEF callIsr
        <4> QED
          BY <2>0, <4>1, <4>2 DEF FreshInv, mainVars
      <3>2. CASE d # isrVector[isr_line]
        <4>1. state'[d] = state[d] /\ d \notin unnoticed
          BY <2>3, <3>2 DEF callIsr, SoftTyped
        <4>2. told_later(d) => told_later(d)'
          BY <2>3, <3>2 DEF callIsr, told_later, extiVars, extiRegs, nvicVars,
                            Ex!irq_of
        <4> QED
          BY <2>0, <4>1, <4>2 DEF FreshInv, mainVars
      <3> QED
        BY <3>1, <3>2
    <2>4. CASE clear_pending
      <3>1. EXTI_PR' = EXTI_PR \ {isr_line}
        BY <2>4, WritesClear DEF clear_pending, Cleared
      <3>2. told_later(d) => told_later(d)'
        BY <2>4, <3>1, Zenon DEF clear_pending, told_later, Nv!gic_set_irq, Ex!irq_of
      <3> QED
        BY <2>0, <2>4, <3>2 DEF clear_pending, FreshInv, mainVars
    <2>5. CASE isr_return
      BY <2>0, <2>5, Zenon DEF isr_return, Nv!gic_complete_irq, extiRegs, FreshInv,
                        told_later, mainVars, Ex!irq_of
    <2>6. CASE assert_fails
      BY <2>0, <2>6 DEF assert_fails, extiVars, extiRegs, nvicVars, isrVars, FreshInv,
                        told_later, mainVars, Ex!irq_of
    <2> QED
      BY <1>1, <2>1, <2>2, <2>3, <2>4, <2>5, <2>6 DEF Handler
  <1>2. CASE Main
    <2>0. in' = in /\ level(d)' = level(d) /\ isr_pc = "none" /\ isr_pc' = "none"
      BY <1>2 DEF Main, level, isrVars
    <2>1. ASSUME NEW e \in Inputs, initialize(e) PROVE Goal
      BY <2>0, <2>1 DEF initialize, storing, FreshInv, told_later, extiVars, extiRegs,
                        nvicVars, Ex!irq_of
    <2>2. ASSUME NEW e \in Inputs, unregisterInt(e) PROVE Goal
      <3>1. ~storing(d) /\ ~storing(d)'
        BY <2>2 DEF unregisterInt, storing, mainVars
      <3>2. told_later(d) => told_later(d)'
        BY <1>0, <2>0, <2>2 DEF unregisterInt, told_later, dropped, extiVars, extiRegs,
                                nvicVars, SoftTyped, Ex!irq_of
      <3> QED
        BY <2>0, <2>2, <3>1, <3>2 DEF unregisterInt, FreshInv
    <2>3. ASSUME NEW e \in Inputs, read(e) PROVE Goal
      <3>1. CASE e = d
        BY <2>0, <2>3, <3>1, Zenon DEF read, storing
      <3>2. CASE e # d
        BY <2>0, <2>3, <3>2, Zenon DEF read, storing, FreshInv, told_later, extiVars, extiRegs,
                                nvicVars, Ex!irq_of
      <3> QED
        BY <3>1, <3>2
    <2>4. CASE GPIO_EXTILineConfig \/ NVIC_Init
      BY <2>0, <2>4 DEF GPIO_EXTILineConfig, route, NVIC_Init, Nv!set_enable, at,
                        storing, FreshInv, told_later, extiVars, extiRegs, nvicVars,
                        Ex!irq_of
    <2>5. CASE EXTI_Init
      <3>1. ~storing(d) /\ ~storing(d)'
        BY <2>5, Zenon DEF EXTI_Init, storing, at
      <3>2. told_later(d) => told_later(d)'
        BY <1>0, <2>0, <2>5, Zenon DEF EXTI_Init, told_later, dropped, Nv!gic_set_irq, Ex!irq_of
      <3> QED
        BY <2>0, <2>5, <3>1, <3>2 DEF EXTI_Init, FreshInv
    <2>6. CASE registerInt
      <3>1. ~storing(d) /\ ~storing(d)'
        BY <2>6 DEF registerInt, storing, return
      <3>2. told_later(d) => told_later(d)'
        BY <1>0, <2>0, <2>6, NoneIsNoInput DEF registerInt, told_later, extiVars,
                        extiRegs, nvicVars, SoftTyped, Ex!irq_of
      <3> QED
        BY <2>0, <2>6, <3>1, <3>2 DEF registerInt, FreshInv
    <2>7. CASE read_store
      <3>1. ~storing(d)'
        BY <2>7 DEF read_store, storing, return
      <3>2. CASE storing(d)
        BY <2>0, <2>7, <3>1, <3>2 DEF read_store, storing, FreshInv, SoftTyped
      <3>3. CASE ~storing(d)
        <4>1. main_in # d
          BY <2>7, <3>3 DEF read_store, storing, return
        <4>2. state'[d] = state[d]
          BY <2>7, <4>1 DEF read_store, SoftTyped
        <4> QED
          BY <2>0, <2>7, <3>1, <3>3, <4>2 DEF read_store, FreshInv, told_later,
                        extiVars, extiRegs, nvicVars, Ex!irq_of
      <3> QED
        BY <3>2, <3>3
    <2> QED
      BY <1>2, <2>1, <2>2, <2>3, <2>4, <2>5, <2>6, <2>7 DEF Main
  <1>3. CASE machine_reset
    BY <1>3 DEF machine_reset, storing
  <1>4. ASSUME NEW e \in Wired, NEW lvl \in {0, 1}, in_trigger(e, lvl) PROVE Goal
    <2>1. storing(d)' <=> storing(d)
      BY <1>4, Zenon DEF in_trigger, storing, mainVars
    <2>2. UNCHANGED <<isrVars, isrVector, state, mainVars, enabled>> /\ d \notin unnoticed
      BY <1>4 DEF in_trigger, Nv!gic_set_irq
    <2>3. EXTI_PR \subseteq EXTI_PR'
      <3>1. CASE UNCHANGED extiVars
        BY <3>1 DEF extiVars, extiRegs
      <3>2. CASE Ex!gpio_in_handler(line(e), lvl)
        BY <3>2 DEF Ex!gpio_in_handler, Ex!trigger, Ex!set_PR
      <3> QED
        BY <1>4, <3>1, <3>2 DEF in_trigger
    <2>4. told_later(d) => told_later(d)'
      BY <2>2, <2>3 DEF told_later, isrVars, Ex!irq_of
    <2>5. CASE level(d)' = level(d)
      BY <2>1, <2>2, <2>4, <2>5 DEF FreshInv, mainVars
    <2>6. CASE level(d)' # level(d)
      <3>1. d = e /\ in' # in
        BY <1>4, <2>6 DEF in_trigger, level
      <3>2. ~blind(d)
        BY <1>4, <3>1 DEF in_trigger
      <3>3. armed(d) /\ ~storing(d) /\ ~(isr_pc = "clear" /\ isr_line = line(d))
        BY <3>2, Zenon DEF blind
      <3>4. Ex!gpio_in_handler(line(d), lvl)
        BY <1>4, <3>1, <3>3, Zenon DEF in_trigger, armed
      <3>5. Raised({line(d)})
        BY <1>0, <3>3, <3>4, HandlerRaises DEF armed
      <3>6. told_later(d)'
        BY <2>2, <3>3, <3>5, Zenon DEF Raised, told_later, armed, isrVars, Ex!irq_of
      <3> QED
        BY <2>1, <3>3, <3>6
    <2> QED
      BY <2>5, <2>6
  <1>5. CASE UNCHANGED vars
    BY <1>5 DEF vars, mainVars, extiVars, extiRegs, nvicVars, isrVars, FreshInv,
                told_later, storing, level, Ex!irq_of
  <1> QED
    BY <1>1, <1>2, <1>3, <1>4, <1>5 DEF Next, Board

(* Whatever the inputs, as long as no two lines in use share an input of   *)
(* the NVIC: a state that has been read is the level of the pin, except    *)
(* while an interrupt is due, while read() is about to store, and after a  *)
(* change in one of the windows of blind.                                  *)
THEOREM ButtonsCacheFresh ==
    ASSUME Exclusive
    PROVE Spec => []CacheFresh
  <1>1. Init => FreshInv
    BY Zenon DEF Init, FreshInv, storing
  <1>2. LineInv /\ [Next]_vars => LineInv'
    BY LineInvStep
  <1> QED
    BY <1>1, <1>2, LineInvInit, TypedInvariant, FreshInvStep, FreshIsFresh,
       PTL DEF Spec
=============================================================================
