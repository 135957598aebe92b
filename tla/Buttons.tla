------------------------------ MODULE Buttons ------------------------------
(***************************************************************************)
(* From a button of the board to the value the program sees: the input of  *)
(* the GPIO port, the routing of Afio, Exti, Nvic, the interrupt handlers  *)
(* and IntController, DigitalInput.  A pin may change between any two      *)
(* accesses the program makes to a device; an interrupt may be taken       *)
(* between any two steps of the main program.                              *)
(***************************************************************************)
EXTENDS Integers

CONSTANTS Inputs,      \* <<port, pin>>: the DigitalInput objects
          Wired,       \* those a button of the board is connected to
          MaxChanges,  \* bound on the changes of a pin
          MaxCalls,    \* bound on the calls of the main program
          MaxResets    \* bound on the resets of the machine

ASSUME ButtonsAssumption ==
    /\ Inputs \subseteq (0..6) \X (0..15) /\ Wired \subseteq Inputs
    /\ MaxChanges \in Nat /\ MaxCalls \in Nat /\ MaxResets \in Nat

VARIABLES
    in,                                 \* inputs that are high
    AFIO_EXTICR, in_irq,
    EXTI_IMR, EXTI_RTSR, EXTI_FTSR, EXTI_SWIER, EXTI_PR, irq,
    enabled, pending, running,
    isr_pc, isr_line, isr_lines,        \* the handler: line, lines it has left
    isrVector, state,                   \* IntController, DigitalInput
    main_pc, main_in, main_val,         \* the main program
    halted,                             \* assert(valid) has failed
    changes, calls, resets,
    unnoticed     \* history: inputs that changed where the code cannot notice

line(d) == d[2]
Lines == {line(d) : d \in Inputs}
None == <<>>
NoLine == -1

Ex == INSTANCE Exti WITH MaskedSWIER <- {}
Af == INSTANCE Afio
Nv == INSTANCE Nvic WITH Irqs <- Ex!Irqs

extiRegs == <<EXTI_IMR, EXTI_RTSR, EXTI_FTSR, EXTI_SWIER, EXTI_PR>>
extiVars == <<extiRegs, irq>>
afioVars == <<AFIO_EXTICR, in_irq>>
nvicVars == <<enabled, pending, running>>
isrVars == <<isr_pc, isr_line, isr_lines>>
mainVars == <<main_pc, main_in, main_val>>
bounds == <<changes, calls, resets>>
vars == <<in, afioVars, extiVars, nvicVars, isrVars, isrVector, state, mainVars,
          halted, bounds, unnoticed>>

(* Mutant of level: the bit read is stored as it is.                       *)
level_bit(d) == IF d \in in THEN "1" ELSE "0"

level(d) == IF d \in in THEN "On" ELSE "Off"
-----------------------------------------------------------------------------
(* The pins                                                                *)

(* The input is connected, enabled for both edges, and has its callback.   *)
armed(d) ==
    /\ d \in in_irq
    /\ line(d) \in EXTI_IMR \cap EXTI_RTSR \cap EXTI_FTSR
    /\ Ex!irq_of(line(d)) \in enabled
    /\ isrVector[line(d)] = d

(* Where a change goes unnoticed: before the input is armed, between the   *)
(* callback and the end of its interrupt, and while the main program is    *)
(* about to store what it has read.                                        *)
storing(d) == main_pc = "store" /\ main_in = d

blind(d) ==
    \/ ~armed(d)
    \/ isr_pc = "clear" /\ isr_line = line(d)
    \/ storing(d)

(* A level from the board, changed or not: stm32_gpio_in_trigger stores it *)
(* and passes it to the EXTI line the pin is connected to.                 *)
in_trigger(d, lvl) ==
    /\ changes < MaxChanges /\ changes' = changes + 1
    /\ in' = IF lvl = 1 THEN in \cup {d} ELSE in \ {d}
    /\ \/ d \in in_irq /\ Ex!gpio_in_handler(line(d), lvl)
       \/ d \notin in_irq /\ UNCHANGED extiVars
    /\ Nv!gic_set_irq
    /\ unnoticed' = unnoticed \cup {e \in {d} : in' # in /\ blind(e)}
    /\ UNCHANGED <<afioVars, isrVars, isrVector, state, mainVars, calls, resets>>
-----------------------------------------------------------------------------
(* The interrupt handlers (intcontroller.cpp)                              *)

lines_of(i) == {l \in Lines : Ex!irq_of(l) = i}

take_interrupt ==
    /\ \E i \in Ex!Irqs :
          /\ Nv!gic_acknowledge_irq(i)
          /\ isr_lines' = lines_of(i)
    /\ isr_pc' = "check"
    /\ UNCHANGED <<isr_line, extiRegs, isrVector, state, unnoticed>>

(* EXTI_GetITStatus on the next line.                                      *)
checkLineFlag(l) ==
    /\ isr_pc = "check"
    /\ l \in isr_lines /\ \A m \in isr_lines : l <= m
    /\ isr_lines' = isr_lines \ {l}
    /\ \/ /\ l \in EXTI_IMR \cap EXTI_PR
          /\ isr_pc' = "call" /\ isr_line' = l
       \/ /\ l \notin EXTI_IMR \cap EXTI_PR
          /\ UNCHANGED <<isr_pc, isr_line>>
    /\ UNCHANGED <<extiVars, nvicVars, isrVector, state, unnoticed>>

(* The callback of the line reads the pin and stores its state.            *)
callIsr ==
    /\ isr_pc = "call"
    /\ LET d == isrVector[isr_line] IN
       /\ d # None
       /\ state' = [state EXCEPT ![d] = level(d)]
       /\ unnoticed' = unnoticed \ {e \in {d} : ~storing(e)}
    /\ isr_pc' = "clear"
    /\ UNCHANGED <<extiVars, nvicVars, isr_line, isr_lines, isrVector>>

(* Mutant of clear_pending: the pending bit is left set.                   *)
clear_pending_forgotten ==
    /\ isr_pc = "clear"
    /\ isr_pc' = "check" /\ isr_line' = NoLine
    /\ UNCHANGED <<extiVars, nvicVars, isr_lines, isrVector, state, unnoticed>>

(* EXTI_ClearITPendingBit after the callback.                              *)
clear_pending ==
    /\ isr_pc = "clear"
    /\ Ex!PR_write({isr_line})
    /\ Nv!gic_set_irq
    /\ isr_pc' = "check" /\ isr_line' = NoLine
    /\ UNCHANGED <<isr_lines, isrVector, state, unnoticed>>

isr_return ==
    /\ isr_pc = "check" /\ isr_lines = {}
    /\ Nv!gic_complete_irq
    /\ isr_pc' = "none"
    /\ UNCHANGED <<extiRegs, isr_line, isr_lines, isrVector, state, unnoticed>>

(* assert(valid): the line has no callback.                                *)
assert_fails ==
    /\ isr_pc = "call" /\ isrVector[isr_line] = None
    /\ halted' = TRUE
    /\ UNCHANGED <<in, afioVars, extiVars, nvicVars, isrVars, isrVector, state,
                   mainVars, bounds, unnoticed>>
-----------------------------------------------------------------------------
(* The main program                                                        *)

initialize(d) ==
    /\ main_pc = "idle"
    /\ main_pc' = "route_a" /\ main_in' = d
    /\ UNCHANGED <<main_val, afioVars, extiVars, nvicVars, isrVector, state,
                   unnoticed>>

at(pc, next) ==
    /\ main_pc = pc /\ main_pc' = next
    /\ UNCHANGED <<main_in, main_val>>

return(pc) ==
    /\ main_pc = pc /\ main_pc' = "idle"
    /\ main_in' = None /\ main_val' = "Invalid"

(* GPIO_EXTILineConfig clears the field of the line, which selects port A, *)
(* and then sets it.                                                       *)
route(port) ==
    LET l == line(main_in) IN
    /\ Af!EXTICR_write(l \div 4, [AFIO_EXTICR EXCEPT ![l] = port])
    /\ UNCHANGED <<extiVars, nvicVars, isrVector, state, unnoticed>>

GPIO_EXTILineConfig ==
    \/ at("route_a", "route") /\ route(0)
    \/ at("route", "clear") /\ route(main_in[1])

(* The input whose interrupt the main program drops when it clears the     *)
(* line's pending bit or its callback.                                     *)
dropped(lines) == {d \in Inputs : isrVector[line(d)] = d /\ line(d) \in lines}

EXTI_Init ==
    LET l == line(main_in) IN
    /\ \/ at("clear", "mask") /\ Ex!PR_write({l})
       \/ at("mask", "unmask") /\ Ex!IMR_write(EXTI_IMR \ {l})
       \/ at("unmask", "no_rise") /\ Ex!IMR_write(EXTI_IMR \cup {l})
       \/ at("no_rise", "no_fall") /\ Ex!RTSR_write(EXTI_RTSR \ {l})
       \/ at("no_fall", "rise") /\ Ex!FTSR_write(EXTI_FTSR \ {l})
       \/ at("rise", "fall") /\ Ex!RTSR_write(EXTI_RTSR \cup {l})
       \/ at("fall", "enable") /\ Ex!FTSR_write(EXTI_FTSR \cup {l})
    /\ Nv!gic_set_irq
    /\ unnoticed' = unnoticed \cup dropped(EXTI_PR \ EXTI_PR')
    /\ UNCHANGED <<afioVars, isrVector, state>>

NVIC_Init ==
    /\ at("enable", "register")
    /\ Nv!set_enable(Ex!irq_of(line(main_in)))
    /\ UNCHANGED <<afioVars, extiRegs, isrVector, state, unnoticed>>

(* The callback is stored last, and only if the line has none: an input    *)
(* that is refused has already taken the line's routing.                   *)
registerInt ==
    /\ return("register")
    /\ LET l == line(main_in) IN
       isrVector' = IF isrVector[l] = None THEN [isrVector EXCEPT ![l] = main_in]
                    ELSE isrVector
    /\ UNCHANGED <<afioVars, extiVars, nvicVars, state, unnoticed>>

(* Whichever input has the line loses it, and the line stays enabled.      *)
unregisterInt(d) ==
    /\ main_pc = "idle"
    /\ isrVector' = [isrVector EXCEPT ![line(d)] = None]
    /\ unnoticed' = unnoticed \cup dropped(EXTI_PR \cap {line(d)})
    /\ UNCHANGED <<mainVars, afioVars, extiVars, nvicVars, state>>

(* read() outside an interrupt: it may be interrupted before it stores.    *)
read(d) ==
    /\ main_pc = "idle"
    /\ main_pc' = "store" /\ main_in' = d /\ main_val' = level(d)
    /\ unnoticed' = unnoticed \ {d}
    /\ UNCHANGED <<afioVars, extiVars, nvicVars, isrVector, state>>

read_store ==
    /\ return("store")
    /\ state' = [state EXCEPT ![main_in] = main_val]
    /\ UNCHANGED <<afioVars, extiVars, nvicVars, isrVector, unnoticed>>
-----------------------------------------------------------------------------
machine_reset ==
    /\ resets < MaxResets /\ resets' = resets + 1
    /\ Af!reset /\ Ex!reset /\ Nv!reset
    /\ isr_pc' = "none" /\ isr_line' = NoLine /\ isr_lines' = {}
    /\ isrVector' = [l \in Lines |-> None]
    /\ state' = [d \in Inputs |-> "Invalid"]
    /\ main_pc' = "idle" /\ main_in' = None /\ main_val' = "Invalid"
    /\ unnoticed' = {}
    /\ UNCHANGED <<in, changes, calls, halted>>

Init ==
    /\ in = {} /\ changes = 0 /\ calls = 0 /\ resets = 0 /\ unnoticed = {}
    /\ Af!Init /\ Nv!Init
    /\ Ex!Init
    /\ isr_pc = "none" /\ isr_line = NoLine /\ isr_lines = {}
    /\ isrVector = [l \in Lines |-> None]
    /\ state = [d \in Inputs |-> "Invalid"]
    /\ main_pc = "idle" /\ main_in = None /\ main_val = "Invalid"

Handler ==
    /\ ~halted
    /\ \/ /\ \/ take_interrupt \/ callIsr \/ clear_pending \/ isr_return
             \/ \E l \in Lines : checkLineFlag(l)
          /\ UNCHANGED <<in, afioVars, mainVars, halted, bounds>>
       \/ assert_fails

Main ==
    /\ ~halted /\ isr_pc = "none"
    /\ \/ /\ calls < MaxCalls /\ calls' = calls + 1
          /\ \E d \in Inputs : initialize(d) \/ unregisterInt(d) \/ read(d)
       \/ /\ \/ GPIO_EXTILineConfig \/ EXTI_Init \/ NVIC_Init \/ registerInt
             \/ read_store
          /\ UNCHANGED calls
    /\ UNCHANGED <<in, isrVars, halted, changes, resets>>

Board ==
    /\ ~halted
    /\ \/ /\ \E d \in Wired, lvl \in {0, 1} : in_trigger(d, lvl)
          /\ UNCHANGED halted
       \/ machine_reset

Next == Handler \/ Main \/ Board

Spec == Init /\ [][Next]_vars

(* The virtual CPU keeps running, and a handler once entered runs on.      *)
FairSpec == Spec /\ WF_vars(Handler)
-----------------------------------------------------------------------------
(* Properties                                                              *)

(* Every variable keeps its type.                                          *)
TypeOK ==
    /\ in \subseteq Inputs /\ unnoticed \subseteq Inputs
    /\ AFIO_EXTICR \in [Lines -> 0..6] /\ in_irq \subseteq (0..6) \X Lines
    /\ EXTI_IMR \subseteq Lines /\ EXTI_RTSR \subseteq Lines
    /\ EXTI_FTSR \subseteq Lines /\ EXTI_SWIER = {} /\ EXTI_PR \subseteq Lines
    /\ irq \in [Ex!Irqs -> {0, 1}]
    /\ enabled \subseteq Ex!Irqs /\ pending \subseteq Ex!Irqs
    /\ running \in Ex!Irqs \cup {Nv!NoIrq}
    /\ isr_pc \in {"none", "check", "call", "clear"}
    /\ isr_line \in Lines \cup {NoLine} /\ isr_lines \subseteq Lines
    /\ isrVector \in [Lines -> Inputs \cup {None}]
    /\ state \in [Inputs -> {"Invalid", "On", "Off"}]
    /\ main_pc \in {"idle", "route_a", "route", "clear", "mask", "unmask",
                    "no_rise", "no_fall", "rise", "fall", "enable", "register",
                    "store"}
    /\ IF main_pc = "idle" THEN main_in = None ELSE main_in \in Inputs
    /\ main_val \in {"Invalid", "On", "Off"}
    /\ changes \in Nat /\ calls \in Nat /\ resets \in Nat /\ halted \in BOOLEAN

(* The interrupt of the line will still run its callback.                  *)
due(l) ==
    /\ l \in EXTI_PR
    /\ \/ Ex!irq_of(l) \in pending
       \/ running = Ex!irq_of(l)

(* The state of an input that has been read is the level of its pin,       *)
(* unless its interrupt is still due, the main program is about to store   *)
(* what it read, or the pin changed in one of the windows of blind.        *)
CacheFresh ==
    \A d \in Inputs \ unnoticed :
       \/ state[d] \in {"Invalid", level(d)}
       \/ due(line(d))
       \/ storing(d)

(* Only the port that AFIO_EXTICR selects drives a line, until the machine *)
(* is reset.                                                               *)
OneDriver == resets = 0 => in_irq = {<<AFIO_EXTICR[l], l>> : l \in Lines}

(* A pending line whose interrupt is enabled is served.  The exception is  *)
(* a line that registerInt masks while it is pending: the handler does not *)
(* clear it, and it is entered again and again.                            *)
PendingServed ==
    \A l \in Lines :
       l \in EXTI_IMR \cap EXTI_PR /\ Ex!irq_of(l) \in enabled
         ~> \/ l \notin EXTI_IMR \cap EXTI_PR
            \/ halted
            \/ \E m \in EXTI_PR \ EXTI_IMR : Ex!irq_of(m) \in enabled

(* assert(valid) in checkLineFlag holds: a line that interrupts has its    *)
(* callback.                                                               *)
CallbackRegistered == ~halted
=============================================================================
