----------------------------- MODULE PulseInput -----------------------------
(***************************************************************************)
(* A PulseInput (demo/pulseinput.cpp) measures the time of edges in        *)
(* its interrupt handler.  The library asks for a higher priority of TIM2, *)
(* so a tick may fall between any two reads of the clock.  The interrupt   *)
(* is registered before time_init is called, and another PulseInput may    *)
(* call time_init again.                                                   *)
(***************************************************************************)
EXTENDS Time

CONSTANTS Filter,      \* 12 ms: edges that are closer are glitches
          Garbage      \* what an uninitialised time may hold

ASSUME PulseAssumption == Filter \in 1..(M - 1) /\ Garbage \subseteq 0..(M - 1)

VARIABLES pc,          \* where irq() is
          startTime, currentTime, pulseCounter,
          lastPulseTime,
          start_at,    \* history: the tick of startTime, or Void
          span         \* history: the ticks of the last measure, or Void

pulseVars == <<pc, startTime, currentTime, pulseCounter, lastPulseTime,
               start_at, span>>
vars == <<timeVars, pulseVars>>

(* Pulses after which the time is taken.                                   *)
Pulses == 4

(* Mutant of irq: the time is taken one pulse early.                       *)
irq_early ==
    /\ pc = "idle"
    /\ pc' = CASE pulseCounter = 0 -> "start"
               [] pulseCounter = Pulses - 1 -> "measure"
               [] OTHER -> "filter"
    /\ UNCHANGED <<timeVars, startTime, currentTime, pulseCounter,
                   lastPulseTime, start_at, span>>

irq ==
    /\ pc = "idle"
    /\ pc' = CASE pulseCounter = 0 -> "start"
               [] pulseCounter = Pulses -> "measure"
               [] OTHER -> "filter"
    /\ UNCHANGED <<timeVars, startTime, currentTime, pulseCounter,
                   lastPulseTime, start_at, span>>

irq_measure ==
    /\ pc = "measure" /\ pc' = "start"
    /\ lastPulseTime' = uint32(time_diff_ms(gTimeCounter, startTime))
    /\ span' = IF start_at = Void THEN Void ELSE now - start_at
    /\ pulseCounter' = 0
    /\ UNCHANGED <<timeVars, startTime, currentTime, start_at>>

irq_start ==
    /\ pc = "start" /\ pc' = "filter"
    /\ startTime' = gTimeCounter /\ start_at' = now
    /\ UNCHANGED <<timeVars, currentTime, pulseCounter, lastPulseTime, span>>

irq_filter ==
    /\ pc = "filter"
    /\ pc' = IF uint32(time_diff_ms(gTimeCounter, currentTime)) >= Filter
             THEN "count" ELSE "idle"
    /\ UNCHANGED <<timeVars, startTime, currentTime, pulseCounter,
                   lastPulseTime, start_at, span>>

irq_count ==
    /\ pc = "count" /\ pc' = "idle"
    /\ currentTime' = gTimeCounter
    /\ pulseCounter' = pulseCounter + 1
    /\ UNCHANGED <<timeVars, startTime, lastPulseTime, start_at, span>>

tick == TIM2_IRQHandler /\ UNCHANGED pulseVars

(* The main program does not run while irq() does.                         *)
initialize ==
    /\ pc = "idle" /\ time_init /\ start_at' = Void
    /\ UNCHANGED <<pc, startTime, currentTime, pulseCounter, lastPulseTime, span>>

main ==
    /\ pc = "idle"
    /\ \/ \E ms \in Delays : time_set_timeout_ms(ms)
       \/ /\ time_suspend \/ time_resume
          /\ UNCHANGED <<gTimeCounter, timeout, delay, set_at, now, inits>>
    /\ UNCHANGED pulseVars

Init ==
    /\ TimeInit /\ pc = "idle"
    /\ startTime \in Garbage /\ currentTime \in Garbage
    /\ pulseCounter = 0 /\ lastPulseTime = 1000 % M
    /\ start_at = Void /\ span = Void

Next == \/ irq \/ irq_measure \/ irq_start \/ irq_filter \/ irq_count
        \/ tick \/ initialize \/ main

Spec == Init /\ [][Next]_vars
-----------------------------------------------------------------------------
(* Times fit their width and the counter its range.                        *)
TypeOK ==
    /\ {gTimeCounter, timeout, startTime, currentTime, lastPulseTime}
         \subseteq 0..(M - 1)
    /\ pulseCounter \in 0..Pulses
    /\ pc \in {"idle", "measure", "start", "filter", "count"}

(* A time that was taken is the time that passed, if that is less than the *)
(* range of the clock and time_init was not called meanwhile; and glitches *)
(* cannot shorten it: it spans three times the filter, as the code takes   *)
(* it after four edges that were not glitches (pulseinput.cpp:31; the      *)
(* comments at pulseinput.cpp:30 and pulseinput.h:32 say eight).           *)
PulseMeasured ==
    span \in 0..(M - 1) =>
      lastPulseTime = span /\ span >= (Pulses - 1) * Filter
=============================================================================
