---------------------------- MODULE PulseProofs ----------------------------
(***************************************************************************)
(* A clock of any width M tells delays and pulses right.  The specification*)
(* keeps the true times (now, set_at, start_at); each invariant below says *)
(* that a difference of clock values is congruent modulo M to the true one,*)
(* so it is equal to it as long as that one fits.                          *)
(***************************************************************************)
EXTENDS PulseInput, TLAPS

(* Two times that a uint32_t cannot tell apart.                            *)
Congruent(a, b) == \E q \in Int : a = b + q * M

(* The width of the clock is not 0.                                        *)
LEMMA MPositive == M \in Nat \ {0}
  BY TimeAssumption

(* A remainder is in range and congruent to the number.                    *)
LEMMA ModRange == ASSUME NEW x \in Int PROVE x % M \in 0..(M - 1) /\ Congruent(x % M, x)
<1>1. x % M \in 0..(M - 1) /\ x = ((x \div M) * M) + (x % M) /\ x \div M \in Int
  BY MPositive
<1>2. x % M = x + (-(x \div M)) * M /\ -(x \div M) \in Int
  BY <1>1, MPositive
<1> QED
  BY <1>1, <1>2 DEF Congruent

(* Two clock values that are congruent are equal.                          *)
LEMMA Unique ==
    ASSUME NEW x \in 0..(M - 1), NEW y \in 0..(M - 1), Congruent(x, y)
    PROVE  x = y
<1>1. PICK q \in Int : x = y + q * M
  BY DEF Congruent
<1>2. ASSUME q >= 1 PROVE FALSE
  <2>1. q * M >= M
    BY <1>2, MPositive
  <2> QED
    BY <1>1, <2>1, MPositive
<1>3. ASSUME q <= -1 PROVE FALSE
  <2>1. q * M <= -M
    BY <1>3, MPositive
  <2> QED
    BY <1>1, <2>1, MPositive
<1> QED
  BY <1>1, <1>2, <1>3, MPositive

(* Congruence is transitive,                                               *)
LEMMA Transitive ==
    ASSUME NEW a \in Int, NEW b \in Int, NEW c \in Int, Congruent(a, b), Congruent(b, c)
    PROVE  Congruent(a, c)
<1>1. PICK q \in Int : a = b + q * M
  BY DEF Congruent
<1>2. PICK p \in Int : b = c + p * M
  BY DEF Congruent
<1>3. a = c + (p + q) * M /\ p + q \in Int
  BY <1>1, <1>2, MPositive
<1> QED
  BY <1>3 DEF Congruent

(* and is kept by adding and by subtracting the same number.               *)
LEMMA Shift ==
    ASSUME NEW a \in Int, NEW b \in Int, NEW c \in Int, Congruent(a, b)
    PROVE  Congruent(a + c, b + c) /\ Congruent(c - a, c - b)
<1>1. PICK q \in Int : a = b + q * M
  BY DEF Congruent
<1>2. a + c = (b + c) + q * M
  BY <1>1, MPositive
<1>3. c - a = (c - b) + (-q) * M /\ -q \in Int
  BY <1>1, MPositive
<1> QED
  BY <1>1, <1>2, <1>3 DEF Congruent

(* A remainder is the small number that it is congruent to.                *)
LEMMA ModSmall ==
    ASSUME NEW x \in Int, NEW y \in 0..(M - 1), Congruent(x, y)
    PROVE  x % M = y
<1>1. x % M \in 0..(M - 1) /\ x % M \in Int /\ Congruent(x % M, x)
  BY ModRange, MPositive
<1>2. y \in Int
  BY MPositive
<1>3. Congruent(x % M, y)
  BY <1>1, <1>2, Transitive
<1> QED
  BY <1>1, <1>3, Unique

(* A remainder does not exceed a natural number it is congruent to.        *)
LEMMA ModLeq == ASSUME NEW x \in Int, NEW e \in Nat, Congruent(x, e) PROVE x % M <= e
<1> DEFINE y == x % M
<1>1. y \in 0..(M - 1) /\ y \in Int /\ Congruent(y, x)
  BY ModRange, MPositive
<1> HIDE DEF y
<1>2. Congruent(y, e)
  BY <1>1, Transitive
<1>3. PICK q \in Int : y = e + q * M
  BY <1>2 DEF Congruent
<1>4. ASSUME q >= 1 PROVE FALSE
  <2>1. q * M >= M
    BY <1>4, MPositive
  <2> QED
    BY <1>1, <1>3, <2>1, MPositive
<1>5. q * M <= 0
  <2>1. q <= 0
    BY <1>4
  <2> QED
    BY <2>1, MPositive
<1> QED
  BY <1>1, <1>3, <1>5, MPositive DEF y

(* Storing the signed difference in a uint32_t gives the unsigned one.     *)
LEMMA Uint32Diff ==
    ASSUME NEW t \in Int, NEW before \in Int
    PROVE  uint32(time_diff_ms(t, before)) = (t - before) % M
<1> DEFINE d == (t - before) % M
<1>1. d \in 0..(M - 1) /\ d \in Int
  BY ModRange, MPositive
<1> HIDE DEF d
<1>2. Congruent(d, d) /\ Congruent(d - M, d)
  <2>1. d = d + 0 * M /\ d - M = d + (-1) * M
    BY <1>1, MPositive
  <2> QED
    BY <2>1 DEF Congruent
<1>3. d - M \in Int
  BY <1>1, MPositive
<1>4. d % M = d /\ (d - M) % M = d
  BY <1>1, <1>2, <1>3, ModSmall
<1> QED
  BY <1>4 DEF uint32, time_diff_ms, d
-----------------------------------------------------------------------------
(* Type correctness                                                        *)

TimeTyped ==
    /\ gTimeCounter \in 0..(M - 1) /\ timeout \in 0..(M - 1)
    /\ delay \in 0..(M - 1) /\ now \in Nat
    /\ set_at = Void \/ set_at \in 0..now

(* Where irq() is tells how many pulses were counted.                      *)
PulseTyped ==
    /\ {startTime, currentTime, lastPulseTime} \subseteq 0..(M - 1)
    /\ pc \in {"idle", "measure", "start", "filter", "count"}
    /\ pulseCounter \in 0..Pulses
    /\ pc = "measure" => pulseCounter = Pulses
    /\ pc = "start" => pulseCounter = 0
    /\ pc \in {"filter", "count"} => pulseCounter < Pulses
    /\ start_at = Void \/ start_at \in 0..now
    /\ span = Void \/ span \in Nat

Typed == TimeTyped /\ PulseTyped

(* The variables have their types at first,                                *)
LEMMA InitTyped == Init => Typed
<1> SUFFICES ASSUME Init PROVE Typed
  OBVIOUS
<1>1. 1000 % M \in 0..(M - 1) /\ 0 \in 0..(M - 1)
  BY ModRange, MPositive
<1>2. startTime \in 0..(M - 1) /\ currentTime \in 0..(M - 1)
  BY PulseAssumption DEF Init
<1>3. TimeTyped
  BY <1>1 DEF Init, TimeInit, TimeTyped
<1>4. PulseTyped
  BY <1>1, <1>2 DEF Init, TimeInit, PulseTyped, Pulses
<1> QED
  BY <1>3, <1>4 DEF Typed

(* The time that irq() takes, and the condition of its filter.             *)
LEMMA MeasureEffect ==
    ASSUME Typed
    PROVE  /\ irq_measure => lastPulseTime' = (gTimeCounter - startTime) % M
           /\ uint32(time_diff_ms(gTimeCounter, currentTime))
                = (gTimeCounter - currentTime) % M
<1>1. gTimeCounter \in Int /\ startTime \in Int /\ currentTime \in Int
  BY MPositive DEF Typed, TimeTyped, PulseTyped
<1>2. /\ uint32(time_diff_ms(gTimeCounter, startTime)) = (gTimeCounter - startTime) % M
      /\ uint32(time_diff_ms(gTimeCounter, currentTime))
           = (gTimeCounter - currentTime) % M
  BY <1>1, Uint32Diff
<1>3. irq_measure =>
        lastPulseTime' = uint32(time_diff_ms(gTimeCounter, startTime))
  BY DEF irq_measure
<1> QED
  BY <1>2, <1>3

(* every step keeps them,                                                  *)
LEMMA TypedStep == ASSUME Typed, [Next]_vars PROVE Typed'
<1> USE DEF Typed
<1>1. CASE tick
  <2>1. (gTimeCounter + 1) % M \in 0..(M - 1)
    BY ModRange, MPositive DEF TimeTyped
  <2>2. TimeTyped'
    BY <1>1, <2>1 DEF tick, TIM2_IRQHandler, TimeTyped
  <2>3. PulseTyped'
    BY <1>1 DEF tick, TIM2_IRQHandler, TimeTyped, PulseTyped, pulseVars
  <2> QED
    BY <2>2, <2>3
<1>2. CASE initialize
  <2>1. TimeTyped'
    BY <1>2, MPositive DEF initialize, time_init, TimeTyped
  <2>2. PulseTyped'
    BY <1>2 DEF initialize, time_init, PulseTyped
  <2> QED
    BY <2>1, <2>2
<1>3. CASE main
  <2>1. now' = now /\ UNCHANGED pulseVars
    BY <1>3 DEF main, time_set_timeout_ms
  <2>2. PulseTyped'
    BY <2>1 DEF PulseTyped, pulseVars
  <2>3. ASSUME NEW ms \in Delays, time_set_timeout_ms(ms) PROVE TimeTyped'
    <3>1. ms \in 0..(M - 1)
      BY TimeAssumption
    <3>2. (gTimeCounter + ms + 1) % M \in 0..(M - 1)
      BY <3>1, ModRange, MPositive DEF TimeTyped
    <3> QED
      BY <2>3, <3>1, <3>2 DEF time_set_timeout_ms, TimeTyped
  <2>4. CASE UNCHANGED <<gTimeCounter, timeout, delay, set_at, now, inits>>
    BY <2>2, <2>4 DEF TimeTyped
  <2> QED
    BY <1>3, <2>2, <2>3, <2>4 DEF main
<1>4. CASE irq_measure
  <2>1. lastPulseTime' = (gTimeCounter - startTime) % M
    BY <1>4, MeasureEffect
  <2>2. lastPulseTime' \in 0..(M - 1)
    BY <2>1, ModRange, MPositive DEF TimeTyped, PulseTyped
  <2> QED
    BY <1>4, <2>2 DEF irq_measure, timeVars, TimeTyped, PulseTyped, Pulses, Void
<1>5. CASE irq
  BY <1>5 DEF irq, timeVars, TimeTyped, PulseTyped, Pulses
<1>6. CASE irq_start
  BY <1>6 DEF irq_start, timeVars, TimeTyped, PulseTyped, Pulses
<1>7. CASE irq_filter
  BY <1>7 DEF irq_filter, timeVars, TimeTyped, PulseTyped
<1>8. CASE irq_count
  BY <1>8 DEF irq_count, timeVars, TimeTyped, PulseTyped, Pulses
<1>9. CASE UNCHANGED vars
  BY <1>9 DEF vars, timeVars, pulseVars, TimeTyped, PulseTyped
<1> QED
  BY <1>1, <1>2, <1>3, <1>4, <1>5, <1>6, <1>7, <1>8, <1>9 DEF Next

(* so they always have them.                                               *)
LEMMA TypedInvariant == Spec => []Typed
<1>1. Typed /\ [Next]_vars => Typed'
  BY TypedStep
<1> QED
  BY <1>1, InitTyped, PTL DEF Spec

(* Times stay within a uint32_t and the counter of pulses in its range.    *)
THEOREM PulseTypeCorrect == Spec => []TypeOK
<1>1. Typed => TypeOK
  BY DEF Typed, TimeTyped, PulseTyped, TypeOK
<1> QED
  BY <1>1, TypedInvariant, PTL
-----------------------------------------------------------------------------
(* The timeout                                                             *)

(* The clock shows how long ago the timeout was set, as far as a uint32_t  *)
(* can tell.                                                               *)
TimeoutInv == set_at # Void => Congruent(timeout - gTimeCounter, delay + 1 - age)

(* A tick advances what the clock shows by one.                            *)
LEMMA TickShows ==
    ASSUME Typed, tick
    PROVE  /\ now' = now + 1
           /\ \A t \in Int : Congruent(gTimeCounter' - t, gTimeCounter - t + 1)
           /\ \A t \in Int : Congruent(t - gTimeCounter', t - gTimeCounter - 1)
<1>1. /\ gTimeCounter \in Int /\ gTimeCounter + 1 \in Int
      /\ gTimeCounter' = (gTimeCounter + 1) % M /\ now' = now + 1
  BY MPositive DEF Typed, TimeTyped, tick, TIM2_IRQHandler
<1>2. gTimeCounter' \in Int /\ Congruent(gTimeCounter', gTimeCounter + 1)
  BY <1>1, ModRange, MPositive
<1>3. ASSUME NEW t \in Int
      PROVE  /\ Congruent(gTimeCounter' - t, gTimeCounter - t + 1)
             /\ Congruent(t - gTimeCounter', t - gTimeCounter - 1)
  <2>1. -t \in Int
    OBVIOUS
  <2>2. /\ Congruent(gTimeCounter' + (-t), gTimeCounter + 1 + (-t))
        /\ Congruent(t - gTimeCounter', t - (gTimeCounter + 1))
    BY <1>1, <1>2, <2>1, Shift, Zenon
  <2>3. /\ gTimeCounter' + (-t) = gTimeCounter' - t
        /\ gTimeCounter + 1 + (-t) = gTimeCounter - t + 1
        /\ t - (gTimeCounter + 1) = t - gTimeCounter - 1
    BY <1>1, <1>2
  <2> QED
    BY <2>2, <2>3
<1> QED
  BY <1>1, <1>3

(* Every step keeps the timeout congruent to the time that is left.        *)
LEMMA TimeoutStep == ASSUME Typed, TimeoutInv, [Next]_vars PROVE TimeoutInv'
<1>0. /\ timeout \in Int /\ gTimeCounter \in Int /\ delay \in Int /\ now \in Int
      /\ set_at \in Int
  BY MPositive DEF Typed, TimeTyped, Void
<1>1. CASE UNCHANGED <<gTimeCounter, timeout, delay, set_at, now>>
  BY <1>1 DEF TimeoutInv, age, Congruent
<1>2. CASE tick
  <2> SUFFICES ASSUME set_at # Void
               PROVE  Congruent(timeout - gTimeCounter', delay + 1 - (now' - set_at))
    BY <1>2 DEF tick, TIM2_IRQHandler, TimeoutInv, age, Congruent
  <2>1. Congruent(timeout - gTimeCounter, delay + 1 - (now - set_at))
    BY DEF TimeoutInv, age
  <2>2. now' = now + 1 /\ Congruent(timeout - gTimeCounter', timeout - gTimeCounter - 1)
    BY <1>0, <1>2, TickShows
  <2>3. Congruent(timeout - gTimeCounter + (-1), delay + 1 - (now - set_at) + (-1))
    <3>1. timeout - gTimeCounter \in Int /\ delay + 1 - (now - set_at) \in Int
          /\ -1 \in Int
      BY <1>0
    <3> QED
      BY <2>1, <3>1, Shift, Zenon
  <2>4. /\ timeout - gTimeCounter + (-1) = timeout - gTimeCounter - 1
        /\ delay + 1 - (now - set_at) + (-1) = delay + 1 - (now' - set_at)
        /\ timeout - gTimeCounter - 1 \in Int
        /\ delay + 1 - (now' - set_at) \in Int
    BY <1>0, <2>2
  <2>5. timeout - gTimeCounter' \in Int
    BY <1>0, <1>2, TypedStep, MPositive DEF Typed, TimeTyped, Next
  <2> QED
    BY <2>2, <2>3, <2>4, <2>5, Transitive
<1>3. CASE initialize
  BY <1>3 DEF initialize, time_init, TimeoutInv
<1>4. ASSUME NEW ms \in Delays, time_set_timeout_ms(ms) PROVE TimeoutInv'
  <2>1. ms \in Int
    BY TimeAssumption
  <2>2. /\ timeout' = (gTimeCounter + ms + 1) % M /\ delay' = ms /\ set_at' = now
        /\ now' = now /\ gTimeCounter' = gTimeCounter
    BY <1>4 DEF time_set_timeout_ms
  <2>3. gTimeCounter + ms + 1 \in Int /\ -gTimeCounter \in Int
    BY <1>0, <2>1
  <2>4. timeout' \in Int /\ Congruent(timeout', gTimeCounter + ms + 1)
    BY <2>2, <2>3, ModRange, MPositive
  <2>5. Congruent(timeout' + (-gTimeCounter), gTimeCounter + ms + 1 + (-gTimeCounter))
    BY <2>3, <2>4, Shift, Zenon
  <2>6. /\ timeout' + (-gTimeCounter) = timeout' - gTimeCounter'
        /\ gTimeCounter + ms + 1 + (-gTimeCounter) = delay' + 1 - (now' - set_at')
    BY <1>0, <2>1, <2>2, <2>4
  <2> QED
    BY <2>5, <2>6 DEF TimeoutInv, age, Congruent
<1> QED
  BY <1>1, <1>2, <1>3, <1>4
     DEF Next, vars, timeVars, irq, irq_measure, irq_start, irq_filter, irq_count, main

(* time_elapsed tells right, for every width of the clock, every delay     *)
(* below INT32_MAX, and wherever the counter wraps.                        *)
THEOREM TimeTimeoutOnTime == Spec => []TimeoutOnTime
<1>1. Init => TimeoutInv
  BY DEF Init, TimeInit, TimeoutInv
<1>2. Typed /\ TimeoutInv => TimeoutOnTime
  <2> SUFFICES ASSUME Typed, TimeoutInv, set_at # Void, delay < INT32_MAX,
                      age <= delay + 2 + INT32_MAX
               PROVE  /\ time_elapsed => age > delay
                      /\ age > delay + 1 => time_elapsed
    BY DEF TimeoutOnTime
  <2> DEFINE x == delay + 1 - age
             d == timeout - gTimeCounter
             H == M \div 2
  <2>1. M = 2 * H /\ H \in Nat \ {0} /\ INT32_MAX = H - 1
    BY TimeAssumption DEF INT32_MAX
  <2>2. delay \in Int /\ age \in Int /\ x \in Int /\ d \in Int
    BY MPositive DEF Typed, TimeTyped, age, Void
  <2>3. Congruent(d, x)
    BY DEF TimeoutInv
  <2>4. time_elapsed <=> d % M > H - 1
    BY <2>1 DEF time_elapsed
  <2> HIDE DEF d, H
  <2>5. CASE x >= 0
    <3>1. x \in 0..(M - 1) /\ x <= H - 1
      BY <2>1, <2>2, <2>5, MPositive DEF Typed, TimeTyped, age, Void
    <3>2. d % M = x
      BY <2>2, <2>3, <3>1, ModSmall
    <3> QED
      BY <2>1, <2>2, <2>4, <2>5, <3>1, <3>2
  <2>6. CASE x < 0
    <3>1. x + M \in 0..(M - 1) /\ x + M > H - 1 /\ x + M \in Int
      BY <2>1, <2>2, <2>6
    <3>2. Congruent(x, x + M)
      <4>1. x = x + M + (-1) * M
        BY <2>2, MPositive
      <4> QED
        BY <4>1 DEF Congruent
    <3>3. Congruent(d, x + M)
      BY <2>2, <2>3, <3>1, <3>2, Transitive
    <3>4. d % M = x + M
      BY <2>2, <3>1, <3>3, ModSmall
    <3> QED
      BY <2>1, <2>2, <2>4, <2>6, <3>1, <3>4
  <2> QED
    BY <2>2, <2>5, <2>6
<1>3. Typed /\ TimeoutInv /\ [Next]_vars => TimeoutInv'
  BY TimeoutStep
<1> QED
  BY <1>1, <1>2, <1>3, TypedInvariant, PTL DEF Spec
-----------------------------------------------------------------------------
(* The measure                                                             *)

(* What the clock shows since the start of the measure is what passed.     *)
StartInv == start_at # Void => Congruent(gTimeCounter - startTime, now - start_at)

(* The last edge that was counted was at tick at.  The edges counted since *)
(* the start are Filter apart, and the one about to be counted too.        *)
CountedAt(at) ==
    /\ at \in start_at..now
    /\ Congruent(gTimeCounter - currentTime, now - at)
    /\ at - start_at >= (pulseCounter - 1) * Filter
    /\ pc = "count" => now - at >= Filter

EdgesInv == start_at # Void /\ pulseCounter > 0 => \E at \in Nat : CountedAt(at)

PulseInv == Typed /\ StartInv /\ EdgesInv /\ PulseMeasured

(* The times are integers.                                                 *)
LEMMA PulseInts ==
    ASSUME Typed
    PROVE  /\ gTimeCounter \in Int /\ startTime \in Int /\ currentTime \in Int
           /\ now \in Nat /\ start_at \in Int /\ Filter \in Nat /\ pulseCounter \in Nat
           /\ start_at # Void => start_at \in 0..now
  BY MPositive, PulseAssumption DEF Typed, TimeTyped, PulseTyped, Void, Pulses

(* A number is congruent to itself.                                        *)
LEMMA CongruentSelf == ASSUME NEW a \in Int PROVE Congruent(a, a)
<1>1. a = a + 0 * M
  BY MPositive
<1> QED
  BY <1>1 DEF Congruent

(* A tick keeps two differences congruent that grow with the clock.        *)
LEMMA TickKeeps ==
    ASSUME Typed, tick, NEW t \in Int, NEW at \in Int,
           Congruent(gTimeCounter - t, now - at)
    PROVE  Congruent(gTimeCounter' - t, now' - at)
<1>1. now' = now + 1 /\ Congruent(gTimeCounter' - t, gTimeCounter - t + 1)
  BY TickShows
<1>2. /\ gTimeCounter - t \in Int /\ now - at \in Int /\ 1 \in Int
      /\ gTimeCounter - t + 1 \in Int /\ now - at + 1 \in Int
  BY PulseInts
<1>3. Congruent(gTimeCounter - t + 1, now - at + 1)
  BY <1>2, Shift, Zenon
<1>4. gTimeCounter' - t \in Int
  BY TypedStep, MPositive DEF Typed, TimeTyped, Next
<1>5. Congruent(gTimeCounter' - t, now - at + 1)
  BY <1>1, <1>2, <1>3, <1>4, Transitive, Zenon
<1>6. now - at + 1 = now' - at
  BY <1>1, PulseInts
<1> QED
  BY <1>5, <1>6

(* Every step keeps the start of the measure right.                        *)
LEMMA StartStep == ASSUME Typed, StartInv, [Next]_vars PROVE StartInv'
<1>1. CASE UNCHANGED <<gTimeCounter, startTime, now, start_at>>
  BY <1>1 DEF StartInv, Congruent
<1>2. CASE tick
  <2>1. start_at' = start_at /\ startTime' = startTime
    BY <1>2 DEF tick, pulseVars
  <2>2. start_at # Void => Congruent(gTimeCounter' - startTime, now' - start_at)
    BY <1>2, TickKeeps, PulseInts DEF StartInv
  <2> QED
    BY <2>1, <2>2 DEF StartInv, Congruent
<1>3. CASE irq_start
  <2>1. /\ startTime' = gTimeCounter /\ gTimeCounter' = gTimeCounter
        /\ start_at' = now /\ now' = now
    BY <1>3 DEF irq_start, timeVars
  <2>2. gTimeCounter' - startTime' = 0 /\ now' - start_at' = 0
    BY <2>1, PulseInts
  <2>3. Congruent(0, 0)
    BY CongruentSelf
  <2> QED
    BY <2>2, <2>3 DEF StartInv, Congruent
<1>4. CASE initialize
  BY <1>4 DEF initialize, StartInv
<1> QED
  BY <1>1, <1>2, <1>3, <1>4
     DEF Next, vars, timeVars, pulseVars, irq, irq_measure, irq_filter, irq_count, main,
         time_set_timeout_ms

(* Every step, an edge in the filter time included, keeps the last counted *)
(* edge right.                                                             *)
LEMMA EdgesStep == ASSUME Typed, EdgesInv, [Next]_vars PROVE EdgesInv'
<1> USE PulseInts
<1>1. ASSUME UNCHANGED <<gTimeCounter, currentTime, now, start_at, pulseCounter>>,
             pc' # "count" \/ pc' = pc
      PROVE  EdgesInv'
  BY <1>1 DEF EdgesInv, CountedAt, Congruent
<1>2. CASE tick
  <2>0. UNCHANGED <<currentTime, start_at, pulseCounter, pc>> /\ now' = now + 1
    BY <1>2 DEF tick, pulseVars, TIM2_IRQHandler
  <2> SUFFICES ASSUME start_at # Void, pulseCounter > 0
               PROVE  \E at \in Nat : CountedAt(at)'
    BY <2>0 DEF EdgesInv
  <2>1. PICK at \in Nat : CountedAt(at)
    BY DEF EdgesInv
  <2>2. Congruent(gTimeCounter' - currentTime, now' - at)
    BY <1>2, <2>1, TickKeeps DEF CountedAt
  <2>3. CountedAt(at)'
    BY <2>0, <2>1, <2>2 DEF CountedAt, Congruent
  <2> QED
    BY <2>3
<1>3. CASE irq_filter
  <2>0. /\ UNCHANGED <<gTimeCounter, currentTime, now, start_at, pulseCounter>>
        /\ pc' = "count" => (gTimeCounter - currentTime) % M >= Filter
    BY <1>3, MeasureEffect DEF irq_filter, timeVars
  <2> SUFFICES ASSUME start_at # Void, pulseCounter > 0, pc' = "count"
               PROVE  \E at \in Nat : CountedAt(at)'
    BY <1>1, <2>0 DEF EdgesInv
  <2>1. PICK at \in Nat : CountedAt(at)
    BY DEF EdgesInv
  <2>2. now - at \in Nat /\ gTimeCounter - currentTime \in Int
    BY <2>1 DEF CountedAt
  <2>3. (gTimeCounter - currentTime) % M <= now - at
    BY <2>1, <2>2, ModLeq DEF CountedAt
  <2>4. (gTimeCounter - currentTime) % M \in Int
    BY <2>2, ModRange, MPositive
  <2>5. now - at >= Filter
    BY <2>0, <2>2, <2>3, <2>4
  <2>6. CountedAt(at)'
    BY <2>0, <2>1, <2>5 DEF CountedAt, Congruent
  <2> QED
    BY <2>6
<1>4. CASE irq_count
  <2>0. /\ UNCHANGED <<gTimeCounter, now, start_at>> /\ currentTime' = gTimeCounter
        /\ pulseCounter' = pulseCounter + 1 /\ pc = "count" /\ pc' = "idle"
    BY <1>4 DEF irq_count, timeVars
  <2> SUFFICES ASSUME start_at # Void
               PROVE  CountedAt(now)'
    BY <2>0 DEF EdgesInv
  <2>1. gTimeCounter' - currentTime' = 0 /\ now' - now = 0 /\ Congruent(0, 0)
    BY <2>0, CongruentSelf
  <2>2. now - start_at >= pulseCounter * Filter
    <3>1. CASE pulseCounter = 0
      BY <3>1
    <3>2. CASE pulseCounter > 0
      <4>1. PICK at \in Nat : CountedAt(at)
        BY <3>2 DEF EdgesInv
      <4>2. (pulseCounter - 1) * Filter + Filter = pulseCounter * Filter
        OBVIOUS
      <4>3. (pulseCounter - 1) * Filter \in Int
        OBVIOUS
      <4>4. at - start_at >= (pulseCounter - 1) * Filter /\ now - at >= Filter
        BY <2>0, <4>1 DEF CountedAt
      <4> QED
        BY <4>2, <4>3, <4>4
    <3> QED
      BY <3>1, <3>2
  <2>3. (pulseCounter' - 1) * Filter = pulseCounter * Filter
    BY <2>0
  <2> QED
    BY <2>0, <2>1, <2>2, <2>3 DEF CountedAt, Congruent
<1>5. CASE irq_measure \/ irq_start
  <2>1. pulseCounter' = 0
    BY <1>5 DEF irq_measure, irq_start, Typed, PulseTyped
  <2> QED
    BY <2>1 DEF EdgesInv
<1>6. CASE initialize
  BY <1>6 DEF initialize, EdgesInv
<1>7. CASE irq
  <2>1. UNCHANGED <<gTimeCounter, currentTime, now, start_at, pulseCounter>>
        /\ pc' # "count"
    BY <1>7 DEF irq, timeVars
  <2> QED
    BY <1>1, <2>1
<1>8. CASE main \/ UNCHANGED vars
  <2>1. UNCHANGED <<gTimeCounter, currentTime, now, start_at, pulseCounter, pc>>
    BY <1>8 DEF main, vars, timeVars, pulseVars, time_set_timeout_ms
  <2> QED
    BY <1>1, <2>1
<1> QED
  BY <1>2, <1>3, <1>4, <1>5, <1>6, <1>7, <1>8 DEF Next

(* The measure that irq() stores is the time that passed, or one that the  *)
(* property leaves open.                                                   *)
LEMMA MeasureStep == ASSUME PulseInv, [Next]_vars PROVE PulseMeasured'
<1>0. Typed /\ PulseMeasured
  BY DEF PulseInv
<1>1. CASE UNCHANGED <<lastPulseTime, span>>
  BY <1>0, <1>1 DEF PulseMeasured
<1>2. CASE irq_measure
  <2>1. /\ span' = IF start_at = Void THEN Void ELSE now - start_at
        /\ lastPulseTime' = (gTimeCounter - startTime) % M /\ pulseCounter = 4
    BY <1>0, <1>2, MeasureEffect DEF irq_measure, Typed, PulseTyped, Pulses
  <2> SUFFICES ASSUME span' \in 0..(M - 1)
               PROVE  lastPulseTime' = span' /\ span' >= 3 * Filter
    BY DEF PulseMeasured, Pulses
  <2>2. start_at # Void /\ span' = now - start_at
    BY <2>1, MPositive DEF Void
  <2>3. gTimeCounter - startTime \in Int
    BY <1>0, PulseInts
  <2>4. lastPulseTime' = span'
    BY <2>1, <2>2, <2>3, ModSmall DEF PulseInv, StartInv
  <2>5. PICK at \in Nat : CountedAt(at)
    BY <2>1, <2>2 DEF PulseInv, EdgesInv
  <2>6. at - start_at >= 3 * Filter /\ at <= now
    BY <1>0, <2>1, <2>5, PulseInts DEF CountedAt
  <2> QED
    BY <1>0, <2>2, <2>4, <2>6, PulseInts
<1> QED
  BY <1>1, <1>2
     DEF Next, vars, pulseVars, tick, initialize, main, irq, irq_start, irq_filter,
         irq_count

(* The time taken is the time that passed, and glitches cannot shorten it, *)
(* for every filter, every width of the clock, and whatever its variables  *)
(* hold at first.                                                          *)
THEOREM PulseIsMeasured == Spec => []PulseMeasured
<1>1. Init => PulseInv
  BY InitTyped, MPositive DEF Init, PulseInv, StartInv, EdgesInv, PulseMeasured, Void
<1>2. PulseInv /\ [Next]_vars => PulseInv'
  BY TypedStep, StartStep, EdgesStep, MeasureStep DEF PulseInv
<1>3. PulseInv => PulseMeasured
  BY DEF PulseInv
<1> QED
  BY <1>1, <1>2, <1>3, PTL DEF Spec
=============================================================================
